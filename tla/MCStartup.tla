------------------------------ MODULE MCStartup ------------------------------
(* An instance of Startup for TLC: machines without a device, with one and    *)
(* with two, and device numbers of each kind.                                 *)
EXTENDS Startup

MCDeviceIds == {-1, 0, 1, 2}

===============================================================================

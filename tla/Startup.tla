-------------------------------- MODULE Startup --------------------------------
(****************************************************************************)
(* main() from the configuration to the server (src/main.cpp), with the     *)
(* configuration (src/common/config.cpp), the constructor of the ONNX       *)
(* service (src/embedding/onnx_runtime.cpp) and the CUDA context.  The      *)
(* CUDA wrappers have no user in the program; a process that links them is  *)
(* the other kind of start.                                                 *)
(****************************************************************************)
EXTENDS CudaUtils

CONSTANTS
    DeviceCounts,   \* devices a machine may have
    DeviceIds,      \* numbers RAG_CUDA_DEVICE may have
    Unset,          \* the variable is not in the environment
    NotANumber      \* its value is no number

ASSUME StartupAssumption == DeviceCounts \subseteq Nat /\ DeviceIds \subseteq Int

VARIABLES
    stage,          \* where main() is
    file,           \* what the configuration file says of use_cuda
    env,            \* the environment, as far as the start depends on it
    overrides,      \* env_overrides_, for use_cuda
    config,         \* config_.embedding: use_cuda and cuda_device_id
    service,        \* the embedding service: none, cpu or onnx
    session_device, \* the device the ONNX session was made for
    ready           \* ready_ of the pipeline

bvars == <<stage, file, env, overrides, config, service, session_device, ready>>
svars == <<cvars, bvars>>

(* RAG_USE_CUDA, RAG_CUDA_DEVICE, any other variable that holds a number;    *)
(* whether the model and the corpus can be loaded and the port bound.        *)
Environments ==
    [use_cuda : {Unset, "true", "no"}, cuda_device : DeviceIds \cup {Unset, NotANumber},
     numbers : {Unset, NotANumber}, model : {"good", "bad"},
     corpus : {"none", "good", "missing", "broken"}, port : {"free", "taken"}]

Defaults == [use_cuda |-> TRUE, cuda_device_id |-> 0]

SInit ==
    /\ CInit
    /\ device_count \in DeviceCounts
    /\ stage \in {"file", "library"}
    /\ file \in {Unset, "false"}
    /\ env \in Environments
    /\ stage = "library" =>
          env = (CHOOSE e \in Environments : TRUE) /\ file = Unset
    /\ overrides = Unset
    /\ config = Defaults
    /\ service = "none"
    /\ session_device = 0
    /\ ready = FALSE

Go(from, to) == stage = from /\ stage' = to

(* The file goes into a map that nothing reads. *)
LoadFromFile ==
    /\ Go("file", "env")
    /\ overrides' = file
    /\ UNCHANGED <<cvars, file, env, config, service, session_device, ready>>

(* stoi() throws, and main() does not catch. *)
Unparsable == env.cuda_device = NotANumber \/ env.numbers = NotANumber

LoadFromEnv ==
    /\ Go("env", "context")
    /\ ~Unparsable
    /\ config' = [use_cuda |-> IF env.use_cuda = Unset THEN config.use_cuda
                               ELSE env.use_cuda = "true",
                  cuda_device_id |-> IF env.cuda_device = Unset THEN config.cuda_device_id
                                     ELSE env.cuda_device]
    /\ UNCHANGED <<cvars, file, env, overrides, service, session_device, ready>>

EnvThrows ==
    /\ Go("env", "exited")
    /\ Unparsable
    /\ UNCHANGED <<cvars, file, env, overrides, config, service, session_device, ready>>

InitContext ==
    /\ \/ Go("context", "service")
       \/ stage = "library" /\ ~context.available /\ UNCHANGED stage
    /\ MakeContext
    /\ UNCHANGED <<device_count, live, own, bytes, pool, freed, strayed, file, env,
                   overrides, config, service, session_device, ready>>

(* Mutant of OnGpu: the device is not asked for. *)
OnGpuIfWanted == config.use_cuda

OnGpu == config.use_cuda /\ context.available

(* The ONNX service selects its device, clamped; the execution provider is   *)
(* given the device as configured, and refuses one that is not there.        *)
ProviderTakes(id) == context.available => Present(id)

OnnxService ==
    /\ Go("service", "corpus")
    /\ OnGpu
    /\ ProviderTakes(config.cuda_device_id) /\ env.model = "good"
    /\ SetDevice(config.cuda_device_id)
    /\ service' = "onnx"
    /\ session_device' = config.cuda_device_id
    /\ UNCHANGED <<device_count, live, own, bytes, pool, freed, strayed, file, env,
                   overrides, config, ready>>

(* Mutant of Fallback: the exception of the constructor is not caught. *)
FallbackNone == "exited"

Fallback == "corpus"

(* The constructor throws, for these reasons or others of the runtime. *)
OnnxThrows ==
    /\ Go("service", Fallback)
    /\ OnGpu
    /\ SetDevice(config.cuda_device_id)
    /\ service' = "cpu"
    /\ UNCHANGED <<device_count, live, own, bytes, pool, freed, strayed, file, env,
                   overrides, config, session_device, ready>>

CpuService ==
    /\ Go("service", "corpus")
    /\ ~OnGpu
    /\ service' = "cpu"
    /\ UNCHANGED <<cvars, file, env, overrides, config, session_device, ready>>

(* A corpus that cannot be read counts as loaded; one with a bad header      *)
(* throws, and so may a good one whose index is refused, which is caught.    *)
LoadCorpus ==
    /\ Go("corpus", "server")
    /\ \/ env.corpus \in {"good", "missing"} /\ ready' = TRUE
       \/ env.corpus # "missing" /\ ready' = FALSE
    /\ UNCHANGED <<cvars, file, env, overrides, config, service, session_device>>

StartServer ==
    /\ Go("server", IF env.port = "free" THEN "serving" ELSE "exited")
    /\ UNCHANGED <<cvars, file, env, overrides, config, service, session_device, ready>>

Main ==
    \/ LoadFromFile \/ LoadFromEnv \/ EnvThrows
    \/ InitContext
    \/ OnnxService \/ OnnxThrows \/ CpuService
    \/ LoadCorpus \/ StartServer

SNext ==
    \/ Main
    \/ stage = "library" /\ CNext /\ UNCHANGED bvars

SSpec == SInit /\ [][SNext]_svars /\ WF_svars(Main)

-------------------------------------------------------------------------------
(* Configuration, service and context keep to their types; the context's     *)
(* device is one of the machine, whatever was configured.                    *)
TypeOK ==
    /\ context.available => Present(context.device)
    /\ config \in [use_cuda : BOOLEAN, cuda_device_id : DeviceIds \cup {0}]
    /\ service \in {"none", "cpu", "onnx"}
    /\ own \in [Owners -> Blocks \cup Handles \cup {Absent, Null}]
    /\ \A m \in Memories : own[m] \in Blocks => bytes[m] \in Sizes
    /\ context.streams \subseteq Handles /\ strayed \subseteq Handles

(* The ONNX service only runs where main() announces it, on a GPU, and its   *)
(* session is on the device the context of the process has selected.         *)
OnnxOnGpu ==
    service = "onnx" =>
        context.available /\ Present(session_device) /\ session_device = context.device

(* Nothing but a variable that is no number and a port that is taken keeps   *)
(* the program from serving: without a GPU, with a device or a model that is *)
(* not there, or with a broken corpus it starts all the same.                *)
ServesAnyway ==
    stage = "file" ~>
        stage = "serving" \/ (stage = "exited" /\ (Unparsable \/ env.port = "taken"))

================================================================================

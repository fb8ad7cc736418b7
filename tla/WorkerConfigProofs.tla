------------------------- MODULE WorkerConfigProofs --------------------------
(***************************************************************************)
(* Proofs about WorkerConfig, for ints of every width.                     *)
(***************************************************************************)
EXTENDS WorkerConfig, TLAPS

\* A product, or any other number, ends up among the ints.
LEMMA WrapType ==
  ASSUME NEW n \in Int
  PROVE  Wrap(n) \in MachineInts
<1>1. HalfRange \in Nat /\ 2 * HalfRange \in Nat \ {0}
  BY MachineIntAssumption
<1>2. (n + HalfRange) % (2 * HalfRange) \in 0 .. (2 * HalfRange) - 1
  BY <1>1
<1> QED BY <1>1, <1>2 DEF Wrap, MachineInts

LEMMA IntFromEnvType ==
  ASSUME NEW raw \in Setting, NEW fallback \in MachineInts
  PROVE  /\ intFromEnv(raw, fallback) \in MachineInts
         /\ fallback >= 1 => intFromEnv(raw, fallback) >= 1
BY MachineIntAssumption DEF intFromEnv, Setting, MachineInts

\* Whatever the three variables hold, the worker has a goroutine, a batch and
\* a channel with room for a job of each goroutine.
THEOREM ConfigAlwaysUsable == \A env \in Env : ConfigUsable(env)
<1> SUFFICES ASSUME NEW env \in Env PROVE ConfigUsable(env)
  OBVIOUS
<1>1. PICK workers : workers = intFromEnv(env.WORKER_COUNT, 4)
  OBVIOUS
<1>2. PICK batch : batch = intFromEnv(env.WORKER_BATCH_SIZE, workers)
  OBVIOUS
<1>3. PICK queue : queue = intFromEnv(env.WORKER_QUEUE_SIZE, Wrap(workers * 2))
  OBVIOUS
<1>4. 4 \in MachineInts /\ MachineInts \subseteq Int
  BY ConfigAssumption, MachineIntAssumption DEF MachineInts
<1>5. workers \in MachineInts /\ workers >= 1
  BY <1>1, <1>4, IntFromEnvType DEF Env
<1>6. batch \in MachineInts /\ batch >= 1
  BY <1>2, <1>5, IntFromEnvType DEF Env
<1>7. queue \in MachineInts
  <2>1. Wrap(workers * 2) \in MachineInts
    BY <1>4, <1>5, WrapType
  <2> QED BY <1>3, <2>1, IntFromEnvType DEF Env
<1>8. LoadConfigFromEnv(env) =
        [WorkerCount |-> workers, BatchSize |-> batch,
         QueueSize |-> IF queue < workers THEN workers ELSE queue]
  BY <1>1, <1>2, <1>3, <1>4, <1>5, <1>6 DEF LoadConfigFromEnv
<1> QED BY <1>4, <1>5, <1>6, <1>7, <1>8 DEF ConfigUsable
=============================================================================

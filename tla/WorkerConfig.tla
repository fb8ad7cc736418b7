---------------------------- MODULE WorkerConfig -----------------------------
(***************************************************************************)
(* LoadConfigFromEnv (src/internal/worker/config.go): the sizes of the     *)
(* pool, of the claimed batch and of the jobs channel, from three          *)
(* environment variables.  The result is what Runner takes as constants.   *)
(***************************************************************************)
EXTENDS MachineInt

CONSTANT Unset   \* a variable that is not set, or that strconv.Atoi refuses

ASSUME ConfigAssumption == HalfRange > 4 /\ Unset \notin Int

Setting == MachineInts \cup {Unset}

Env == [WORKER_COUNT : Setting, WORKER_BATCH_SIZE : Setting, WORKER_QUEUE_SIZE : Setting]

intFromEnv(raw, fallback) ==
  IF raw = Unset THEN fallback ELSE IF raw < 1 THEN fallback ELSE raw

\* The defaults: 4 workers, a batch of their number, a queue of twice their
\* number (a product that may not fit an int).
LoadConfigFromEnv(env) ==
  LET workers == intFromEnv(env.WORKER_COUNT, 4)
      batch   == intFromEnv(env.WORKER_BATCH_SIZE, workers)
      queue   == intFromEnv(env.WORKER_QUEUE_SIZE, Wrap(workers * 2))
      count   == IF workers < 1 THEN 1 ELSE workers
  IN  [WorkerCount |-> count,
       BatchSize   |-> IF batch < 1 THEN count ELSE batch,
       QueueSize   |-> IF queue < count THEN count ELSE queue]

\* Whatever the environment holds, there is a worker, a claim takes at least
\* one monitor, and the channel has room for a job of every worker: without
\* the last clamp a huge WORKER_COUNT would make a channel of negative size.
ConfigUsable(env) ==
  LET config == LoadConfigFromEnv(env)
  IN  /\ config.WorkerCount >= 1
      /\ config.BatchSize >= 1
      /\ config.QueueSize >= config.WorkerCount
      /\ \A s \in {config.WorkerCount, config.BatchSize, config.QueueSize} : s \in MachineInts
=============================================================================

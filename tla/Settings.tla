------------------------------ MODULE Settings ------------------------------
(***************************************************************************)
(* The configuration: what Load makes of the environment, and what check  *)
(* then refuses.  The text of a variable is abstracted to what its parser  *)
(* finds: nothing, no number of its kind, or a number.                     *)
(***************************************************************************)
EXTENDS Deadlines

CONSTANTS
  Default,   \* the default of each variable
  Unset,     \* a variable that is unset or empty
  Malformed, \* one that does not parse
  Refused    \* what Load returns with an error

DurationNames ==
  {"HTTP_READ_TIMEOUT", "HTTP_WRITE_TIMEOUT", "SHUTDOWN_TIMEOUT",
   "PROVIDER_TIMEOUT", "PROVIDER_BACKOFF", "WORKER_POLL_INTERVAL",
   "WORKER_TASK_TIMEOUT", "WORKER_STUCK_TIMEOUT", "WORKER_RECOVERY_INTERVAL",
   "IDEMPOTENCY_TTL"}
CountNames == {"PROVIDER_ATTEMPTS", "WORKER_CONCURRENCY", "WORKER_MAX_ATTEMPTS"}
NumberNames == DurationNames \cup CountNames \cup {"HTTP_PORT"}

(* DATABASE_URL has no default, and any text in it will do; any text will  *)
(* do in PROVIDER_BASE_URL, too, which has one.                            *)
Names == NumberNames \cup {"DATABASE_URL", "LOG_LEVEL"}

Value(env, name) == IF env[name] = Unset THEN Default[name] ELSE env[name]

Positive_OrZero(n) == n >= 0
Positive(n) == n > 0

InRange(name, n) == Positive(n) /\ (name = "HTTP_PORT" => n <= 65535)

Readable(env, name) ==
  IF name = "DATABASE_URL" THEN env[name] # Unset
  ELSE IF name = "LOG_LEVEL" THEN env[name] # Malformed
  ELSE env[name] = Unset \/ (env[name] # Malformed /\ InRange(name, env[name]))

MinStuck_Once(cfg) == cfg["WORKER_TASK_TIMEOUT"]
MinStuck(cfg) == Wrap(2 * cfg["WORKER_TASK_TIMEOUT"])

Check(cfg) ==
  /\ RoomToAnswer(cfg["HTTP_WRITE_TIMEOUT"])
  /\ cfg["WORKER_STUCK_TIMEOUT"] >= MinStuck(cfg)

Load(env) ==
  LET cfg == [name \in NumberNames |-> Value(env, name)]
  IN  IF (\A name \in Names : Readable(env, name)) /\ Check(cfg) THEN cfg
      ELSE Refused
=============================================================================

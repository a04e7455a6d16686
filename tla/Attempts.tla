------------------------------- MODULE Attempts -------------------------------
(***************************************************************************)
(* One job's attempts in time: the lease of a claim (app/jobs/repository.py)*)
(* against the timeout of the extraction (app/jobs/worker.py), the retries  *)
(* of the provider inside it (app/ai/retrying.py), and the backoff between  *)
(* attempts. The module Jobs lets any lease lapse at any time; this one     *)
(* says what the durations of JobsSettings buy.                             *)
(*                                                                         *)
(* Time is an integer clock. A step that the code takes without waiting is *)
(* taken within Stall; a slot polls at least every Gap, and a process that *)
(* died is back within Gap. Of the pool only one job is looked at.         *)
(***************************************************************************)
EXTENDS Integers

CONSTANTS
    Slots,        \* worker slots
    Leases,       \* lease_seconds to choose from
    Timeouts,     \* timeout_seconds to choose from
    Margin,       \* the five seconds of lease_exceeds_timeout
    MaxAttempts,  \* max_attempts of the job
    Backoff,      \* backoff_seconds
    MaxBackoff,   \* max_backoff_seconds
    AiAttempts,   \* ai_max_attempts
    AiBackoff,    \* ai_retry_backoff_seconds
    Stall,        \* longest delay of a step that does not wait
    Gap           \* longest time between two polls of a slot

AttemptsAssumption ==
    /\ Slots # {}
    /\ Leases \subseteq Nat /\ Timeouts \subseteq Nat \ {0}
    /\ Stall \in Nat /\ Margin \in Nat /\ 3 * Stall <= Margin
    /\ MaxAttempts \in 1..5 /\ AiAttempts \in 1..4
    /\ Backoff \in Nat \ {0} /\ MaxBackoff \in Nat /\ Backoff <= MaxBackoff
    /\ AiBackoff \in Nat /\ Gap \in Nat \ {0}

VARIABLES
    now,       \* the clock of the database
    settings,  \* the lease and the timeout the process was started with
    job,       \* the row of the job
    slot,      \* what each slot is doing, since when, and with which lease
    proposal,  \* whether the proposal is stored
    calls      \* history: calls to the provider

vars == <<now, settings, job, slot, proposal, calls>>

-----------------------------------------------------------------------------
(* Settings and delays.                                                    *)

\* mutant: the lease only has to exceed the timeout.
ValidWithoutMargin(s) == s.lease > s.timeout

\* JobsSettings.lease_exceeds_timeout
Valid(s) == s.lease > s.timeout + Margin

Ceiling(attempt) ==
    LET grown == Backoff * 2 ^ (IF attempt - 1 < 10 THEN attempt - 1 ELSE 10)
    IN  IF grown < MaxBackoff THEN grown ELSE MaxBackoff

\* Equal jitter: between half the ceiling and the ceiling.
Delays(attempt) == {d \in 0..Ceiling(attempt) : 2 * d >= Ceiling(attempt)}

-----------------------------------------------------------------------------
\* Jobs that are queued and jobs in retry_wait both wait.
Idle == [pc |-> "idle", since |-> now, start |-> 0, token |-> 0, tries |-> 0, error |-> "none"]

Working == {"calling", "sleeping", "answered"}
Settled == job.status \in {"succeeded", "dead_letter"}

TypeOK ==
    /\ now \in Nat
    /\ settings.lease \in Leases /\ settings.timeout \in Timeouts
    /\ job.status \in {"waiting", "running", "succeeded", "dead_letter"}
    /\ job.attempts \in 0..MaxAttempts
    /\ job.lease \in Nat /\ job.available \in Nat
    /\ \A s \in Slots :
         /\ slot[s].pc \in {"down", "idle", "claimed", "ending"} \cup Working
         /\ slot[s].token \in 0..job.attempts
         /\ slot[s].tries \in 0..AiAttempts
         /\ slot[s].error \in {"none", "provider", "rejected", "disabled", "output", "database",
                             "timeout"}
    /\ proposal \in BOOLEAN /\ calls \in Nat

Init ==
    /\ now = 0
    /\ settings \in {s \in [lease : Leases, timeout : Timeouts] : Valid(s)}
    /\ job = [status |-> "waiting", attempts |-> 0, lease |-> 0, available |-> 0]
    /\ slot = [s \in Slots |-> Idle]
    /\ proposal = FALSE /\ calls = 0

Moves(s, pc) == slot' = [slot EXCEPT ![s].pc = pc, ![s].since = now]

-----------------------------------------------------------------------------
(* Claiming: a lapsed lease is recovered, then the job is taken if it is    *)
(* due. What was recovered is due only after its backoff.                   *)

Lapsed == job.status = "running" /\ job.lease <= now

Recovered ==
    IF ~Lapsed THEN {job}
    ELSE IF job.attempts >= MaxAttempts THEN {[job EXCEPT !.status = "dead_letter"]}
    ELSE {[job EXCEPT !.status = "waiting", !.available = now + d] : d \in Delays(job.attempts)}

Due(j) == j.status = "waiting" /\ j.available <= now /\ j.attempts < MaxAttempts

Poll(s) ==
    /\ slot[s].pc = "idle"
    /\ \E j \in Recovered :
        IF Due(j)
        THEN /\ job' = [j EXCEPT !.status = "running", !.attempts = @ + 1,
                                 !.lease = now + settings.lease]
             /\ slot' = [slot EXCEPT ![s] =
                   [Idle EXCEPT !.pc = "claimed", !.token = j.attempts + 1]]
        ELSE /\ job' = j
             /\ slot' = [slot EXCEPT ![s] = Idle]
    /\ UNCHANGED <<now, settings, proposal, calls>>

-----------------------------------------------------------------------------
(* The extraction, under asyncio.timeout.                                  *)

\* A proposal stored by an earlier attempt is returned without a call.
Begin(s) ==
    /\ slot[s].pc = "claimed"
    /\ slot' = [slot EXCEPT ![s].pc = IF proposal THEN "ending" ELSE "calling",
                            ![s].since = now, ![s].start = now,
                            ![s].tries = IF proposal THEN 0 ELSE 1]
    /\ calls' = calls + (IF proposal THEN 0 ELSE 1)
    /\ UNCHANGED <<now, settings, job, proposal>>

Answers(s) ==
    /\ slot[s].pc = "calling"
    /\ Moves(s, "answered")
    /\ UNCHANGED <<now, settings, job, proposal, calls>>

Store(s) ==
    /\ slot[s].pc = "answered"
    /\ proposal' = TRUE
    /\ Moves(s, "ending")
    /\ UNCHANGED <<now, settings, job, calls>>

Ends(s, error) ==
    slot' = [slot EXCEPT ![s].pc = "ending", ![s].since = now, ![s].error = error]

\* mutant: the last of the attempts is followed by another one.
GivesUpLate(tries) == tries > AiAttempts

GivesUp(tries) == tries = AiAttempts

\* A timeout, a lost connection, 429 or 5xx.
FailsForNow(s) ==
    /\ slot[s].pc = "calling"
    /\ IF GivesUp(slot[s].tries) THEN Ends(s, "provider") ELSE Moves(s, "sleeping")
    /\ UNCHANGED <<now, settings, job, proposal, calls>>

WakeAt(s) == slot[s].since + AiBackoff * 2 ^ (slot[s].tries - 1)

CallAgain(s) ==
    /\ slot[s].pc = "sleeping"
    /\ now >= WakeAt(s)
    /\ slot' = [slot EXCEPT ![s].pc = "calling", ![s].since = now, ![s].tries = @ + 1]
    /\ calls' = calls + 1
    /\ UNCHANGED <<now, settings, job, proposal>>

\* The request is refused, or the response is no response (too long, no JSON).
Rejects(s) ==
    /\ slot[s].pc = "calling"
    /\ Ends(s, "rejected")
    /\ UNCHANGED <<now, settings, job, proposal, calls>>

\* AI_PROVIDER_DISABLED; a payload, an output or a raw event that is refused; a
\* database error before or after the call.
Fails(s) ==
    /\ \/ slot[s].pc = "calling" /\ Ends(s, "disabled")
       \/ slot[s].pc \in {"claimed", "calling", "answered"} /\ Ends(s, "output")
       \/ slot[s].pc \in {"claimed", "answered"} /\ Ends(s, "database")
    /\ UNCHANGED <<now, settings, job, proposal, calls>>

TimesOut(s) ==
    /\ slot[s].pc \in Working
    /\ now >= slot[s].start + settings.timeout
    /\ Ends(s, "timeout")
    /\ UNCHANGED <<now, settings, job, proposal, calls>>

-----------------------------------------------------------------------------
(* Finishing, dying, and the clock.                                        *)

\* Every AIProviderError but AI_PROVIDER_DISABLED, database errors, the timeout.
Retryable(error) == error \in {"provider", "rejected", "database", "timeout"}

\* mutant: the last attempt puts the job back to wait.
ExhaustedNever(j) == FALSE

Exhausted(j) == j.attempts >= MaxAttempts

Holds(s) == job.status = "running" /\ job.attempts = slot[s].token /\ job.lease > now

Finish(s) ==
    LET error == slot[s].error IN
    /\ slot[s].pc = "ending"
    /\ slot' = [slot EXCEPT ![s] = Idle]
    /\ \/ ~Holds(s) /\ UNCHANGED job
       \/ /\ Holds(s) /\ error = "none"
          /\ job' = [job EXCEPT !.status = "succeeded"]
       \/ /\ Holds(s) /\ Retryable(error) /\ ~Exhausted(job)
          /\ \E d \in Delays(job.attempts) :
               job' = [job EXCEPT !.status = "waiting", !.available = now + d]
       \/ /\ Holds(s) /\ error # "none" /\ (~Retryable(error) \/ Exhausted(job))
          /\ job' = [job EXCEPT !.status = "dead_letter"]
    /\ UNCHANGED <<now, settings, proposal, calls>>

\* The process dies, or a finish fails, at any point.
Die(s) ==
    /\ slot[s].pc \notin {"down", "idle"}
    /\ slot' = [slot EXCEPT ![s] = [Idle EXCEPT !.pc = "down"]]
    /\ UNCHANGED <<now, settings, job, proposal, calls>>

Restart(s) ==
    /\ slot[s].pc = "down"
    /\ slot' = [slot EXCEPT ![s] = Idle]
    /\ UNCHANGED <<now, settings, job, proposal, calls>>

\* What each slot has to have done before the clock goes on.
MayWait(s) ==
    CASE slot[s].pc \in {"down", "idle"} -> now < slot[s].since + Gap
      [] slot[s].pc \in {"claimed", "ending"} -> now < slot[s].since + Stall
      [] slot[s].pc \in {"calling", "sleeping"} ->
            now < slot[s].start + settings.timeout + Stall
      [] slot[s].pc = "answered" ->
            /\ now < slot[s].since + Stall
            /\ now < slot[s].start + settings.timeout + Stall

Rests == Settled /\ \A s \in Slots : slot[s].pc = "idle"

Tick ==
    /\ ~Rests
    /\ \A s \in Slots : MayWait(s)
    /\ now' = now + 1
    /\ UNCHANGED <<settings, job, slot, proposal, calls>>

Step(s) ==
    \/ Poll(s) \/ Begin(s) \/ Answers(s) \/ Store(s) \/ FailsForNow(s) \/ CallAgain(s)
    \/ Rejects(s) \/ Fails(s) \/ TimesOut(s) \/ Finish(s) \/ Die(s) \/ Restart(s)

Next == Tick \/ \E s \in Slots : Step(s)

Spec == Init /\ [][Next]_vars

-----------------------------------------------------------------------------
(* Properties.                                                             *)

\* With the settings the process accepts, and steps that take no longer than
\* Stall, two slots never work on one job at a time: the timeout has ended the
\* first extraction before its lease lets another slot begin.
NoOverlap ==
    \A s, t \in Slots : slot[s].pc \in Working /\ slot[t].pc \in Working => s = t

\* A slot that lives on always ends while it holds the lease: no outcome, and
\* above all no timeout, is lost as a "stale lease".
EndsWithinLease == \A s \in Slots : slot[s].pc = "ending" => Holds(s)

\* The two bounded retries together: a provider is called at most so often for
\* a job, whatever it answers, however often workers die.
BoundedCalls == calls <= MaxAttempts * AiAttempts

\* When the last claim can be over: for each attempt a poll, a lease, the restart
\* of a process that died in it and a poll that recovers it, and the backoffs in
\* between.
Deadline == MaxAttempts * (settings.lease + 3 * Gap) + (MaxAttempts - 1) * MaxBackoff

\* A job with a free slot is settled by a time known in advance, even if a
\* worker dies in every attempt.
SettledByDeadline == now > Deadline => Settled

=============================================================================

-------------------------------- MODULE Agent --------------------------------
(***************************************************************************)
(* The read-only finance agent (app/agent): questions that are routed to   *)
(* one of a few tools, by patterns or by a model that may only name a tool,*)
(* run under a limit on their number and a timeout on each, and are         *)
(* authorized again before every read, because the session may end while   *)
(* they run.                                                                *)
(*                                                                         *)
(* A question is what routing makes of its text. The facts of an answer    *)
(* are the reads it rests on; labels, rendering and sizes are left out.     *)
(***************************************************************************)
EXTENDS Integers, FiniteSets

CONSTANTS
    Askers,        \* requests
    Questions,     \* see TypeOK
    MaxConcurrent, \* max_concurrent
    None

\* The reads of each tool, one service call each.
Reads ==
    [summary |-> 1, compare |-> 1, transactions |-> 1, transaction |-> 1, receivables |-> 1,
     relationship |-> 2, recurring |-> 2, unsupported |-> 0]

Tools == DOMAIN Reads

AgentAssumption ==
    /\ IsFiniteSet(Askers)
    /\ MaxConcurrent \in Nat \ {0}
    /\ \A q \in Questions :
         /\ q.tool \in Tools
         /\ {q.blocked, q.period, q.person, q.transaction} \subseteq BOOLEAN
         /\ q.period => q.tool = "unsupported"   \* unsupported_period()

VARIABLES
    session,  \* whether the session of each request is valid
    ask       \* each request: its question, its progress and its outcome

vars == <<session, ask>>

Running  == {"routing", "choosing", "authorizing", "reading"}
Outcomes == {"none", "answered", "unsupported", "needs_input", "busy", "resource_limit",
             "unauthorized", "not_found"}

TypeOK ==
    /\ session \in [Askers -> BOOLEAN]
    /\ \A a \in Askers :
         /\ ask[a].pc \in {"new", "done"} \cup Running
         /\ ask[a].question \in Questions \cup {None}
         /\ ask[a].tool \in Tools
         /\ ask[a].facts \in 0..Reads[ask[a].tool]
         /\ ask[a].late \in 0..2
         /\ ask[a].outcome \in Outcomes
         /\ ask[a].pc = "done" <=> ask[a].outcome # "none"

New == [pc |-> "new", question |-> None, tool |-> "unsupported", facts |-> 0, late |-> 0,
        outcome |-> "none"]

Init ==
    /\ session = [a \in Askers |-> TRUE]
    /\ ask = [a \in Askers |-> New]

Goes(a, pc) == ask' = [ask EXCEPT ![a].pc = pc]

\* Whatever has been read is dropped unless the question is answered.
Ends(a, outcome) ==
    ask' = [ask EXCEPT ![a].pc = "done", ![a].outcome = outcome,
                       ![a].facts = IF outcome = "answered" THEN @ ELSE 0]

-----------------------------------------------------------------------------
Logout(a) ==
    /\ session[a]
    /\ session' = [session EXCEPT ![a] = FALSE]
    /\ UNCHANGED ask

\* mutant: the slots are not looked at.
FullNever == FALSE

\* Semaphore.locked(): nothing is awaited between the look and the acquisition.
Full == Cardinality({a \in Askers : ask[a].pc \in Running}) >= MaxConcurrent

\* The request is authenticated, then refused or given a slot.
Ask(a) ==
    /\ ask[a].pc = "new"
    /\ \/ ~session[a] /\ Ends(a, "unauthorized")
       \/ session[a] /\ Full /\ Ends(a, "busy")
       \/ /\ session[a] /\ ~Full
          /\ \E q \in Questions :
               ask' = [ask EXCEPT ![a].pc = "routing", ![a].question = q]
    /\ UNCHANGED session

-----------------------------------------------------------------------------
(* Routing.                                                                *)

\* mutant: the model is asked about every question the patterns do not place.
AsksModelAlways(q) == q.tool = "unsupported"

\* Not about one whose period is not supported.
AsksModel(q) == q.tool = "unsupported" /\ ~q.period

NeedsInput(q, tool) ==
    (tool = "relationship" /\ ~q.person) \/ (tool = "transaction" /\ ~q.transaction)

\* The tool is known: an outcome at once, or the first authorization.
With(a, tool) ==
    IF tool = "unsupported" THEN Ends(a, "unsupported")
    ELSE IF NeedsInput(ask[a].question, tool) THEN Ends(a, "needs_input")
    ELSE ask' = [ask EXCEPT ![a].pc = "authorizing", ![a].tool = tool]

Route(a) ==
    LET q == ask[a].question IN
    /\ ask[a].pc = "routing"
    /\ \/ q.blocked /\ Ends(a, "unsupported")
       \/ ~q.blocked /\ AsksModel(q) /\ Goes(a, "choosing")
       \/ ~q.blocked /\ ~AsksModel(q) /\ With(a, q.tool)
    /\ UNCHANGED session

\* The model names any tool, or fails, or is too late or too long: unsupported.
Choose(a) ==
    /\ ask[a].pc = "choosing"
    /\ \E tool \in Tools : With(a, tool)
    /\ UNCHANGED session

-----------------------------------------------------------------------------
(* Reading.                                                                *)

\* mutant: only the first read is authorized.
AuthorizedOnce(a) == session[a] \/ ask[a].facts > 0

Authorized(a) == session[a]

Authorize(a) ==
    /\ ask[a].pc = "authorizing"
    /\ IF Authorized(a) THEN Goes(a, "reading") ELSE Ends(a, "unauthorized")
    /\ UNCHANGED session

\* mutant: the last read is left out.
CompleteEarly(a) == ask[a].facts + 2 >= Reads[ask[a].tool]

Complete(a) == ask[a].facts + 1 = Reads[ask[a].tool]

\* A read succeeds, finds nothing, or brings more than the limits allow. The
\* history "late" counts reads of a session that has ended.
Read(a) ==
    LET late == IF session[a] THEN 0 ELSE 1 IN
    /\ ask[a].pc = "reading"
    /\ \/ Ends(a, "not_found")
       \/ Ends(a, "resource_limit")
       \/ /\ Complete(a)
          /\ ask' = [ask EXCEPT ![a].pc = "done", ![a].outcome = "answered",
                                ![a].facts = @ + 1, ![a].late = @ + late]
       \/ /\ ~Complete(a)
          /\ ask' = [ask EXCEPT ![a].pc = "authorizing", ![a].facts = @ + 1,
                                ![a].late = @ + late]
    /\ UNCHANGED session

\* mutant: a read is not interrupted.
InterruptibleUnread == {"routing", "choosing", "authorizing"}

Interruptible == Running

\* asyncio.timeout around the whole run.
Timeout(a) ==
    /\ ask[a].pc \in Interruptible
    /\ Ends(a, "resource_limit")
    /\ UNCHANGED session

Serve(a) == Ask(a) \/ Route(a) \/ Choose(a) \/ Authorize(a) \/ Read(a)

Next == \E a \in Askers : Logout(a) \/ Serve(a) \/ Timeout(a)

\* Any provider or database call may hang; only the timeout is sure to come.
Fairness == \A a \in Askers : WF_vars(Timeout(a))

Spec == Init /\ [][Next]_vars

FairSpec == Spec /\ Fairness

-----------------------------------------------------------------------------
(* Properties.                                                             *)

\* After a session has ended, a question in flight finishes at most the one read
\* it had been authorized for.
LogoutStopsReads == \A a \in Askers : ask[a].late <= 1

\* An answer rests on all the reads of its tool: a question that is interrupted
\* between its two reads shows neither.
NoPartialAnswer ==
    \A a \in Askers :
        /\ ask[a].outcome = "answered" => ask[a].facts = Reads[ask[a].tool]
        /\ ask[a].outcome \notin {"none", "answered"} => ask[a].facts = 0

\* A denied question, or one about a period the tools do not serve, reads
\* nothing, whatever tool the model would name.
RefusedReadNothing ==
    \A a \in Askers :
        ask[a].question # None /\ (ask[a].question.blocked \/ ask[a].question.period) =>
            ask[a].pc \notin {"authorizing", "reading"} /\ ask[a].outcome # "answered"

\* No more questions run than there are slots, and none waits for one: a
\* question is in a slot or has its outcome.
SlotsSuffice == Cardinality({a \in Askers : ask[a].pc \in Running}) <= MaxConcurrent

\* Every question gets an outcome, even if a provider or the database hangs.
EveryQuestionEnds == \A a \in Askers : ask[a].pc \in Running ~> ask[a].pc = "done"

=============================================================================

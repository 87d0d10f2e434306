-------------------------- MODULE IncidentRegister --------------------------
(***************************************************************************)
(* What the agent server promises: every request takes effect on its       *)
(* incident's file in one indivisible step between its call and its        *)
(* return, or has no effect; requests of one incident see each other's     *)
(* effects in that order.  A crash loses answers, never effects.  Once an  *)
(* incident has ended, its end is all a write is sure to leave alone.      *)
(***************************************************************************)
EXTENDS IncidentFile

CONSTANT Ops        \* the tools in use

VARIABLES
    file,       \* the incidents on disk
    status,     \* how far each request is
    call,       \* what each request asks
    seen        \* the file a facts_list or a rendered probe answers from

vars == <<file, status, call, seen>>

Tools    == {"start", "end", "fact_add", "facts_list", "render", "probe"}
NoCall   == [op |-> None, on |-> None]
Statuses == {"new", "pending", "applied", "done", "failed", "lost"}

Init ==
    /\ file \in [Incidents -> {NoFile, NewFile}]
    /\ status = [r \in Requests |-> "new"]
    /\ call = [r \in Requests |-> NoCall]
    /\ seen = [r \in Requests |-> NoFile]

Become(r, from, to) == status[r] = from /\ status' = [status EXCEPT ![r] = to]

Call(r) ==
    /\ Become(r, "new", "pending")
    /\ \E o \in Ops, i \in Incidents : call' = [call EXCEPT ![r] = [op |-> o, on |-> i]]
    /\ UNCHANGED <<file, seen>>

\* The effect of request r on the file of its incident, and the contents a
\* request that only reads answers from.
Write(r, f) == file' = [file EXCEPT ![call[r].on] = f] /\ UNCHANGED seen

Apply(r) ==
    /\ Become(r, "pending", "applied")
    /\ LET f == file[call[r].on] IN
       \/ call[r].op = "start" /\ ~f.started /\ Write(r, NewFile)
       \/ /\ f.started
          /\ \/ call[r].op = "fact_add"
                /\ \E k \in Keys : Write(r, WithFact(f, k, "agent", r))
             \/ call[r].op = "probe" /\ ~BudgetSpent(f)
                /\ \E k \in Wanted(f) \ Held : Write(r, WithFact(f, k, "probe", r))
             \/ call[r].op = "end"
                /\ \E v \in {r, f.verdict} : Write(r, Closed(f, r, v))
             \/ call[r].op \in {"facts_list", "render"}
                /\ seen' = [seen EXCEPT ![r] = f] /\ UNCHANGED file
    /\ UNCHANGED call

\* After the end, a write may undo others: of the file only the end is sure.
ApplyAfterEnd(r) ==
    /\ Become(r, "pending", "applied")
    /\ LET i == call[r].on IN
       /\ file[i].ended # None
       /\ file' = [file EXCEPT ![i] = file'[i]]
       /\ file'[i].ended = file[i].ended
    /\ UNCHANGED <<call, seen>>

\* An error, or a probe that is not run, leaves the file alone.
Decline(r) == Become(r, "pending", "failed") /\ UNCHANGED <<file, call, seen>>

Return(r) == Become(r, "applied", "done") /\ UNCHANGED <<file, call, seen>>

Crash ==
    /\ LET inFlight == {r \in Requests : status[r] \in {"pending", "applied"}} IN
       /\ status' = [r \in Requests |-> IF r \in inFlight THEN "lost" ELSE status[r]]
       /\ seen'   = [r \in Requests |-> IF r \in inFlight THEN NoFile ELSE seen[r]]
    /\ UNCHANGED <<file, call>>

Next == Crash \/ \E r \in Requests : Call(r) \/ Apply(r) \/ ApplyAfterEnd(r) \/ Decline(r) \/ Return(r)

Spec == Init /\ [][Next]_vars

=============================================================================

-------------------------- MODULE IncidentCommands --------------------------
(***************************************************************************)
(* The command line's side of incidents (internal/incident, mgtt incident  *)
(* start and end, mgtt fact add, and the commands that read the facts of   *)
(* the current incident): every command is a process of its own that finds *)
(* the incident through the file .mgtt-current, takes no lock, and may be  *)
(* killed between any two file operations.                                 *)
(*                                                                         *)
(* A state file is reduced to whether it exists, carries an end marker,    *)
(* and which commands' facts it holds.  The temporary file has no reader   *)
(* and is written in one step; .mgtt-current is read by everybody and      *)
(* written in place, so os.WriteFile is its two steps, emptying the file   *)
(* and filling it.                                                         *)
(***************************************************************************)
EXTENDS FiniteSets

CONSTANTS
    Incidents,      \* incident ids
    Commands,       \* the command lines of a behaviour
    None,           \* no incident: the file .mgtt-current is missing
    Empty,          \* .mgtt-current is there and empty
    Parallel,       \* commands that write may overlap
    WritesMayFail,  \* a file operation may fail
    MayBeKilled     \* a process may be killed

VARIABLES
    pointer,    \* .mgtt-current
    file,       \* the state file of each incident
    tmp,        \* its temporary file
    call,       \* what each command does, and the id a start asks for
    pc,         \* how far it is
    at,         \* what it read in .mgtt-current
    copy,       \* the store it works on
    before      \* history: the commands that had succeeded when it was called

vars == <<pointer, file, tmp, call, pc, at, copy, before>>

State   == [started : BOOLEAN, ended : BOOLEAN, facts : SUBSET Commands]
NoFile  == [started |-> FALSE, ended |-> FALSE, facts |-> {}]
NewFile == [started |-> TRUE, ended |-> FALSE, facts |-> {}]

Writing == {"start", "end", "fact add"}
Ops     == Writing \cup {"status"}
NoCall  == [op |-> None, id |-> None]
Running == {"called", "pointed", "current", "writing", "renaming", "saved", "emptied"}
Over    == {"done", "failed", "killed"}

ASSUME IncidentCommandsAssumption ==
    /\ None \notin Incidents \cup Ops
    /\ Empty \notin Incidents \cup {None}

Is(c, o) == call[c].op = o

\* The incident a command is about.
On(c) == IF Is(c, "start") THEN call[c].id ELSE at[c]

TypeOK ==
    /\ pointer \in Incidents \cup {None, Empty}
    /\ file \in [Incidents -> State] /\ tmp \in [Incidents -> State]
    /\ call \in [Commands -> [op : Ops, id : Incidents \cup {None}] \cup {NoCall}]
    /\ pc \in [Commands -> {"new"} \cup Running \cup Over]
    /\ at \in [Commands -> Incidents \cup {None, Empty}]
    /\ copy \in [Commands -> State] /\ before \in [Commands -> SUBSET Commands]
    /\ \A c \in Commands : pc[c] \in Running \ {"called", "pointed"} => On(c) \in Incidents

Init ==
    /\ pointer = None
    /\ file = [i \in Incidents |-> NoFile] /\ tmp = [i \in Incidents |-> NoFile]
    /\ call = [c \in Commands |-> NoCall] /\ pc = [c \in Commands |-> "new"]
    /\ at = [c \in Commands |-> None] /\ copy = [c \in Commands |-> NoFile]
    /\ before = [c \in Commands |-> {}]

Writes(c) == call[c].op \in Writing /\ pc[c] \in Running

Go(c, from, to) == pc[c] = from /\ pc' = [pc EXCEPT ![c] = to]

Told == {c \in Commands : pc[c] = "done"}

-----------------------------------------------------------------------------
(* Finding the current incident.                                           *)

\* Ids are generated, or chosen by the operator and not used before.
Unused(i) == ~file[i].started /\ \A d \in Commands : call[d].id # i

\* Unless Parallel, the operator waits for one command that writes before the next.
Call(c) ==
    /\ Go(c, "new", "called")
    /\ \E o \in Ops :
          /\ o \in Writing /\ ~Parallel => \A d \in Commands : ~Writes(d)
          /\ \E i \in (IF o = "start" THEN {j \in Incidents : Unused(j)} ELSE {None}) :
                call' = [call EXCEPT ![c] = [op |-> o, id |-> i]]
    /\ before' = [before EXCEPT ![c] = Told]
    /\ UNCHANGED <<pointer, file, tmp, at, copy>>

\* Current: os.ReadFile(currentFile)
ReadPointer(c) ==
    /\ Go(c, "called", "pointed")
    /\ at' = [at EXCEPT ![c] = pointer]
    /\ UNCHANGED <<pointer, file, tmp, call, copy, before>>

\* Current: facts.Load.  An empty pointer names no file.
Loads(c) == at[c] \in Incidents /\ file[at[c]].started

Proceed(c, from, to, store) ==
    /\ Go(c, from, to)
    /\ copy' = [copy EXCEPT ![c] = store]
    /\ UNCHANGED <<pointer, file, tmp, call, at, before>>

\* Mutant: an incident starts whatever is current.
StartRegardless(c) == Is(c, "start") /\ Proceed(c, "pointed", "writing", NewFile)

\* Start refuses while there is a current incident.
Start(c) ==
    /\ Is(c, "start")
    /\ \/ Loads(c) /\ Proceed(c, "pointed", "failed", NoFile)
       \/ ~Loads(c) /\ Proceed(c, "pointed", "writing", NewFile)

\* End, up to EndByID, which loads the incident again.
End(c) ==
    /\ Is(c, "end")
    /\ \/ ~Loads(c) /\ Proceed(c, "pointed", "failed", NoFile)
       \/ Loads(c) /\ Proceed(c, "pointed", "current", NoFile)

\* Mutant: the end is written over an empty store.
EndByIDFresh(c) ==
    Is(c, "end") /\ Proceed(c, "current", "writing", [NewFile EXCEPT !.ended = TRUE])

\* EndByID, up to Save.
EndByID(c) ==
    Is(c, "end") /\ Proceed(c, "current", "writing", [file[at[c]] EXCEPT !.ended = TRUE])

\* mgtt fact add, up to Save.
FactAdd(c) ==
    /\ Is(c, "fact add")
    /\ \/ ~Loads(c) /\ Proceed(c, "pointed", "failed", NoFile)
       \/ Loads(c) /\ Proceed(c, "pointed", "writing", [file[at[c]] EXCEPT !.facts = @ \cup {c}])

\* CurrentStoreOrMemory: without a current incident, silently an empty store.
Status(c) ==
    /\ Is(c, "status")
    /\ \/ Loads(c) /\ Proceed(c, "pointed", "done", file[at[c]])
       \/ ~Loads(c) /\ Proceed(c, "pointed", "done", NoFile)

-----------------------------------------------------------------------------
(* Writing.                                                                *)

Fails(c, from) ==
    WritesMayFail /\ Go(c, from, "failed") /\ UNCHANGED <<pointer, file, tmp, call, at, copy, before>>

\* Mutant: Save writes the state file in place.
WriteInPlace(c) ==
    /\ Go(c, "writing", "renaming")
    /\ tmp' = [tmp EXCEPT ![On(c)] = copy[c]] /\ file' = [file EXCEPT ![On(c)] = NewFile]
    /\ UNCHANGED <<pointer, call, at, copy, before>>

\* Save
WriteTmp(c) ==
    \/ /\ Go(c, "writing", "renaming")
       /\ tmp' = [tmp EXCEPT ![On(c)] = copy[c]]
       /\ UNCHANGED <<pointer, file, call, at, copy, before>>
    \/ Fails(c, "writing")

\* Save.  Fails, too, when another command's save took the temporary file away.
Rename(c) ==
    LET i == On(c) IN
    \/ /\ Go(c, "renaming", IF Is(c, "fact add") THEN "done" ELSE "saved")
       /\ tmp[i].started
       /\ file' = [file EXCEPT ![i] = tmp[i]] /\ tmp' = [tmp EXCEPT ![i] = NoFile]
       /\ UNCHANGED <<pointer, call, at, copy, before>>
    \/ /\ Go(c, "renaming", "failed") /\ (WritesMayFail \/ ~tmp[i].started)
       /\ UNCHANGED <<pointer, file, tmp, call, at, copy, before>>

SetPointer(c, from, to, p) ==
    \/ /\ Go(c, from, to) /\ pointer' = p
       /\ UNCHANGED <<file, tmp, call, at, copy, before>>
    \/ Fails(c, from)

\* Start: os.WriteFile(currentFile)
EmptyPointer(c) == Is(c, "start") /\ SetPointer(c, "saved", "emptied", Empty)
FillPointer(c)  == Is(c, "start") /\ SetPointer(c, "emptied", "done", call[c].id)

\* Mutant: End forgets the pointer.
KeepPointer(c) == Is(c, "end") /\ SetPointer(c, "saved", "done", pointer)

\* End: os.Remove(currentFile), whatever it names by now.
RemovePointer(c) == Is(c, "end") /\ SetPointer(c, "saved", "done", None)

Kill(c) ==
    /\ MayBeKilled /\ pc[c] \in Running
    /\ pc' = [pc EXCEPT ![c] = "killed"]
    /\ UNCHANGED <<pointer, file, tmp, call, at, copy, before>>

Step(c) ==
    \/ ReadPointer(c) \/ Start(c) \/ End(c) \/ EndByID(c) \/ FactAdd(c) \/ Status(c)
    \/ WriteTmp(c) \/ Rename(c) \/ EmptyPointer(c) \/ FillPointer(c) \/ RemovePointer(c)

Next == \E c \in Commands : Call(c) \/ Step(c) \/ Kill(c)

Spec == Init /\ [][Next]_vars

-----------------------------------------------------------------------------
(* Properties, for an operator who runs one writing command at a time.     *)

\* A command about incident i that was called and never reported success: it
\* is running, failed or was killed.
Unfinished(o, i) == \E c \in Commands : Is(c, o) /\ On(c) = i /\ pc[c] # "done"

\* The state files and .mgtt-current agree about which incident is open: only
\* an unfinished start leaves an open incident that is not the current one,
\* and only an unfinished end leaves an ended incident current.
PointerNamesTheOpenOne ==
    \A i \in Incidents :
        /\ file[i].started /\ ~file[i].ended /\ ~Unfinished("start", i) => pointer = i
        /\ pointer = i => file[i].started /\ (file[i].ended => Unfinished("end", i))

\* A command that reads never misses what was reported before it was called:
\* it works on the incident that is open, not silently on an empty store, and
\* finds in it every fact that was added.
ReadersMissNothing ==
    \A c \in Told : Is(c, "status") => \A d \in before[c] :
        /\ Is(d, "start") /\ ~file[On(d)].ended => at[c] = On(d)
        /\ Is(d, "fact add") /\ On(d) = at[c] => d \in copy[c].facts

\* No step takes back an incident, its end or one of its facts: neither does
\* a kill between two file operations, nor a save that fails.
NothingIsTakenBack ==
    [][\A i \in Incidents :
          /\ file[i].started => file'[i].started
          /\ file[i].ended => file'[i].ended
          /\ file[i].facts \subseteq file'[i].facts]_vars

\* incident.go, the single-active invariant of Start: of the incidents whose
\* start succeeded, at most one has not ended.  (Not so with Parallel: two
\* starts that overlap may both succeed.)
SingleActive ==
    \A c, d \in Told :
        /\ Is(c, "start") /\ ~file[On(c)].ended
        /\ Is(d, "start") /\ ~file[On(d)].ended
        => c = d

=============================================================================

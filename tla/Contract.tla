------------------------------ MODULE Contract ------------------------------
(***************************************************************************)
(* agentmachi-join/scripts/integrate_project.py: the installer that puts a *)
(* marked block into the AGENTS.md and the CLAUDE.md of somebody else's    *)
(* repository, replaces it in place, or removes it.                        *)
(*                                                                         *)
(* A run reads and judges both files, then writes what it planned, one     *)
(* file after the other.  Several runs, the owner's own edits, and a run   *)
(* that dies or cannot write may come between any two of these steps.  A   *)
(* run without --apply is a run that stops before its first write.         *)
(*                                                                         *)
(* A text is a sequence of tokens: the two markers, the contract of this   *)
(* version or of an older one, the import of AGENTS.md, newlines, and      *)
(* words of the owner.  File modes, the temporary file of a write and what *)
(* is printed are left out.                                                *)
(***************************************************************************)
EXTENDS Naturals, Sequences, FiniteSets, SequencesExt

CONSTANTS
    Runs,        \* processes that run the installer
    OwnerWords,  \* what the owner writes; no two edits write the same word
    Found,       \* the pairs of files a project may start with
    MaxStarts,   \* bound: runs of the installer
    MaxEdits,    \* bound: edits of the owner
    MaxFaults    \* bound: runs that die, or cannot read or write

Names == {"AGENTS", "CLAUDE"}  \* PLIKI, in this order
Tokens == {"start", "end", "contract", "older", "import", "nl"} \cup OwnerWords

\* A "link" is a CLAUDE.md that points at AGENTS.md, an "alien" any other link;
\* what is not a regular file has no text of its own.
Files == [kind : {"regular"}, text : Seq(Tokens)]
         \cup [kind : {"absent", "link", "alien"}, text : {<<>>}]

ASSUME ContractAssumption ==
    /\ OwnerWords \cap {"start", "end", "contract", "older", "import", "nl"} = {}
    /\ \A pair \in Found : pair \in [Names -> Files]
    /\ MaxStarts \in Nat /\ MaxEdits \in Nat /\ MaxFaults \in Nat

VARIABLES
    file,    \* the two files
    run,     \* each run of the installer
    starts, edits, faults,
    origin,  \* history: the files as they were found
    owned,   \* history: the words of the owner outside the block, and not taken out
    raced    \* history: words written while a run held an older text of the file

vars == <<file, run, starts, edits, faults, origin, owned, raced>>

NotRunning == [pc |-> "idle",      \* then "reading", "writing", and
                                   \* "refused", "failed" or "done"
               remove |-> FALSE,   \* --remove
               read |-> {},        \* the files read so far
               plan |-> <<>>,      \* what is still to be written
               alone |-> TRUE]     \* history: nobody else wrote since the start

-----------------------------------------------------------------------------
(* The texts. *)

Block(f) == IF f = "AGENTS" THEN <<"start", "nl", "contract", "end", "nl">>
            ELSE <<"start", "nl", "import", "nl", "end", "nl">>

Count(x, t) == Cardinality({k \in DOMAIN t : t[k] = x})
HasBlock(t) == Contains(t, "start") /\ Contains(t, "end")
At(x, t) == SelectInSeq(t, LAMBDA y : y = x)
Before(t) == SubSeq(t, 1, At("start", t) - 1)
After(t) == SubSeq(t, At("end", t) + 1, Len(t))

NotNewline(x) == x # "nl"
StripLeft(t) == LET k == SelectInSeq(t, NotNewline) IN IF k = 0 THEN <<>> ELSE SubSeq(t, k, Len(t))
StripRight(t) == SubSeq(t, 1, SelectLastInSeq(t, NotNewline))

\* _sprawdz_markery
Sound(t) ==
    \/ Count("start", t) = 0 /\ Count("end", t) = 0
    \/ /\ Count("start", t) = 1 /\ Count("end", t) = 1
       /\ At("start", t) < At("end", t)

\* zastosuj: the block in its place, or at the end behind a blank line.
ZastosujKeepingBlanks(f, t) ==
    IF HasBlock(t)
    THEN Before(t) \o Block(f) \o (IF After(t) = <<>> THEN <<>> ELSE <<"nl">> \o After(t))
    ELSE LET tail == IF t = <<>> \/ Last(t) = "nl" THEN t ELSE Append(t, "nl")
         IN  (IF tail = <<>> THEN <<>> ELSE Append(tail, "nl")) \o Block(f)
Zastosuj(f, t) ==
    IF HasBlock(t)
    THEN LET rest == StripLeft(After(t))
         IN  Before(t) \o Block(f) \o (IF rest = <<>> THEN <<>> ELSE <<"nl">> \o rest)
    ELSE LET tail == IF t = <<>> \/ Last(t) = "nl" THEN t ELSE Append(t, "nl")
         IN  (IF tail = <<>> THEN <<>> ELSE Append(tail, "nl")) \o Block(f)

\* usun
UsunToTheEnd(t) ==
    IF ~HasBlock(t) THEN t
    ELSE IF StripRight(Before(t)) = <<>> THEN <<>> ELSE Append(StripRight(Before(t)), "nl")
Usun(t) ==
    LET head == StripRight(Before(t))
        rest == StripLeft(After(t))
    IN  IF ~HasBlock(t) THEN t
        ELSE IF head = <<>> THEN rest
        ELSE Append(head, "nl") \o (IF rest = <<>> THEN <<>> ELSE <<"nl">> \o rest)

\* IMPORT_RE: an import that stands on its own.
Imports(t) ==
    \E k \in DOMAIN t : /\ t[k] = "import"
                        /\ k > 1 => t[k - 1] = "nl"
                        /\ k < Len(t) => t[k + 1] = "nl"

\* The text that a run wants file f to have.
Wanted(f, remove, t) ==
    IF remove \/ (f = "CLAUDE" /\ Imports(Usun(t))) THEN Usun(t) ELSE Zastosuj(f, t)

\* kasujemy
OnlyOurs(remove, t) == remove /\ StripLeft(t) = <<>>

-----------------------------------------------------------------------------
Words(t) == {t[k] : k \in DOMAIN t} \cap OwnerWords
Outside(t) == IF HasBlock(t) /\ Sound(t) THEN Words(Before(t)) \cup Words(After(t)) ELSE Words(t)

Init ==
    /\ file \in Found
    /\ run = [i \in Runs |-> NotRunning]
    /\ starts = 0 /\ edits = 0 /\ faults = 0
    /\ origin = file
    /\ owned = [f \in Names |-> Outside(file[f].text)]
    /\ raced = {}

\* Everybody but i sees that a file was written.
NotAlone(i) == [j \in Runs |-> IF j = i THEN run[j] ELSE [run[j] EXCEPT !.alone = FALSE]]

Ended(i) == run[i].pc \in {"idle", "refused", "failed", "done"}

Start(i, remove) ==
    /\ Ended(i) /\ starts < MaxStarts
    /\ starts' = starts + 1
    /\ run' = [run EXCEPT ![i] = [NotRunning EXCEPT !.pc = "reading", !.remove = remove]]
    /\ UNCHANGED <<file, edits, faults, origin, owned, raced>>

Reads(i, f) ==
    /\ run[i].pc = "reading"
    /\ f \notin run[i].read
    /\ f = "CLAUDE" => "AGENTS" \in run[i].read

\* _sprawdz_cel and _sprawdz_markery; a CLAUDE.md that links to AGENTS.md is
\* skipped before either.
RefusedForLinks(f) ==
    \/ file[f].kind = "alien"
    \/ file[f].kind = "link" /\ f = "AGENTS"
Refused(f) ==
    \/ file[f].kind = "alien"
    \/ file[f].kind = "link" /\ f = "AGENTS"
    \/ file[f].kind = "regular" /\ ~Sound(file[f].text)

Refuse(i, f) ==
    /\ Reads(i, f)
    /\ Refused(f)
    /\ run' = [run EXCEPT ![i].pc = "refused"]
    /\ UNCHANGED <<file, starts, edits, faults, origin, owned, raced>>

\* The first phase reads a file and plans its new text; after the second file
\* the plan is complete.
PlanFor(i, f) ==
    LET old == IF file[f].kind = "regular" THEN file[f].text ELSE <<>>
        new == Wanted(f, run[i].remove, old)
        skipped == file[f].kind = "link" \/ (run[i].remove /\ file[f].kind = "absent")
    IN  IF skipped \/ new = old THEN <<>> ELSE <<[name |-> f, text |-> new]>>

Read(i, f) ==
    /\ Reads(i, f)
    /\ ~Refused(f)
    /\ run' = [run EXCEPT ![i].read = @ \cup {f},
                          ![i].plan = @ \o PlanFor(i, f),
                          ![i].pc = IF f = "CLAUDE" THEN "writing" ELSE "reading"]
    /\ UNCHANGED <<file, starts, edits, faults, origin, owned, raced>>

\* The second phase: a file is replaced or, when nothing but the block was in
\* it, removed.  Whatever is there by now is not looked at again.
WriteEmpty(i) ==
    LET next == Head(run[i].plan) IN
    /\ run[i].pc = "writing" /\ run[i].plan # <<>>
    /\ file' = [file EXCEPT ![next.name] = [kind |-> "regular", text |-> next.text]]
    /\ run' = [NotAlone(i) EXCEPT ![i].plan = Tail(@)]
    /\ UNCHANGED <<starts, edits, faults, origin, owned, raced>>
Write(i) ==
    LET next == Head(run[i].plan)
        unlink == OnlyOurs(run[i].remove, next.text)
    IN
    /\ run[i].pc = "writing" /\ run[i].plan # <<>>
    /\ unlink => file[next.name].kind # "absent"
    /\ file' = [file EXCEPT ![next.name] =
                   IF unlink THEN [kind |-> "absent", text |-> <<>>]
                   ELSE [kind |-> "regular", text |-> next.text]]
    /\ run' = [NotAlone(i) EXCEPT ![i].plan = Tail(@)]
    /\ UNCHANGED <<starts, edits, faults, origin, owned, raced>>

\* The file to remove has gone meanwhile: unlink raises, and the run ends there.
NothingToUnlink(i) ==
    /\ run[i].pc = "writing" /\ run[i].plan # <<>>
    /\ OnlyOurs(run[i].remove, Head(run[i].plan).text)
    /\ file[Head(run[i].plan).name].kind = "absent"
    /\ run' = [run EXCEPT ![i].pc = "failed"]
    /\ UNCHANGED <<file, starts, edits, faults, origin, owned, raced>>

Finish(i) ==
    /\ run[i].pc = "writing" /\ run[i].plan = <<>>
    /\ run' = [run EXCEPT ![i].pc = "done"]
    /\ UNCHANGED <<file, starts, edits, faults, origin, owned, raced>>

\* The run is killed, or a read or a write raises; a file that was being written
\* is still the old one.
Fault(i) ==
    /\ run[i].pc \in {"reading", "writing"} /\ faults < MaxFaults
    /\ faults' = faults + 1
    /\ run' = [run EXCEPT ![i].pc = IF @ = "reading" THEN "refused" ELSE "failed"]
    /\ UNCHANGED <<file, starts, edits, origin, owned, raced>>

-----------------------------------------------------------------------------
(* The owner of the repository. *)

Edits(f, new) ==
    /\ edits < MaxEdits
    /\ file[f].kind \in {"absent", "regular"}
    /\ edits' = edits + 1
    /\ file' = [file EXCEPT ![f] = new]
    /\ run' = [i \in Runs |-> [run[i] EXCEPT !.alone = FALSE]]
    /\ UNCHANGED <<starts, faults, origin>>

\* Somebody is between reading f and writing it.
Held(f) == \E i \in Runs : ~Ended(i) /\ f \in run[i].read

\* A line at the beginning or at the end; the file may be new.
AddWord(f, w) ==
    /\ w \notin owned["AGENTS"] \cup owned["CLAUDE"] \cup raced
    /\ \A g \in Names : w \notin Words(origin[g].text)
    /\ \E text \in {<<w, "nl">> \o file[f].text, Append(file[f].text, w)} :
          Edits(f, [kind |-> "regular", text |-> text])
    /\ owned' = [owned EXCEPT ![f] = @ \cup {w}]
    /\ raced' = IF Held(f) THEN raced \cup {w} ELSE raced

\* One marker is deleted; of more than two, so that a word may be in the block now.
BreakBlock(f) ==
    /\ \E k \in DOMAIN file[f].text :
          LET new == RemoveAt(file[f].text, k) IN
          /\ file[f].text[k] \in {"start", "end"}
          /\ Edits(f, [file[f] EXCEPT !.text = new])
          /\ owned' = [owned EXCEPT ![f] = @ \cap Outside(new)]
    /\ UNCHANGED raced

DeleteFile(f) ==
    /\ file[f].kind = "regular"
    /\ Edits(f, [kind |-> "absent", text |-> <<>>])
    /\ owned' = [owned EXCEPT ![f] = {}]
    /\ UNCHANGED raced

Next ==
    \/ \E i \in Runs, remove \in BOOLEAN : Start(i, remove)
    \/ \E i \in Runs, f \in Names : Refuse(i, f) \/ Read(i, f)
    \/ \E i \in Runs : Write(i) \/ NothingToUnlink(i) \/ Finish(i) \/ Fault(i)
    \/ \E f \in Names, w \in OwnerWords : AddWord(f, w)
    \/ \E f \in Names : BreakBlock(f) \/ DeleteFile(f)

Spec == Init /\ [][Next]_vars

-----------------------------------------------------------------------------
(* Properties. *)

\* "It never overwrites existing content": what the owner wrote outside the
\* block is still there after any number of runs, whole or interrupted, except
\* what was written between a run's read of the file and its write.
OwnerKept == \A f \in Names : owned[f] \subseteq Words(file[f].text) \cup raced

\* A run writes only when it has judged both files, so that one that refuses has
\* written nothing (phase 1 of main), and the markers of what it writes are none
\* or one pair in order, whatever the file became meanwhile (_sprawdz_markery).
WritesAreSound ==
    [][\A f \in Names : file'[f] # file[f] /\ edits' = edits =>
          /\ Sound(file'[f].text)
          /\ \E i \in Runs : run[i].read = Names /\ run'[i].plan # run[i].plan]_vars

\* A run that ends well, and was alone, leaves nothing to do for the next one,
\* whatever earlier runs left half done; and both harnesses read the contract.
Installed ==
    /\ Contains(file["AGENTS"].text, "contract")
    /\ file["CLAUDE"].kind = "link" \/ Imports(file["CLAUDE"].text)
Converges ==
    \A i \in Runs :
        run[i].pc = "done" /\ run[i].alone =>
            /\ \A f \in Names : PlanFor(i, f) = <<>>
            /\ ~run[i].remove => Installed

\* Removal is the way back: without edits of the owner, a whole --remove leaves
\* the files as they were found, without a block, up to newlines at the end and
\* a file of nothing but newlines; a file that was not there is not there again.
Reversible ==
    \A i \in Runs :
        run[i].pc = "done" /\ run[i].alone /\ run[i].remove /\ edits = 0 =>
            \A f \in Names :
                /\ StripRight(file[f].text) = StripRight(Usun(origin[f].text))
                /\ origin[f].kind = "absent" => file[f].kind = "absent"
=============================================================================

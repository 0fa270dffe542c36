---------------------------- MODULE InPlaceFile -----------------------------
(***************************************************************************)
(* A file that processes rewrite in place, without a lock, as              *)
(* crypto.py: encrypt_keypair writes the keystore and core/config.py the   *)
(* configuration: something is looked at and a new text prepared; open     *)
(* truncates the file; the text reaches it when it is closed.              *)
(*                                                                         *)
(* Two writers that have both truncated write over each other from the     *)
(* start: the result is the later text, or, if that is the shorter one,    *)
(* its text with the end of the other's behind it, which may not parse, or *)
(* parse as a mixture of the two.                                          *)
(***************************************************************************)
CONSTANTS
  Procs,                \* the processes
  Texts,                \* what can be written
  Absent, Empty, Garbled   \* no file; a truncated one; one that cannot be parsed

VARIABLES
  file,                 \* what the file holds
  work,                 \* work[p]: how far p's rewrite is, and what it writes
  torn                  \* has a rewrite been abandoned with the file open (history)

fileVars == <<file, work, torn>>

(* met: another process was rewriting the file meanwhile (history).        *)
Work == [at : {"away", "preparing", "open"}, text : Texts \cup {Empty}, met : BOOLEAN]

FileTypeOK ==
  /\ file \in Texts \cup {Absent, Empty, Garbled}
  /\ work \in [Procs -> Work]
  /\ torn \in BOOLEAN

FileInit ==
  /\ file = Absent
  /\ work = [p \in Procs |-> [at |-> "away", text |-> Empty, met |-> FALSE]]
  /\ torn = FALSE

Busy == {p \in Procs : work[p].at # "away"}
Unreadable == {Empty, Garbled}

(* p has looked at the file, and sets out to write this text.              *)
Prepare(p, text) ==
  /\ work[p].at = "away"
  /\ work' = [q \in Procs |->
       IF q = p THEN [at |-> "preparing", text |-> text, met |-> work[p].met \/ Busy # {}]
       ELSE IF q \in Busy THEN [work[q] EXCEPT !.met = TRUE] ELSE work[q]]
  /\ UNCHANGED <<file, torn>>

Truncate(p) ==
  /\ work[p].at = "preparing"
  /\ work' = [work EXCEPT ![p].at = "open"]
  /\ file' = Empty
  /\ UNCHANGED torn

WriteAndClose(p, mixtures) ==
  /\ work[p].at = "open"
  /\ work' = [work EXCEPT ![p].at = "away"]
  /\ file' \in {work[p].text} \cup IF file = Empty THEN {} ELSE mixtures \cup {Garbled}
  /\ UNCHANGED torn

(* Interrupted: leaving the with block flushes what was written so far,    *)
(* nothing, a part or all of it (parts: what a part reads as).             *)
Abandon(p, parts) ==
  /\ p \in Busy
  /\ work' = [work EXCEPT ![p].at = "away"]
  /\ IF work[p].at = "open"
       THEN /\ torn' = TRUE
            /\ \/ UNCHANGED file
               \/ file' \in {work[p].text} \cup IF file = Empty THEN parts ELSE {Garbled}
       ELSE UNCHANGED <<file, torn>>
=============================================================================

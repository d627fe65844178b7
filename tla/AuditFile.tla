------------------------------- MODULE AuditFile -------------------------------
(***************************************************************************)
(* The audit log as a file (security/audit.py) and what a restart reads     *)
(* back from it (security/limits.py).  A line holds a record or, when a     *)
(* write was cut short, text that does not parse (Damaged); only the last   *)
(* line can lack its newline, and what is appended next is then glued to    *)
(* it.  A record is reduced to the fields that the chain and the replay      *)
(* look at; the hash of a record is the record without its link, which no   *)
(* two records share.                                                       *)
(***************************************************************************)
EXTENDS Integers, Sequences, FiniteSets, SequencesExt

CONSTANTS
    Calls,        \* request ids: one per tool call
    Damaged,      \* the text of a line that does not parse
    Genesis       \* prev_hash of the first record

Events == {"DECISION_DENIED", "APPROVAL_REQUESTED", "APPROVAL_CONSUMED", "MUTATION_PENDING",
           "MUTATION_COMMITTED", "MUTATION_FAILED", "BREAKER_TRIPPED"}

\* decision is the denial code of a DECISION_DENIED record, "allow" in the others.
Codes == {"allow", "DENY", "DENY_RATE_LIMIT"}

Digest(rec) == [seq |-> rec.seq, event |-> rec.event, decision |-> rec.decision,
                call |-> rec.call, ts |-> rec.ts]

Record(seq, prev, event, decision, c, ts) ==
    [seq |-> seq, prev |-> prev, event |-> event, decision |-> decision, call |-> c, ts |-> ts]

Line(rec, ended) == [text |-> rec, parses |-> TRUE, ended |-> ended]
Wreck(ended)     == [text |-> Damaged, parses |-> FALSE, ended |-> ended]

\* A line reaches the end of the file, where a last line without newline swallows it.
Written(file, line) ==
    IF file # <<>> /\ ~Last(file).ended
    THEN Append(Front(file), Wreck(line.ended))
    ELSE Append(file, line)

\* iter_jsonl: where the lines that parse are; the others are skipped.
Legible(file) == {i \in DOMAIN file : file[i].parses}

\* verify(): every line parses, is numbered from one and linked to the line before.
ChainIntact(file) ==
    \A i \in 1..Len(file) :
        /\ file[i].parses
        /\ file[i].text.seq = i
        /\ file[i].text.prev = IF i = 1 THEN Genesis ELSE Digest(file[i - 1].text)

\* A slip the runs must notice: the numbering starts over, as if open() read nothing.
ChainTailForgotten(file) == [seq |-> 0, prev |-> Genesis]

\* open(): the chain goes on from the last record that parses.
ChainTail(file) ==
    IF Legible(file) = {} THEN [seq |-> 0, prev |-> Genesis]
    ELSE LET last == file[Max(Legible(file))].text
         IN  [seq |-> last.seq, prev |-> Digest(last)]

Terminal == {"MUTATION_COMMITTED", "MUTATION_FAILED"}

\* A slip: a cap refusal settles nothing, so it is charged by the next restart.
SettlesByTerminal(rec) == rec.event \in Terminal

\* _settle is asked for a terminal record, and for a denial by the hourly cap.
Settles(rec) ==
    \/ rec.event \in Terminal
    \/ rec.event = "DECISION_DENIED" /\ rec.decision = "DENY_RATE_LIMIT"

Slot(rec) == [call |-> rec.call, at |-> rec.ts]

\* A slip: a PENDING that nothing settles is not charged.
ChargedTerminals(file) ==
    {Slot(file[i].text) : i \in {k \in Legible(file) : file[k].text.event \in Terminal}}

\* The record at i is a PENDING that nothing after it settles.
Open(file, i) ==
    /\ file[i].text.event = "MUTATION_PENDING"
    /\ \A j \in Legible(file) :
          j > i /\ file[j].text.call = file[i].text.call => ~Settles(file[j].text)

\* A replay counts it: a terminal record, or an open one.
Counts(file, i) == file[i].text.event \in Terminal \/ Open(file, i)

\* seed_from_records: the slots a restart charges, as the call and its time.
Charged(file) == {Slot(file[i].text) : i \in {k \in Legible(file) : Counts(file, k)}}
================================================================================

----------------------------- MODULE JobOutput -----------------------------
(***************************************************************************)
(* How a task follows the output of its job: the script appends bytes to a *)
(* file, GET /jobs/{id}?since=offset returns what is new (_job_status and  *)
(* _read_output of internal_jobs.py), and the task keeps the last          *)
(* characters (_show_new_output of airflow/dags/taxlens_jobs.py).          *)
(*                                                                         *)
(* Whether the job runs is decided before the file is read, and the script *)
(* writes and exits in between.  A character is identified by the place of *)
(* its first byte, so that loss, repetition and reordering show.           *)
(***************************************************************************)
EXTENDS Naturals, Sequences, FiniteSets

CONSTANTS
  Pollers,   \* tasks that follow the job, each with its own offset
  TailChars,      \* OUTPUT_TAIL_CHARACTERS and OUTPUT_RETURN_CHARACTERS
  Width,     \* bytes of the longest UTF-8 character
  MaxBytes   \* bound: bytes the script writes

ASSUME JobOutputAssumption ==
  /\ TailChars \in Nat \ {0} /\ MaxBytes \in Nat
  /\ Width \in Nat \ {0, 1}

VARIABLES
  file,      \* the bytes written so far
  alive,     \* the script runs
  pc,        \* "waiting", "reading" between _is_running and the read, "done"
  running,   \* what _is_running answered
  offset,    \* "output_offset" of the last answer, 0 before it
  shown,     \* the task's variable of this name
  behind     \* history: this poller's reads skipped ahead at least once

outputVars == <<file, alive, pc, running, offset, shown, behind>>

(* "c" is a one-byte character, "n" a newline; a Width-byte character is a *)
(* lead byte "h" followed by continuation bytes "t".                       *)
Bytes == {"c", "n", "h", "t"}

(* The lead byte, if any, whose character still misses bytes at the end.   *)
OpenChar(bytes) ==
  \E w \in 1 .. Width - 1 :
    /\ Len(bytes) >= w
    /\ bytes[Len(bytes) - w + 1] = "h"
    /\ \A i \in Len(bytes) - w + 2 .. Len(bytes) : bytes[i] = "t"

-----------------------------------------------------------------------------
LargerOf(a, b) == IF a > b THEN a ELSE b

(* data.decode("utf-8", errors="replace") of the bytes first..last: each   *)
(* whole character, and a replacement for each one cut short.              *)
Belongs(i, lead) == lead < i /\ i < lead + Width /\ file[lead] = "h"

Starts(first, last) ==
  {i \in first .. last : file[i] = "t" => \A l \in first .. last : ~Belongs(i, l)}

Character(i, last) ==
  [at |-> i,
   whole |-> \/ file[i] \in {"c", "n"}
             \/ file[i] = "h" /\ i + Width - 1 <= last
                /\ \A l \in i + 1 .. i + Width - 1 : file[l] = "t"]

(* The n-th place of S.                                                    *)
Nth(S, n) == CHOOSE i \in S : Cardinality({j \in S : j < i}) = n - 1

Decode(first, last) ==
  [n \in 1 .. Cardinality(Starts(first, last)) |->
     Character(Nth(Starts(first, last), n), last)]

(* text[-4000:]                                                            *)
LastOf(text) ==
  SubSeq(text, 1 + IF Len(text) > TailChars THEN Len(text) - TailChars ELSE 0,
         Len(text))

-----------------------------------------------------------------------------
(* Mutant: characters are taken for bytes.                                 *)
StartOf_Short(since) ==
  LargerOf(since, IF Len(file) > TailChars THEN Len(file) - TailChars ELSE 0)

(* _read_output: where the read starts, ...                                *)
StartOf(since) ==
  LargerOf(since, IF Len(file) > Width * TailChars THEN Len(file) - Width * TailChars ELSE 0)

(* ... and where it ends: at the last newline while the job runs.          *)
EndOf(start, completeLines) ==
  IF completeLines
  THEN LET lines == {i \in start + 1 .. Len(file) : file[i] = "n"}
       IN  IF lines = {} THEN start ELSE CHOOSE i \in lines : \A l \in lines : l <= i
  ELSE Len(file)

(* "output_offset": start + len(data).                                      *)
OffsetAfter(since, start, end) == end

-----------------------------------------------------------------------------
OutputInit ==
  /\ file = <<>>
  /\ alive = TRUE
  /\ pc = [p \in Pollers |-> "waiting"]
  /\ running = [p \in Pollers |-> TRUE]
  /\ offset = [p \in Pollers |-> 0]
  /\ shown = [p \in Pollers |-> <<>>]
  /\ behind = [p \in Pollers |-> FALSE]

(* The script writes valid UTF-8, and flushes it anywhere.                 *)
Write ==
  /\ alive
  /\ Len(file) < MaxBytes
  /\ \E b \in Bytes :
       /\ b = "t" <=> OpenChar(file)
       /\ file' = Append(file, b)
  /\ UNCHANGED <<alive, pc, running, offset, shown, behind>>

(* It ends, or is killed in the middle of a character.                     *)
Exit ==
  /\ alive
  /\ alive' = FALSE
  /\ UNCHANGED <<file, pc, running, offset, shown, behind>>

(* The request arrives: _job_status asks _is_running first.                *)
AskRunning(p) ==
  /\ pc[p] = "waiting"
  /\ pc' = [pc EXCEPT ![p] = "reading"]
  /\ running' = [running EXCEPT ![p] = alive]
  /\ UNCHANGED <<file, alive, offset, shown, behind>>

(* It reads the file, and the task shows what it is sent.                  *)
ReadOutput(p) ==
  LET start == StartOf(offset[p])
      end == EndOf(start, running[p])
  IN  /\ pc[p] = "reading"
      /\ shown' = [shown EXCEPT ![p] =
                     LastOf(@ \o LastOf(Decode(start + 1, end)))]
      /\ offset' = [offset EXCEPT ![p] = OffsetAfter(@, start, end)]
      /\ behind' = [behind EXCEPT ![p] = @ \/ start > offset[p]]
      /\ pc' = [pc EXCEPT ![p] = IF running[p] THEN "waiting" ELSE "done"]
      /\ UNCHANGED <<file, alive, running>>

(* The answer is lost: the task asks again from the same offset.           *)
AnswerLost(p) ==
  /\ pc[p] = "reading"
  /\ pc' = [pc EXCEPT ![p] = "waiting"]
  /\ UNCHANGED <<file, alive, running, offset, shown, behind>>

OutputNext ==
  \/ Write
  \/ Exit
  \/ \E p \in Pollers : AskRunning(p) \/ ReadOutput(p) \/ AnswerLost(p)

OutputSpec == OutputInit /\ [][OutputNext]_outputVars

-----------------------------------------------------------------------------
(* Properties.                                                             *)

(* "Only complete lines are returned": as long as a poller keeps up, what  *)
(* it has shown is exactly the tail of the text up to its offset, each     *)
(* character whole, however writes were split.                             *)
ShownIsPrefix ==
  \A p \in Pollers :
    pc[p] # "done" /\ ~behind[p] =>
      /\ shown[p] = LastOf(Decode(1, offset[p]))
      /\ \A n \in DOMAIN shown[p] : shown[p][n].whole

(* Nothing is shown twice or out of order, also not after a lost answer or *)
(* a skip.                                                                 *)
ShownOnce ==
  \A p \in Pollers : \A m, n \in DOMAIN shown[p] :
    m < n => shown[p][m].at < shown[p][n].at

(* When a task learns that its job is over it holds the exact end of the   *)
(* output: nothing written between the last poll and the exit is lost, and *)
(* having fallen behind no longer shows. (collect_selected decides on this *)
(* text whether to stop.)                                                  *)
FinalTailExact ==
  \A p \in Pollers : pc[p] = "done" => shown[p] = LastOf(Decode(1, Len(file)))

(* What a task shows of the output is right while the script runs, and     *)
(* when it is over.                                                        *)
OutputIsRight == ShownIsPrefix /\ ShownOnce /\ FinalTailExact
=============================================================================

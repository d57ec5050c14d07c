------------------------------ MODULE FileCopy ------------------------------
(***************************************************************************)
(* What the transfer of a file promises, whatever clients, disks, signals  *)
(* and TCP do.  The target's file is what it was; or it was truncated,     *)
(* once, and has since grown along the source file: never shrinking, never *)
(* repeating or reordering, and never passing over a unit unless a write   *)
(* has failed.  The transfer reports once.  One that reports an error has  *)
(* left the target alone and will not touch it later, although data it     *)
(* sent may still be under way.  Of a spoilt file, one whose commands and  *)
(* data were mixed up on their way, only this much is promised, that it    *)
(* never shrinks and is truncated once.                                    *)
(***************************************************************************)
EXTENDS Naturals, Sequences

CONSTANTS Files,
          Source,   \* the content of each source file
          Before    \* the content of each target file before the transfer

VARIABLES target,   \* the content of each target file
          report,   \* "none" yet, "ok" or "err"
          failed,   \* the files one of whose writes has failed
          spoilt    \* the files whose stream was mixed up

copyvars == <<target, report, failed, spoilt>>

CopyInit ==
  /\ target = [f \in Files |-> Before[f]]
  /\ report = [f \in Files |-> "none"]
  /\ failed = {} /\ spoilt = {}

Untouched(f) == target[f] = Before[f]

\* s is t without some of its elements
Along(s, t) ==
  \E p \in [1..Len(s) -> 1..Len(t)] :
    /\ \A i \in 1..Len(s) : s[i] = t[p[i]]
    /\ \A i, k \in 1..Len(s) : i < k => p[i] < p[k]

Truncate(f) ==
  /\ Untouched(f) /\ report[f] # "err"
  /\ target' = [target EXCEPT ![f] = <<>>]
  /\ UNCHANGED <<report, failed>>

\* The next units of the source; after a failed write perhaps later ones
Extend(f) ==
  /\ ~Untouched(f)
  /\ \E a \in 1..Len(Source[f]), b \in 0..Len(Source[f]) :
       LET longer == target[f] \o SubSeq(Source[f], a, b)
       IN /\ f \in failed \/ a = Len(target[f]) + 1
          /\ Along(longer, Source[f])
          /\ target' = [target EXCEPT ![f] = longer]
  /\ UNCHANGED report

Write(f) == Extend(f) /\ UNCHANGED failed

\* A part of what was to be written is there, or nothing
WriteFails(f) == Extend(f) /\ failed' = failed \cup {f}

\* Anything may be appended to a spoilt file
WriteSpoilt(f) ==
  /\ f \in spoilt /\ report[f] # "err"
  /\ target' = [target EXCEPT ![f] = target'[f]]
  /\ Len(target[f]) <= Len(target'[f])
  /\ target[f] = SubSeq(target'[f], 1, Len(target[f]))
  /\ failed' \in {failed, failed \cup {f}}
  /\ UNCHANGED report

Succeed(f) ==
  /\ report[f] = "none"
  /\ report' = [report EXCEPT ![f] = "ok"]
  /\ UNCHANGED <<target, failed>>

Fail(f) ==
  /\ report[f] = "none" /\ Untouched(f)
  /\ report' = [report EXCEPT ![f] = "err"]
  /\ UNCHANGED <<target, failed>>

Spoil == UNCHANGED <<target, report, failed>>

CopyNext ==
  /\ \/ \E f \in Files : \/ Truncate(f) \/ Write(f) \/ WriteFails(f)
                         \/ WriteSpoilt(f) \/ Succeed(f) \/ Fail(f)
     \/ Spoil
  /\ spoilt \subseteq spoilt'

CopySpec == CopyInit /\ [][CopyNext]_copyvars
=============================================================================

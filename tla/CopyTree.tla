------------------------------ MODULE CopyTree ------------------------------
(***************************************************************************)
(* Lab6: a directory tree is copied by a thread for each of its entries; a *)
(* thread that copies a directory creates the threads of what is in it and *)
(* does not wait for them.  main runs the function for the root itself.    *)
(*                                                                         *)
(* The process may have MaxOpen descriptors for this.  opendir and open    *)
(* are repeated, without a pause, while they fail with EMFILE.  A call     *)
(* that fails otherwise is reported, and so is its entry; but a readdir_r  *)
(* that fails ends the walk like the end of the directory.  close does not *)
(* fail.                                                                   *)
(*                                                                         *)
(* A source that is no directory is copied alone, and the other entries    *)
(* are not there.  The tree does not change meanwhile, and the copy is not *)
(* inside it (its entries would be found and copied again, without end).   *)
(* No handler is installed, so no call is interrupted.  After a stat that  *)
(* fails, the message is formatted with an argument that is not there:     *)
(* nothing is said of the process from then on.  The paths are written to  *)
(* blocks that are too short by one byte, which malloc's rounding is taken *)
(* to hide.                                                                *)
(***************************************************************************)
EXTENDS Integers, FiniteSets

CONSTANTS
  Entries, Root,
  Parent,           (* the directory that each entry but Root is in          *)
  Limits            (* what MaxOpen may be                                   *)

VARIABLES
  MaxOpen,
  kind,             (* of each entry: dir, file, other, dangling             *)
  copyAt,           (* the place of the thread of each entry                 *)
  unread,           (* what readdir has still to find in a directory that    *)
                    (* was opened                                            *)
  held,             (* the descriptors of a thread                           *)
  copy,             (* the copy of a file: absent, foreign (there before),   *)
                    (* partial, whole                                        *)
  reported,
  undefined

(* Whatever entry one starts from, the way up ends at the root.            *)
Upward(U) == \A f \in U \ {Root} : Parent[f] \in U
IsTree == /\ Root \in Entries /\ Parent \in [Entries \ {Root} -> Entries]
          /\ \A U \in SUBSET Entries : U # {} /\ Upward(U) => Root \in U

Inside(e) == {f \in Entries \ {Root} : Parent[f] = e}

(* main looks whether the source is there, and does nothing if it is not.  *)
isValidArguments == kind[Root] # "dangling"

Init ==
  /\ MaxOpen \in Limits
  /\ kind \in [Entries -> {"dir", "file", "other", "dangling"}]
  /\ \A e \in Entries \ {Root} : kind[Root] # "dir" \/ Inside(e) # {} => kind[e] = "dir"
  /\ copyAt = [e \in Entries |-> IF e = Root /\ isValidArguments THEN "stat" ELSE "none"]
  /\ unread = [e \in Entries |-> {}]
  /\ held = [e \in Entries |-> 0]
  /\ copy \in [Entries -> {"absent", "foreign"}]
  /\ \A e \in Entries : copy[e] = "foreign" => kind[e] = "file"
  /\ reported = {} /\ undefined = FALSE

Open == Cardinality({x \in Entries \X (1 .. 2) : x[2] <= held[x[1]]})
Goto(e, label) == copyAt' = [copyAt EXCEPT ![e] = label]
Report(e) == reported' = reported \cup {e}

(* Mutant of MakeDir: a failure is kept silent.                            *)
MakeDirSilent(e) ==
  /\ Goto(e, "openDir") \/ Goto(e, "done")
  /\ UNCHANGED reported

(* mkdir: a directory that is there is as good; any other failure ends it. *)
MakeDir(e) ==
  \/ Goto(e, "openDir") /\ UNCHANGED reported
  \/ Goto(e, "done") /\ Report(e)

(* stat.  An entry that is no directory and no regular file is left.       *)
Stat(e) ==
  /\ copyAt[e] = "stat"
  /\ undefined' = (kind[e] = "dangling")
  /\ \/ kind[e] = "dir" /\ MakeDir(e)
     \/ kind[e] = "file" /\ Goto(e, "openIn") /\ UNCHANGED reported
     \/ kind[e] \in {"other", "dangling"} /\ Goto(e, "done") /\ UNCHANGED reported
  /\ UNCHANGED <<MaxOpen, kind, unread, held, copy>>

(* opendir, or open of the source: with no descriptor left they are tried  *)
(* again and again.                                                        *)
OpenSource(e) ==
  /\ copyAt[e] \in {"openDir", "openIn"} /\ Open < MaxOpen
  /\ \/ /\ held' = [held EXCEPT ![e] = 1]
        /\ \/ /\ kind[e] = "dir" /\ Goto(e, "readDir")
              /\ unread' = [unread EXCEPT ![e] = Inside(e)]
           \/ kind[e] # "dir" /\ Goto(e, "openOut") /\ UNCHANGED unread
        /\ UNCHANGED reported
     \/ Goto(e, "done") /\ Report(e) /\ UNCHANGED <<held, unread>>
  /\ UNCHANGED <<MaxOpen, kind, copy, undefined>>

(* readdir_r, and a thread for the entry.  pthread_create leaves errno     *)
(* alone, so that it is repeated or given up by an older error.            *)
ReadDir(e) ==
  /\ copyAt[e] = "readDir"
  /\ \E f \in unread[e] :
       /\ unread' = [unread EXCEPT ![e] = @ \ {f}]
       /\ \/ Goto(f, "stat") /\ UNCHANGED reported
          \/ Report(f) /\ UNCHANGED copyAt
  /\ UNCHANGED <<MaxOpen, kind, held, copy, undefined>>

(* At the end of the directory, or when readdir_r fails.                   *)
CloseDir(e) ==
  /\ copyAt[e] = "readDir"
  /\ held' = [held EXCEPT ![e] = 0]
  /\ Goto(e, "done")
  /\ UNCHANGED <<MaxOpen, kind, unread, copy, reported, undefined>>

(* Mutant of OpenOut: the source is left open when there is a copy.        *)
OpenOutLeak(e) ==
  /\ copyAt[e] = "openOut" /\ Open < MaxOpen
  /\ \/ /\ copy[e] = "absent"
        /\ held' = [held EXCEPT ![e] = 2]
        /\ copy' = [copy EXCEPT ![e] = "partial"]
        /\ Goto(e, "copy")
        /\ UNCHANGED reported
     \/ Goto(e, "done") /\ Report(e) /\ UNCHANGED <<held, copy>>
  /\ UNCHANGED <<MaxOpen, kind, unread, undefined>>

(* The copy is created, never overwritten; one that is there, or any other *)
(* failure, closes the source.  The source is held while this is repeated. *)
OpenOut(e) ==
  /\ copyAt[e] = "openOut" /\ Open < MaxOpen
  /\ \/ /\ copy[e] = "absent"
        /\ held' = [held EXCEPT ![e] = 2]
        /\ copy' = [copy EXCEPT ![e] = "partial"]
        /\ Goto(e, "copy")
        /\ UNCHANGED reported
     \/ /\ held' = [held EXCEPT ![e] = 0]
        /\ Goto(e, "done") /\ Report(e)
        /\ UNCHANGED copy
  /\ UNCHANGED <<MaxOpen, kind, unread, undefined>>

(* The loop of reads and writes: it ends at the end of the file or at a    *)
(* read that fails; writes that fail are reported, and what they had is    *)
(* missing.                                                                *)
CopyFile(e) ==
  /\ copyAt[e] = "copy"
  /\ \/ copy' = [copy EXCEPT ![e] = "whole"] /\ UNCHANGED reported
     \/ Report(e) /\ UNCHANGED copy
  /\ Goto(e, "close")
  /\ UNCHANGED <<MaxOpen, kind, unread, held, undefined>>

(* Both descriptors, one after the other.                                  *)
CloseFiles(e) ==
  /\ copyAt[e] = "close"
  /\ held' = [held EXCEPT ![e] = @ - 1]
  /\ Goto(e, IF held[e] = 2 THEN "close" ELSE "done")
  /\ UNCHANGED <<MaxOpen, kind, unread, copy, reported, undefined>>

cpFunction(e) ==
  /\ ~undefined
  /\ \/ Stat(e) \/ OpenSource(e) \/ ReadDir(e) \/ CloseDir(e)
     \/ OpenOut(e) \/ CopyFile(e) \/ CloseFiles(e)
-----------------------------------------------------------------------------
Ended == \A e \in Entries : copyAt[e] \in {"none", "done"}

(* There was a message about the entry or a directory it is in, or the     *)
(* readdir_r failed that should have found one of these: no way up avoids  *)
(* all of them.                                                            *)
Missed == {e \in Entries \ {Root} : e \in unread[Parent[e]]}
Told(e) ==
  \A U \in SUBSET Entries :
    e \in U /\ Upward(U) => U \cap (reported \cup Missed) # {}

(* When all threads have ended, every regular file was copied whole or     *)
(* there was a message, whichever calls but readdir_r failed in whichever  *)
(* threads, and no descriptor is left open.                                *)
NothingLost ==
  Ended /\ ~undefined =>
    /\ Open = 0
    /\ \A e \in Entries : kind[e] = "file" => copy[e] = "whole" \/ Told(e)

(* Every descriptor is held by a thread that needs a second one: all spin, *)
(* for ever.                                                               *)
Starved == Open = MaxOpen /\ \A e \in Entries : held[e] > 0 => copyAt[e] = "openOut"

(* All threads end, but for this one way of not getting on.                *)
CopyEnds == <>(undefined \/ Ended \/ Starved)
=============================================================================

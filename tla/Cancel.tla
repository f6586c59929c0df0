------------------------------- MODULE Cancel -------------------------------
(***************************************************************************)
(* Lab4 and Lab5: a thread prints a sentence of five words over and over,  *)
(* with cancellation disabled, until the alarm raises flag_to_finish; then *)
(* it enables cancellation and tests for it.  main sets the alarm, cancels *)
(* the thread at once and joins it.  In Lab5 a handler is pushed before    *)
(* and popped, not run, behind the test.  While it is enabled, a           *)
(* cancellation acts where the thread prints or tests.                     *)
(***************************************************************************)
EXTENDS Integers

VARIABLES lab,
          main4, thread4,
          word,           (* of the sentence                               *)
          enabled, pending, cleanup,
          alarmed,        (* the alarm is set                              *)
          flag_to_finish,
          handled         (* how often the handler ran                     *)

threadVars == <<thread4, word, enabled, cleanup, handled>>

Words == 5

Init ==
  /\ lab \in {"Lab4", "Lab5"}
  /\ main4 = "create" /\ thread4 = "none"
  /\ word = 0 /\ enabled = TRUE /\ pending = FALSE /\ cleanup = FALSE
  /\ alarmed = FALSE /\ flag_to_finish = FALSE /\ handled = 0

Create ==
  /\ main4 = "create"
  /\ \/ main4' = "alarm" /\ thread4' = "begin"
     \/ main4' = "failed" /\ UNCHANGED thread4
  /\ UNCHANGED <<lab, word, enabled, pending, cleanup, alarmed, flag_to_finish, handled>>

SetAlarm ==
  /\ main4 = "alarm"
  /\ alarmed' = TRUE
  /\ main4' = "cancel"
  /\ UNCHANGED <<lab, threadVars, pending, flag_to_finish>>

RequestCancel ==
  /\ main4 = "cancel"
  /\ pending' = (thread4 \notin {"ended", "canceled"})
  /\ main4' = "join"
  /\ UNCHANGED <<lab, threadVars, alarmed, flag_to_finish>>

Join ==
  /\ main4 = "join" /\ thread4 \in {"ended", "canceled"}
  /\ main4' = IF thread4 = "canceled" THEN "saidCanceled" ELSE "done"
  /\ UNCHANGED <<lab, threadVars, pending, alarmed, flag_to_finish>>

(* The SIGALRM handler, in either thread.                                  *)
sigAlarm ==
  /\ alarmed
  /\ alarmed' = FALSE /\ flag_to_finish' = TRUE
  /\ UNCHANGED <<lab, main4, threadVars, pending>>

(* Mutant of Disable: the default state is left, in which printf cancels.  *)
DisableNot ==
  /\ thread4 = "begin"
  /\ cleanup' = (lab = "Lab5")
  /\ thread4' = "loop"
  /\ UNCHANGED <<lab, main4, word, enabled, pending, alarmed, flag_to_finish, handled>>

Disable ==
  /\ thread4 = "begin"
  /\ cleanup' = (lab = "Lab5")
  /\ enabled' = FALSE
  /\ thread4' = "loop"
  /\ UNCHANGED <<lab, main4, word, pending, alarmed, flag_to_finish, handled>>

Canceled ==
  /\ thread4' = "canceled"
  /\ handled' = handled + (IF cleanup THEN 1 ELSE 0)
  /\ cleanup' = FALSE
  /\ UNCHANGED <<lab, main4, word, enabled, pending, alarmed, flag_to_finish>>

(* The loop: flag_to_finish is looked at between sentences.                *)
PrintWord ==
  /\ thread4 = "loop" /\ (word > 0 \/ ~flag_to_finish)
  /\ \/ pending /\ enabled /\ Canceled
     \/ /\ ~ (pending /\ enabled)
        /\ word' = (word + 1) % Words
        /\ UNCHANGED <<lab, main4, thread4, enabled, pending, cleanup, alarmed,
                       flag_to_finish, handled>>

Enable ==
  /\ thread4 = "loop" /\ word = 0 /\ flag_to_finish
  /\ enabled' = TRUE
  /\ thread4' = "test"
  /\ UNCHANGED <<lab, main4, word, pending, cleanup, alarmed, flag_to_finish, handled>>

(* pthread_testcancel, and the end of the function behind it.              *)
TestCancel ==
  /\ thread4 = "test"
  /\ \/ pending /\ Canceled
     \/ /\ ~pending
        /\ thread4' = "ended" /\ cleanup' = FALSE
        /\ UNCHANGED <<lab, main4, word, enabled, pending, alarmed, flag_to_finish, handled>>

Main == Create \/ SetAlarm \/ RequestCancel \/ Join
Thread == Disable \/ PrintWord \/ Enable \/ TestCancel
-----------------------------------------------------------------------------
(* However the request, the alarm and the sentences interleave, the thread *)
(* ends with a whole sentence, and the handler runs once if it was         *)
(* canceled and never if the request came too late.                        *)
WholeSentences ==
  /\ thread4 \in {"ended", "canceled"} => word = 0 /\ flag_to_finish
  /\ handled = IF thread4 = "canceled" /\ lab = "Lab5" THEN 1 ELSE 0

(* The alarm ends the sentences and main's join.                           *)
ThreadJoined == <>(main4 \in {"failed", "saidCanceled", "done"})
=============================================================================

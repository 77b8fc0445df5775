---------------------------- MODULE MessageChannel ----------------------------
(***************************************************************************)
(* What StreamPort::send promises its callers, with the bytes, the mutex   *)
(* and poll() left out: a message enters the stream whole or not at all,   *)
(* at the very step at which send stops being in progress, exactly once.   *)
(*                                                                         *)
(* A call that raises an exception contributes nothing.  A call that       *)
(* returns normally contributes its message, unless the stream has been    *)
(* torn: `broken' is what the channel can lose messages for.               *)
(***************************************************************************)
EXTENDS Naturals, Sequences

CONSTANTS
  Threads,   (* the threads that send messages                             *)
  Sizes      (* the sizes a message can have                               *)

VARIABLES
  call,      (* what each thread's send is doing                           *)
  log,       (* the messages that entered the stream, in order             *)
  broken     (* the stream was torn: messages may be lost from here on     *)

vars == <<call, log, broken>>

Idle  == [st |-> "idle",  size |-> 0]
Threw == [st |-> "threw", size |-> 0]
Busy(n) == [st |-> "busy", size |-> n]

Init ==
  /\ call = [t \in Threads |-> Idle]
  /\ log = <<>>
  /\ broken = FALSE

(* The thread calls send with a message of n units. *)
Call(t, n) ==
  /\ call[t] = Idle
  /\ call' = [call EXCEPT ![t] = Busy(n)]
  /\ UNCHANGED <<log, broken>>

(* The whole message enters the stream. *)
Deliver(t) ==
  /\ call[t].st = "busy"
  /\ call' = [call EXCEPT ![t] = Idle]
  /\ log' = Append(log, [from |-> t, size |-> call[t].size])
  /\ UNCHANGED broken

(* send raises WriteError; the failure itself may tear the stream. *)
Raise(t) ==
  /\ call[t].st = "busy"
  /\ call' = [call EXCEPT ![t] = Threw]
  /\ broken' \in {broken, TRUE}
  /\ UNCHANGED log

(* The caller has dealt with the exception. *)
Recover(t) ==
  /\ call[t] = Threw
  /\ call' = [call EXCEPT ![t] = Idle]
  /\ UNCHANGED <<log, broken>>

(* On a torn stream a send may return although its message is lost. *)
Lose(t) ==
  /\ broken
  /\ call[t].st = "busy"
  /\ call' = [call EXCEPT ![t] = Idle]
  /\ UNCHANGED <<log, broken>>

(* The host closes or opens its end.  The stream starts over: clean, or     *)
(* already torn if a message was half written at that moment.              *)
Restart ==
  /\ broken' \in BOOLEAN
  /\ UNCHANGED <<call, log>>

Next ==
  \/ \E t \in Threads :
       \/ \E n \in Sizes : Call(t, n)
       \/ Deliver(t)
       \/ Raise(t)
       \/ Recover(t)
       \/ Lose(t)
  \/ Restart

Spec == Init /\ [][Next]_vars
===============================================================================

--------------------------- MODULE EventSemantics ---------------------------
(***************************************************************************)
(* What an EQueue program promises of its events, whatever simulates it:   *)
(* no time, no launchers, no operations that are not events.               *)
(*                                                                         *)
(* The asynchronous operations of a block are issued in program order, an  *)
(* event to the bounded queue of its device.  An event begins when it is   *)
(* the first in its queue, its device has no other and its signals are     *)
(* there, and ends by generating a signal; a launch does not end before    *)
(* everything in its body has been issued.  An await begins, and lets the  *)
(* operations behind it be issued, when its signals are there.             *)
(*                                                                         *)
(* Signals are counted: the n-th time an operation begins each signal it   *)
(* needs has been generated as often as the loops around the two demand.   *)
(* Signals that a loop carries are not among the needs.                    *)
(***************************************************************************)
EXTENDS Integers, Sequences, FiniteSets

CONSTANTS QueueSize, Function      \* Function: the function body, in no launch

VARIABLES
  graph,      (* the program; never changes                                 *)
  present,    (* the devices created so far                                 *)
  issued, begun,    (* how often an operation was                           *)
  queue,      (* queue[d]: the events that wait for device d                *)
  generated   (* how often a signal was                                     *)

vars == <<graph, present, issued, begun, queue, generated>>

Events   == graph.events                 \* launches and copies
Controls == graph.controls
Awaits   == graph.awaits
Ops      == Events \cup Controls \cup Awaits

running(o) == begun[o] > generated[graph.signal[o]]

(* How often the body of a launch, or the function, has been entered. *)
entered(launch) == IF launch = Function THEN 1 ELSE begun[launch]

(* It is o's turn in its block, in a body that is being run. *)
InTurn(o) ==
  LET body == graph.body[o]
  IN  /\ body = Function \/ running(body)
      /\ issued[o] < entered(body) * graph.perBody[o]
      /\ \A p \in Ops : graph.block[p] = graph.block[o] =>
                          issued[p] = issued[o] + IF p < o THEN 1 ELSE 0

Ready(o) ==
  \A s \in graph.needs[o] :
    (begun[o] + 1) * graph.signalRuns[s] <= graph.runs[o] * generated[s]

Count(f, o) == [f EXCEPT ![o] = @ + 1]

Create(d) ==
  /\ d \notin present
  /\ present' = present \cup {d}
  /\ UNCHANGED <<graph, issued, begun, queue, generated>>

Issue(o) ==
  /\ o \in Events
  /\ InTurn(o)
  /\ graph.device[o] \in present
  /\ Len(queue[graph.device[o]]) < QueueSize
  /\ issued' = Count(issued, o)
  /\ queue' = [queue EXCEPT ![graph.device[o]] = Append(@, o)]
  /\ UNCHANGED <<graph, present, begun, generated>>

(* An event for a device that does not exist is over at once. *)
Skip(o) ==
  /\ o \in Events
  /\ InTurn(o)
  /\ graph.device[o] \notin present
  /\ issued' = Count(issued, o)
  /\ begun' = Count(begun, o)
  /\ generated' = [s \in DOMAIN generated |-> generated[s] +
       Cardinality({ i \in DOMAIN graph.results[o] : graph.results[o][i] = s })]
  /\ UNCHANGED <<graph, present, queue>>

IssueControl(o) ==
  /\ o \in Controls
  /\ InTurn(o)
  /\ issued' = Count(issued, o)
  /\ UNCHANGED <<graph, present, begun, queue, generated>>

Begin(d) ==
  /\ queue[d] # <<>>
  /\ \A o \in Events : graph.device[o] = d => ~ running(o)
  /\ Ready(Head(queue[d]))
  /\ begun' = Count(begun, Head(queue[d]))
  /\ queue' = [queue EXCEPT ![d] = Tail(@)]
  /\ UNCHANGED <<graph, present, issued, generated>>

End(o) ==
  /\ o \in Events
  /\ running(o)
  /\ \A p \in Ops : graph.body[p] = o => issued[p] = begun[o] * graph.perBody[p]
  /\ generated' = Count(generated, graph.signal[o])
  /\ UNCHANGED <<graph, present, issued, begun, queue>>

Fire(o) ==
  /\ o \in Controls
  /\ begun[o] < issued[o]
  /\ Ready(o)
  /\ begun' = Count(begun, o)
  /\ generated' = Count(generated, graph.signal[o])
  /\ UNCHANGED <<graph, present, issued, queue>>

Pass(o) ==
  /\ o \in Awaits
  /\ InTurn(o)
  /\ Ready(o)
  /\ issued' = Count(issued, o)
  /\ begun' = Count(begun, o)
  /\ UNCHANGED <<graph, present, queue, generated>>

Init ==
  /\ present = {}
  /\ issued = [o \in Ops |-> 0]
  /\ begun = [o \in Ops |-> 0]
  /\ queue = [d \in graph.devices |-> <<>>]
  /\ generated = [s \in DOMAIN graph.signalRuns |-> 0]

Next ==
  \/ \E d \in graph.devices : Create(d) \/ Begin(d)
  \/ \E o \in Ops : \/ Issue(o) \/ Skip(o) \/ IssueControl(o)
                    \/ End(o) \/ Fire(o) \/ Pass(o)

Spec == Init /\ [][Next]_vars
=============================================================================

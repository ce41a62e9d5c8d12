--------------------------- MODULE StoreDecorators --------------------------
(* ResourceStore and its decorators (solid-storage/src/resource_store.rs):   *)
(* clients that reach one store through stacks of PassthroughStore and       *)
(* ReadOnlyStore, and BaseResourceStore, which implements nothing.           *)
(*                                                                           *)
(* The store at the bottom is any implementation of the trait: a call that   *)
(* may change it may leave it in any state, and any call may be answered by  *)
(* anything.  A layer awaits the one below it; a future may be dropped.      *)
EXTENDS Naturals, Sequences

CONSTANTS
  Caller,
  Layers,   \* the layers of a caller's store, from its own down to the bottom
  State,    \* the states of the store at the bottom
  Outcome,  \* what it answers: values and errors of its own
  Unset     \* no method, no outcome

VARIABLES
  bottom,   \* the state of the store at the bottom
  asked,    \* the method a caller has called, Unset when it has not
  method,   \* the method that is called on the layer the call has reached
  depth,    \* how many layers the call has gone through
  told,     \* what the caller is told, Unset before
  served    \* history: what the store at the bottom has done for the call

decoVars == <<bottom, asked, method, depth, told, served>>

Mutating == {"add_resource", "set_representation", "delete_resource",
             "modify_resource"}
ResourceMethod == Mutating \cup {"has_resource", "get_representation"}

\* Any stacks of the layers there are, and answers that are told from none.
AnyStacks ==
  /\ Layers \in [Caller -> Seq({"passthrough", "read_only", "base"})]
  /\ Unset \notin ResourceMethod \cup Outcome \cup {"NotImplemented", "Forbidden"}

DecoInit ==
  /\ bottom \in State
  /\ asked = [c \in Caller |-> Unset] /\ method = [c \in Caller |-> Unset]
  /\ depth = [c \in Caller |-> 0]
  /\ told = [c \in Caller |-> Unset] /\ served = [c \in Caller |-> <<>>]

Layer(c) == Layers[c][depth[c] + 1]

Ask(c) ==
  /\ asked[c] = Unset
  /\ \E m \in ResourceMethod :
       asked' = [asked EXCEPT ![c] = m] /\ method' = [method EXCEPT ![c] = m]
  /\ UNCHANGED <<bottom, depth, told, served>>

Tell(c, outcome) == told' = [told EXCEPT ![c] = outcome]

Running(c) == asked[c] # Unset /\ told[c] = Unset

\* Mutant of Forwards: ReadOnlyStore forwards what it does not override.
ForwardsModify(layer, m) ==
  \/ layer = "passthrough"
  \/ layer = "read_only" /\ m \notin Mutating \ {"modify_resource"}

\* The layer hands the method m down.
Forwards(layer, m) ==
  \/ layer = "passthrough"
  \/ layer = "read_only" /\ m \notin Mutating

\* Mutant of Forwarded: a slip in the list of methods that forward.
ForwardedSlip(m) == IF m = "add_resource" THEN "set_representation" ELSE m

\* The method of the layer below that is called for m.
Forwarded(m) == m

HandDown(c) ==
  /\ Running(c) /\ depth[c] < Len(Layers[c])
  /\ Forwards(Layer(c), method[c])
  /\ depth' = [depth EXCEPT ![c] = depth[c] + 1]
  /\ method' = [method EXCEPT ![c] = Forwarded(method[c])]
  /\ UNCHANGED <<bottom, asked, told, served>>

\* ReadOnlyStore refuses, BaseResourceStore has nothing to offer.
Refuse(c) ==
  /\ Running(c) /\ depth[c] < Len(Layers[c])
  /\ ~Forwards(Layer(c), method[c])
  /\ Tell(c, IF Layer(c) = "base" THEN "NotImplemented" ELSE "Forbidden")
  /\ UNCHANGED <<bottom, asked, method, depth, served>>

\* The store at the bottom does the call, and each layer returns its answer.
Serve(c) ==
  /\ Running(c) /\ depth[c] = Len(Layers[c])
  /\ IF method[c] \in Mutating THEN bottom' \in State ELSE UNCHANGED bottom
  /\ \E outcome \in Outcome :
       /\ Tell(c, outcome)
       /\ served' = [served EXCEPT ![c] = Append(@, <<method[c], outcome>>)]
  /\ UNCHANGED <<asked, method, depth>>

\* The call returns, or its future is dropped.
HangUp(c) ==
  /\ asked[c] # Unset
  /\ asked' = [asked EXCEPT ![c] = Unset] /\ method' = [method EXCEPT ![c] = Unset]
  /\ depth' = [depth EXCEPT ![c] = 0]
  /\ told' = [told EXCEPT ![c] = Unset] /\ served' = [served EXCEPT ![c] = <<>>]
  /\ UNCHANGED bottom

DecoNext ==
  \E c \in Caller : Ask(c) \/ HandDown(c) \/ Refuse(c) \/ Serve(c) \/ HangUp(c)

DecoSpec == DecoInit /\ [][DecoNext]_decoVars

-----------------------------------------------------------------------------
(* Properties.                                                               *)

Has(c, layer) == \E i \in DOMAIN Layers[c] : Layers[c][i] = layer

\* A store that has a ReadOnlyStore anywhere in its stack never changes what is
\* at the bottom, and what changes it was asked for by the method that may.
ReadOnlyShields ==
  [][bottom' # bottom =>
       \E c \in Caller :
         /\ asked[c] \in Mutating /\ told[c] = Unset /\ told'[c] # Unset
         /\ ~Has(c, "read_only") /\ ~Has(c, "base")]_decoVars

\* Whoever is told an outcome of the store has had exactly the method it called
\* done there, once; whoever is refused has had nothing done, and is refused
\* for a layer of its own ("source should not be called",
\* resource_store.rs:691).
ToldWhatWasDone ==
  \A c \in Caller :
    told[c] # Unset =>
      \/ served[c] = << <<asked[c], told[c]>> >>
      \/ /\ served[c] = <<>>
         /\ \/ told[c] = "NotImplemented" /\ Has(c, "base")
            \/ /\ told[c] = "Forbidden" /\ Has(c, "read_only")
               /\ asked[c] \in Mutating
=============================================================================

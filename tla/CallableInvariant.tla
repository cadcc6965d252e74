-------------------------- MODULE CallableInvariant --------------------------
(***************************************************************************)
(* The inductive invariants of Callables: what each step of an operation   *)
(* holds, who owns each GCHandle, exact reference counts, the delegate     *)
(* that each closure keeps, and the chain that a running call has come     *)
(* along.                                                                  *)
(***************************************************************************)
EXTENDS Callables

Releases == {"DropClosure", "DropBridge", "Delete"}

\* The step that the operation of t is in, but for the call or the release that it
\* makes on the way.
Resume(t) == IF pc[t] \in Releases \cup {"Call"} THEN ctx[t].then ELSE pc[t]

\* What each step holds: the handle until a bridge has it, the bridge until the finally
\* block or the new delegate, the parameter of the native function until it returns.
ContextInv(t) ==
  /\ pc[t] = "idle" => ctx[t] = NoContext
  /\ pc[t] = "DropClosure" => ctx[t].at \in Closures
  /\ pc[t] \in {"DropBridge", "Delete"} => ctx[t].at \in Bridges
  /\ pc[t] \in Releases => ctx[t].then \in {"idle", "Finally"}
  /\ pc[t] = "Call" => t \in Threads /\ ctx[t].then \in {"idle", "Native", "Uncopy"}
  /\ ctx[t].h # Null <=> Resume(t) = "CreateBridge"
  /\ ctx[t].b # Null <=> Resume(t) \in {"Enter", "Native", "Finally", "Wrap"}
  /\ ctx[t].c # Null <=> Resume(t) \in {"Native", "Uncopy"}
  /\ Resume(t) \in {"CreateBridge", "Enter", "Native", "Finally"} => ctx[t].d # Null

\* What is free has nothing in it, and what is in use has what it needs.
ObjectInv ==
  /\ \A b \in Bridges : bridge[b].state = "free" => bridge[b] = NoBridge
  /\ \A c \in Closures : IF closure[c].count = 0 THEN closure[c] = NoClosure
                                                 ELSE closure[c].bridge # Null
  /\ \A d \in Delegates : /\ delegate[d].life = "none" => delegate[d].bridge = Null
                          /\ delegate[d].life = "dead" => delegate[d].bridge # Null

\* One thread deletes a bridge, which nobody has a reference of.
DeleteInv ==
  \A t \in Actors : pc[t] = "Delete" =>
    /\ bridge[ctx[t].at].state = "live" /\ bridge[ctx[t].at].refs = 0
    /\ \A u \in Actors : pc[u] = "Delete" /\ ctx[u].at = ctx[t].at => u = t

\* A GCHandle in use belongs to one bridge or to one operation.
HandleInv ==
  \A h \in Handles :
    /\ handle[h] # Null <=> \/ \E b \in Bridges : bridge[b].lifetime = h
                            \/ \E t \in Actors : ctx[t].h = h
    /\ \A a, b \in Bridges : bridge[a].lifetime = h /\ bridge[b].lifetime = h => a = b
    /\ \A t, u \in Actors : ctx[t].h = h /\ ctx[u].h = h => t = u
    /\ \A b \in Bridges, t \in Actors : ~(bridge[b].lifetime = h /\ ctx[t].h = h)

\* Every count is the number of the holders.
CountInv ==
  /\ \A b \in Bridges : bridge[b].refs = Cardinality(BridgeHolders(b))
  /\ \A c \in Closures : closure[c].count = Cardinality(ClosureHolders(c))

\* CountsExact, made inductive.
CountsInv ==
  /\ TypeOK /\ ObjectInv /\ DeleteInv /\ HandleInv /\ CountInv
  /\ \A t \in Actors : ContextInv(t)

-----------------------------------------------------------------------------
\* The bridge b keeps the delegate d by its GCHandle.
Keeps(b, d) == bridge[b].lifetime # Null /\ handle[bridge[b].lifetime] = d

\* The delegate that a closure was made for is kept by its bridge, and what a GCHandle
\* keeps is not collected.
LifetimeInv ==
  /\ \A c \in Closures :
       closure[c].count > 0 => closure[c].of # Null /\ Keeps(closure[c].bridge, closure[c].of)
  /\ \A t \in Actors :
       /\ Resume(t) = "CreateBridge" => handle[ctx[t].h] = ctx[t].d
       /\ Resume(t) \in {"Enter", "Native", "Finally"} => Keeps(ctx[t].b, ctx[t].d)
  /\ \A h \in Handles : handle[h] # Null => delegate[handle[h]].life \in {"live", "lost"}

-----------------------------------------------------------------------------
\* What holds x for the thread t: its operation, or something in P.
Held(t, P, x) ==
  \/ x \in Closures /\ ctx[t].c = x
  \/ x \in Delegates /\ ctx[t].d = x
  \/ \E c \in P \cap Closures : closure[c].bridge = x
  \/ \E b \in P \cap Bridges : bridge[b].fn = x \/ Keeps(b, x)
  \/ \E d \in P \cap Delegates : delegate[d].bridge = x

\* P is a part of the chain that a call has come along.
Chain(t, P) ==
  /\ P \subseteq Closures \cup Bridges \cup Delegates
  /\ \A x \in P : Held(t, P, x)

\* A call is at the end of a chain that it holds on to.
ChainInv ==
  \A t \in Actors : pc[t] = "Call" =>
    \E P \in SUBSET (Closures \cup Bridges \cup Delegates) : ctx[t].at \in P /\ Chain(t, P)

\* A delegate that an operation works with is not lost, and every bridge has something
\* to call: this is what the rules of use are for.
UseInv ==
  /\ \A t \in Threads : ctx[t].d # Null => delegate[ctx[t].d].life = "live"
  /\ \A b \in Bridges :
       bridge[b].state = "live" => bridge[b].fn # Empty \/ bridge[b].lifetime # Null

\* CalleeExists, made inductive.
CalleeInv == CountsInv /\ LifetimeInv /\ ChainInv /\ UseInv
=============================================================================

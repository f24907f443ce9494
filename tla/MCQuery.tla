------------------------------ MODULE MCQuery ------------------------------
(***************************************************************************)
(* Instances of Query for TLC.  An instance is accounted at one byte.      *)
(***************************************************************************)
EXTENDS Query, TLC

Layer(kind) ==
  [kind |-> kind, name |-> <<kind>>, authority |-> Unset, durable |-> TRUE,
   multiWriter |-> FALSE, compacts |-> FALSE, unsupported |-> {}]

Bounded(policy, bytes) ==
  [maxBytes |-> bytes, policy |-> policy, snapshotOnEvict |-> Unset,
   allowDiscard |-> Unset]

Over(stack, mem) ==
  [store |-> stack, coordination |-> Unset, memory |-> mem, sweeps |-> FALSE]

File == Over(<<Layer("file")>>, Bounded(Unset, 1))
Cached == Over(<<[Layer("memory") EXCEPT !.name = <<"cache">>], Layer("file")>>,
               Bounded(Unset, 0))
Inverted == Over(<<[Layer("memory") EXCEPT !.authority = TRUE], Layer("file")>>,
                 Bounded(Unset, 1))
Memory == Over(<<Layer("memory")>>, Bounded("reject", 1))
Discards == Over(Unset, [Bounded(Unset, 1) EXCEPT !.allowDiscard = TRUE])
Forgets == Over(Unset, Bounded(Unset, 1))
Adapter == Over(<<[Layer("adapter") EXCEPT !.unsupported = {"state"}]>>,
                Bounded("none", Unset))

Limits(asks, histories, sends, notes, folds, restarts, ticks) ==
  ("asks" :> asks) @@ ("histories" :> histories) @@ ("sends" :> sends)
    @@ ("notes" :> notes) @@ ("folds" :> folds) @@ ("restarts" :> restarts)
    @@ ("ticks" :> ticks)

Criteria(state, olderThan, limit) ==
  [state |-> state, olderThan |-> olderThan, limit |-> limit]

Second == [count |-> 1, unit |-> "s"]

Old == Criteria("a", Second, Unset)
InB == Criteria("b", Unset, Unset)
Oldest == Criteria(Unset, [count |-> 0, unit |-> "ms"], 1)

Asking(c, criteria, bounds) ==
  [config |-> c, criteria |-> criteria, bounds |-> bounds]

\* Who asks what of which configuration, and what else may happen.
McSetups ==
  {Asking(File, {Old}, Limits(1, 0, 3, 0, 0, 0, 1)),
   Asking(File, {InB}, Limits(1, 0, 3, 0, 0, 0, 0)),
   Asking(File, {Oldest}, Limits(1, 0, 2, 0, 0, 0, 1)),
   Asking(Cached, {}, Limits(0, 1, 2, 2, 1, 0, 0)),
   Asking(Discards, {}, Limits(0, 1, 2, 1, 0, 0, 0))} \cup
  {Asking(c, {InB}, Limits(1, 0, 2, 0, 1, 1, 0)) :
     c \in {Cached, Memory, Discards, Forgets, Adapter, Inverted}}

Symmetry == Permutations(Keys)

=============================================================================

------------------------------ MODULE Scheduler ------------------------------
(***************************************************************************)
(* SystemScheduler: groups of systems, run in the order their constraints  *)
(* ask for, each no more often than its tick interval, with the command    *)
(* buffer flushed after a system or after the group.                       *)
(*                                                                         *)
(* A handler is user code: it queues commands, adds and removes systems,   *)
(* and may run another group before it returns.  The calls of process()    *)
(* under way are a stack; only the innermost moves.                        *)
(*                                                                         *)
(* Each call adds one unit of time to its group.  Times are kept as        *)
(* distances to now and not beyond the longest interval in the group: no   *)
(* comparison tells greater ones apart.                                    *)
(***************************************************************************)
EXTENDS Integers, Sequences, FiniteSets, SequencesExt, FiniteSetsExt, Functions, TLC

CONSTANTS
  System,
  Group,
  Target,       \* names, of systems and of others that are not there
  Name,         \* system_name: [System -> Target]
  Interval,     \* tick_interval: [System -> Nat], 0 to run in every call
  FlushMode,    \* flush_mode
  Setups,       \* sets of systems to consider: what _deps() of each answers, a
                \* sequence of constraints, and the group it is in
  MaxEntries,   \* bound: entries of each group
  MaxDepth      \* bound: process() inside process()

Orders == {"After", "Before"}

ASSUME SchedulerAssumption ==
  /\ IsFiniteSet(System)
  /\ Name \in [System -> Target]
  /\ Interval \in [System -> Nat]
  /\ FlushMode \in [System -> {"PER_SYSTEM", "PER_GROUP", "MANUAL"}]
  /\ Setups \subseteq [deps : [System -> Seq([order : Orders, target : Target])],
                       group : [System -> Group]]
  /\ MaxEntries \in [Group -> Nat]
  /\ MaxDepth \in Nat

VARIABLES
  deps,      \* the constraints of each system
  members,   \* systems_by_group_
  cache,     \* order_cache_: [groups with an order -> Seq(System)]
  groupOf,   \* the group property of each system, set before it is added
  enabled,   \* systems that are active and not paused
  elapsed,   \* elapsed_by_group_
  since,     \* time since next_run_: [systems with an entry -> Nat]
  pending,   \* systems with commands in the buffer
  stack      \* calls of process() under way, innermost last

registry == <<deps, members, cache, groupOf>>
clocks == <<elapsed, since>>
vars == <<registry, clocks, enabled, pending, stack>>

(***************************************************************************)
(* The order of a group.                                                   *)
(***************************************************************************)

\* The elements of a sequence at a set of positions, in their order.
At(seq, I) ==
  LET f[n \in 0..Len(seq)] ==
        IF n = 0 THEN <<>>
        ELSE IF n \in I THEN Append(f[n - 1], seq[n]) ELSE f[n - 1]
  IN f[Len(seq)]

\* name_to_idx: a name stands for the last entry that has it.  0 is none.
EntryNamed(group, t) == Max({i \in DOMAIN group : Name[group[i]] = t} \cup {0})

\* The edges between entries, with what deps says of the system of each, in the
\* order they are entered.
EdgesOf(d, group, i) ==
  [k \in DOMAIN d[group[i]] |->
     LET j == EntryNamed(group, d[group[i]][k].target)
     IN IF d[group[i]][k].order = "After" THEN <<j, i>> ELSE <<i, j>>]

Edges(d, group) == FlattenSeq([i \in DOMAIN group |-> EdgesOf(d, group, i)])

\* indegree[s] = 0 when the entries in P are placed: no edge from an entry that
\* is not.  Edges from unknown targets are ignored.
Ready(edges, seq, P) ==
  {s \in ToSet(seq) : \A e \in ToSet(edges) : e[2] = s /\ e[1] \in ToSet(seq) => e[1] \in P}

\* The edges by which the entries that come to 0 when s is placed, after those
\* in P, are pushed: the last there is from s to each.
Pushed(edges, seq, P, s) ==
  {i \in DOMAIN edges :
     /\ edges[i][1] = s
     /\ edges[i][2] \in Ready(edges, seq, P \cup {s})
     /\ \A j \in DOMAIN edges : j > i => edges[j] # edges[i]}

\* The loop over the queue: what has been pushed after n rounds, of which the
\* first n are placed and the others are the queue.
Kahn(edges, seq) ==
  LET targets == [i \in DOMAIN edges |-> edges[i][2]]
      round(n) == [q \in Seq(Nat) |->
        IF n > Len(q) THEN q
        ELSE q \o At(targets, Pushed(edges, seq, {q[m] : m \in 1..(n - 1)}, q[n]))]
      pushed[n \in 0..Len(seq)] ==
        IF n = 0 THEN At(seq, {i \in DOMAIN seq : seq[i] \in Ready(edges, seq, {})})
        ELSE round(n)[pushed[n - 1]]
  IN pushed[Len(seq)]

Entries(group) == [i \in DOMAIN group |-> i]

\* What is on a cycle or behind one comes last, in the order of entry.
EntryOrder(d, group) ==
  LET seq == Entries(group)
      order == [edges \in Seq(Nat \X Nat) |->
        LET withRest == [q \in Seq(Nat) |->
              q \o At(seq, {i \in DOMAIN seq : seq[i] \notin Ready(edges, seq, ToSet(q))})]
        IN withRest[Kahn(edges, seq)]]
  IN order[Edges(d, group)]

\* The systems of a group's entries, in an order of these.
InOrder(group) == [order \in Seq(Nat) |-> [k \in DOMAIN order |-> group[order[k]]]]

\* Mutant: what is on a cycle or behind one is left out.
TopologicalOrderNoFallback(d, group) == InOrder(group)[Kahn(Edges(d, group), Entries(group))]

\* Mutant: the constraints are not looked at.
TopologicalOrderOfEntry(d, group) == group

\* recompute_order()
TopologicalOrder(d, group) == InOrder(group)[EntryOrder(d, group)]

Forget(g) == Restrict(cache, DOMAIN cache \ {g})

\* A map with an entry set.
With(f, x, y) == [z \in DOMAIN f \cup {x} |-> IF z = x THEN y ELSE f[z]]

(***************************************************************************)
(* The calls under way.                                                    *)
(***************************************************************************)

Top == stack[Len(stack)]
SetTop(f) == stack' = [stack EXCEPT ![Len(stack)] = f]
Order == cache[Top.group]
Current == Order[Top.next]

Walked(g) == \E i \in DOMAIN stack : stack[i].group = g

\* The program, or the handler of a system, has control.
UserRuns == stack # <<>> => Top.handling

Handling(s) == \E i \in DOMAIN stack : stack[i].handling /\ cache[stack[i].group][stack[i].next] = s

(***************************************************************************)
(* Operations.  A handler that adds to the group it runs in, or removes    *)
(* from it, destroys the sequence that process() is walking; what then     *)
(* happens is undefined and not modelled.  A system may be added again.    *)
(***************************************************************************)

AddSystem(s) ==
  /\ UserRuns
  /\ ~Walked(groupOf[s])
  /\ Len(members[groupOf[s]]) < MaxEntries[groupOf[s]]
  /\ members' = [members EXCEPT ![groupOf[s]] = Append(@, s)]
  /\ cache' = Forget(groupOf[s])
  /\ UNCHANGED <<deps, groupOf, clocks, enabled, pending, stack>>

\* Mutant: the time of the last run is kept for a system that is gone.
RunsWithoutNone(s) == since

RunsWithout(s) == Restrict(since, DOMAIN since \ {s})

RemoveSystem(s) ==
  /\ UserRuns
  /\ ~Walked(groupOf[s])
  /\ members' = [members EXCEPT ![groupOf[s]] = At(@, {i \in DOMAIN @ : @[i] # s})]
  /\ cache' = Forget(groupOf[s])
  /\ since' = RunsWithout(s)
  /\ UNCHANGED <<deps, groupOf, elapsed, enabled, pending, stack>>

Enable(s) ==
  /\ UserRuns
  /\ enabled' = (enabled \cup {s}) \ (enabled \cap {s})
  /\ UNCHANGED <<registry, clocks, pending, stack>>

\* The handler that runs queues a command.
QueueCommand ==
  /\ stack # <<>> /\ Top.handling
  /\ pending' = pending \cup {Current}
  /\ UNCHANGED <<registry, clocks, enabled, stack>>

\* clear(), in shutdown()
Clear ==
  /\ stack = <<>>
  /\ members' = [g \in Group |-> <<>>]
  /\ cache' = <<>>
  /\ elapsed' = [g \in Group |-> 0]
  /\ since' = <<>>
  /\ pending' = {}
  /\ UNCHANGED <<deps, groupOf, enabled, stack>>

(***************************************************************************)
(* process()                                                               *)
(***************************************************************************)

LongestInterval(g) == Max({Interval[s] : s \in {x \in System : groupOf[x] = g}} \cup {0})
Later(g, t) == Min({t + 1, LongestInterval(g)})

Process(g) ==
  /\ UserRuns
  /\ Len(stack) < MaxDepth
  /\ elapsed' = [elapsed EXCEPT ![g] = Later(g, @)]
  /\ since' = [s \in DOMAIN since |->
                 IF s \in ToSet(members[g]) THEN Later(g, since[s]) ELSE since[s]]
  /\ IF members[g] = <<>> THEN UNCHANGED <<cache, stack>>
     ELSE /\ cache' = IF g \in DOMAIN cache THEN cache
                     ELSE With(cache, g, TopologicalOrder(deps, members[g]))
          /\ stack' = Append(stack, [group |-> g, next |-> 1, handling |-> FALSE])
  /\ UNCHANGED <<deps, members, groupOf, enabled, pending>>

\* A system that has not run yet counts from the start of the group's time.
SinceLast(s) == IF s \in DOMAIN since THEN since[s] ELSE elapsed[Top.group]

Due(s) == s \in enabled /\ SinceLast(s) >= Interval[s]

AtSystem == stack # <<>> /\ ~Top.handling /\ Top.next \in DOMAIN Order

SkipSystem ==
  /\ AtSystem
  /\ ~Due(Current)
  /\ SetTop([Top EXCEPT !.next = @ + 1])
  /\ UNCHANGED <<registry, clocks, enabled, pending>>

RunSystem ==
  /\ AtSystem
  /\ Due(Current)
  /\ since' = IF Interval[Current] > 0 THEN With(since, Current, 0) ELSE since
  /\ SetTop([Top EXCEPT !.handling = TRUE])
  /\ UNCHANGED <<registry, elapsed, enabled, pending>>

HandlerReturns ==
  /\ stack # <<>> /\ Top.handling
  /\ pending' = IF FlushMode[Current] = "PER_SYSTEM" THEN {} ELSE pending
  /\ SetTop([Top EXCEPT !.next = @ + 1, !.handling = FALSE])
  /\ UNCHANGED <<registry, clocks, enabled>>

\* Mutant: systems that are switched off do not ask for a flush.
FlushesGroupEnabled(order) ==
  \E s \in ToSet(order) \cap enabled : FlushMode[s] = "PER_GROUP"

FlushesGroup(order) == \E s \in ToSet(order) : FlushMode[s] = "PER_GROUP"

EndGroup ==
  /\ stack # <<>> /\ ~Top.handling /\ Top.next \notin DOMAIN Order
  /\ pending' = IF FlushesGroup(Order) THEN {} ELSE pending
  /\ stack' = Front(stack)
  /\ UNCHANGED <<registry, clocks, enabled>>

(***************************************************************************)
(* Specifications.                                                         *)
(***************************************************************************)

Init ==
  /\ \E u \in Setups : deps = u.deps /\ groupOf = u.group
  /\ members = [g \in Group |-> <<>>]
  /\ cache = <<>>
  /\ enabled = System
  /\ elapsed = [g \in Group |-> 0]
  /\ since = <<>>
  /\ pending = {}
  /\ stack = <<>>

ProcessStep == SkipSystem \/ RunSystem \/ HandlerReturns \/ EndGroup

Registered(s) == \E g \in Group : s \in ToSet(members[g])

Next ==
  \/ \E s \in System : AddSystem(s) \/ RemoveSystem(s) \/ Enable(s)
  \/ QueueCommand
  \/ Clear
  \/ \E g \in Group : Process(g)
  \/ ProcessStep

\* "Call this once per frame ... for each group of systems you run"
\* (VECSWorld.xml:427): the main loop calls process() for every group again and
\* again, the loops of process() go on, and handlers return.
MainLoop(g) == stack = <<>> /\ Process(g)

Fairness ==
  /\ \A g \in Group : SF_vars(MainLoop(g))
  /\ WF_vars(SkipSystem \/ RunSystem \/ EndGroup)
  /\ \A d \in 1..MaxDepth : SF_vars(Len(stack) = d /\ HandlerReturns)

Spec == Init /\ [][Next]_vars /\ Fairness

(***************************************************************************)
(* Properties.                                                             *)
(***************************************************************************)

TypeOK ==
  /\ [deps |-> deps, group |-> groupOf] \in Setups
  /\ \A g \in Group : members[g] \in Seq(System) /\ Len(members[g]) <= MaxEntries[g]
  /\ DOMAIN cache \subseteq Group
  /\ enabled \subseteq System /\ pending \subseteq System
  /\ \A g \in Group : elapsed[g] \in 0..LongestInterval(g)
  /\ \A s \in DOMAIN since : Registered(s)
  /\ \A s \in DOMAIN since : since[s] \in 0..LongestInterval(groupOf[s])
  /\ \A i \in DOMAIN stack :
       /\ stack[i].group \in DOMAIN cache
       /\ stack[i].next \in 1..Len(cache[stack[i].group]) + 1

\* No entry behind i has its name.
LastOfName(group, i) == \A j \in DOMAIN group : Name[group[j]] = Name[group[i]] => j <= i

\* Entry p[1] of a group must come before p[2]: a constraint of the system of one
\* names the other.
Constraint(group) ==
  {p \in (DOMAIN group) \X (DOMAIN group) :
     \/ /\ LastOfName(group, p[1])
        /\ \E k \in DOMAIN deps[group[p[2]]] :
             deps[group[p[2]]][k] = [order |-> "After", target |-> Name[group[p[1]]]]
     \/ /\ LastOfName(group, p[2])
        /\ \E k \in DOMAIN deps[group[p[1]]] :
             deps[group[p[1]]][k] = [order |-> "Before", target |-> Name[group[p[2]]]]}

\* No set of entries in which each has another that must come before it.
Acyclic(before, entries) ==
  \A T \in SUBSET entries \ {{}} : \E j \in T : \A i \in T : <<i, j>> \notin before

Bijections(S) == {f \in [S -> S] : \A y \in S : \E x \in S : f[x] = y}

\* "Group-based system scheduler with dependency ordering" (vecs_scheduler.h:19),
\* "run after `target`", "run before `target`" (system_types.h:11): an order that
\* is in use has each entry of the group once, a system as often as it was added,
\* whatever was added to the group or removed since it was computed, and keeps
\* every constraint if they can all be kept, where a name stands for the last
\* entry that has it (add_system, remove_system, recompute_order).
OrderKeepsConstraints ==
  \A g \in DOMAIN cache :
    LET group == members[g]
        before == Constraint(group)
        kept == IF Acyclic(before, DOMAIN group) THEN before ELSE {}
    IN /\ DOMAIN cache[g] = DOMAIN group
       /\ \E position \in Bijections(DOMAIN group) :
            /\ \A i \in DOMAIN group : cache[g][position[i]] = group[i]
            /\ \A p \in kept : position[p[1]] < position[p[2]]

\* "PER_SYSTEM after every system, PER_GROUP once per group, or MANUAL only when
\* you call it yourself" (VECSSystem.xml:80): when the calls of process() have
\* returned, the only commands left are those of systems that flush themselves,
\* also where a handler ran another group or switched its system off.
CommandsApplied ==
  stack = <<>> => \A s \in pending : FlushMode[s] \notin {"PER_SYSTEM", "PER_GROUP"}

\* A system that stays in its group and is not switched off for ever runs again
\* and again, whatever cycle its constraints are on, whatever its interval, and
\* however often other systems come and go (process, recompute_order).
NobodyStarves ==
  \A s \in System :
    <>[](s \in ToSet(members[groupOf[s]]) /\ s \in enabled) => []<>Handling(s)
=============================================================================

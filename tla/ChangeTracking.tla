---------------------------- MODULE ChangeTracking ----------------------------
(***************************************************************************)
(* Change detection of the World: the change clock, the lazily allocated   *)
(* row versions of a Column, the change log, and their two readers, a      *)
(* ChangeView (take) and a query with a changed() filter (execute).        *)
(*                                                                         *)
(* Rows are not numbered here: an entity is in the archetype of its        *)
(* component set, and its version in a column follows it.  An archetype    *)
(* has an address, because a ChangeView remembers the archetypes it saw by *)
(* pointer.  The component values themselves are left out.                 *)
(***************************************************************************)
EXTENDS Integers, Sequences, FiniteSets, Functions

CONSTANTS
  Entity,
  Comp,
  Watched,        \* ids_ of the ChangeView, which also selects its archetypes
  QueryAll,       \* with_all() of the query
  QueryChanged,   \* changed() of the query
  Addr,           \* addresses of archetypes
  RootAddr,       \* that of the archetype without components, which is never deleted
  LogCap,         \* CHANGE_LOG_SOFT_CAP, 2^16 in the code
  MaxTick,        \* bound: writes and ticks
  MaxQueryTick,   \* bound: the query is executed up to this tick
  MaxDrops        \* bound: times the whole log is dropped

ASSUME ChangeTrackingAssumption ==
  /\ Watched \subseteq Comp /\ Watched # {}
  /\ QueryAll \subseteq Comp
  /\ QueryChanged \subseteq Comp /\ QueryChanged # {}
  /\ RootAddr \in Addr
  /\ LogCap \in Nat
  /\ MaxTick \in Nat \ {0}
  /\ MaxQueryTick \in Nat
  /\ MaxDrops \in Nat

VARIABLES
  place,        \* [alive -> component set]
  archList,     \* archetype_list_: <<component set, address>> in creation order
  tracking,     \* [component set -> its columns with versions enabled]
  version,      \* [alive -> [Comp -> version of its row]], 0 where untracked
  maxVersion,   \* [component set -> [Comp -> max_version_ of the column]]
  tick,         \* change_tick_
  log,          \* change_log_
  logGen,       \* change_log_generation_
  view,         \* the ChangeView
  queryBase,    \* changed_baselines_ of the query, 0 when it has none
  viewDue,      \* history: <<entity, component>> written since the last take()
  viewMayAdd,   \* history: entities take() may report besides: moved since then
  queryDue      \* history: <<entity, component>> written since the last execute()

storeVars == <<place, archList, tracking, version, maxVersion>>
logVars == <<log, logGen>>
viewVars == <<view, viewMayAdd>>
vars == <<storeVars, tick, logVars, view, queryBase, viewDue, viewMayAdd, queryDue>>

Archetypes == DOMAIN tracking
Alive == DOMAIN place
Members(A) == {e \in Alive : place[e] = A}
Nobody == [e \in {} |-> {}]
Larger(a, b) == IF a > b THEN a ELSE b

\* The elements of s at the places I, in their order.
Picked(s, I) ==
  [n \in 1..Cardinality(I) |-> s[CHOOSE i \in I : Cardinality({j \in I : j <= i}) = n]]

(***************************************************************************)
(* Columns.                                                                *)
(***************************************************************************)

\* Mutant: rows are stamped although the column is tracked already.
StampedAgain(A, T) == T \cap A

\* ensure_versions(tick) on the columns T of archetype A: a column that is not
\* tracked yet stamps the rows it has.
Stamped(A, T) == {t \in T \cap A : t \notin tracking[A]}

\* The largest version becomes 0 whenever a row leaves the column, whether by
\* swap_remove() or by pop_back().
MaxAfterRemoval(A) == [t \in Comp |-> 0]

\* The archetype of e, after the row of e left.
Leave(e) == [maxVersion EXCEPT ![place[e]] = MaxAfterRemoval(place[e])]

(***************************************************************************)
(* Moving an entity: _ensure_archetype, add_entity, _move_entity_to.       *)
(***************************************************************************)

UsedAddr == {archList[i][2] : i \in DOMAIN archList}

EnsureArchetype(A) ==
  IF A \in Archetypes
  THEN UNCHANGED <<archList>>
  ELSE \E a \in Addr \ UsedAddr : archList' = Append(archList, <<A, a>>)

TrackingWith(A) == [B \in Archetypes \cup {A} |-> IF B \in Archetypes THEN tracking[B] ELSE {}]

\* Mutant: the source version, whether or not the source has one.
ArrivalVersionOfSource(e, B, t) ==
  IF t \notin B \/ t \notin TrackingWith(B)[B] THEN 0
  ELSE IF t \in place[e] THEN version[e][t]
  ELSE tick

\* The version of e's row in column t of B, once e came from place[e]: the
\* clock if the column is new to e or has no history of it, and 0 if B does
\* not track t.
ArrivalVersion(e, B, t) ==
  IF t \notin B \/ t \notin TrackingWith(B)[B] THEN 0
  ELSE IF t \in place[e] /\ t \in tracking[place[e]] THEN version[e][t]
  ELSE tick

\* maxVersion once e's row is in B; a tracked column has seen the clock, with
\* which add_entity() stamped the row.
MaxAfterMove(e, B) ==
  [A \in Archetypes \cup {B} |->
     IF A = B
     THEN [t \in Comp |-> IF t \in TrackingWith(B)[B]
                          THEN Larger(maxVersion[B][t], tick) ELSE 0]
     ELSE Leave(e)[A]]

Move(e, B) ==
  /\ EnsureArchetype(B)
  /\ place' = [place EXCEPT ![e] = B]
  /\ tracking' = TrackingWith(B)

(***************************************************************************)
(* Writes.                                                                 *)
(***************************************************************************)

\* Mutant: the older half is dropped without a new generation.
LogChangeUnnoticed(e, t, at) ==
  LET longer == Append(log, [ent |-> e, comp |-> t, tick |-> at])
      half == Len(longer) \div 2
  IN /\ log' = IF Len(longer) > LogCap THEN SubSeq(longer, half + 1, Len(longer)) ELSE longer
     /\ UNCHANGED logGen

\* _log_change, which drops the older half of a log past the cap.
LogChange(e, t, at) ==
  LET longer == Append(log, [ent |-> e, comp |-> t, tick |-> at])
      half == Len(longer) \div 2
  IN IF Len(longer) > LogCap
     THEN /\ log' = SubSeq(longer, half + 1, Len(longer))
          /\ logGen' = logGen + 1
     ELSE log' = longer /\ UNCHANGED logGen

\* The row of e was written in column t, which the program reports only if the
\* column is tracked.
Written(e, t) ==
  /\ viewDue' = viewDue \cup ({e} \X ({t} \cap Watched))
  /\ queryDue' = queryDue \cup ({e} \X ({t} \cap QueryChanged))

LogIfTracked(e, t, A) ==
  IF t \in tracking'[A] THEN LogChange(e, t, tick + 1) ELSE UNCHANGED logVars

\* add_raw() on an entity that has the component: overwrite
Overwrite(e, t) ==
  /\ t \in place[e]
  /\ tick < MaxTick
  /\ tick' = tick + 1
  /\ IF t \in tracking[place[e]]
     THEN /\ version' = [version EXCEPT ![e][t] = tick + 1]
          /\ maxVersion' = [maxVersion EXCEPT ![place[e]][t] = tick + 1]
     ELSE UNCHANGED <<version, maxVersion>>
  /\ UNCHANGED <<place, archList, tracking>>
  /\ LogIfTracked(e, t, place[e])
  /\ Written(e, t)
  /\ UNCHANGED <<viewVars, queryBase>>

\* add_raw() on an entity that has not: move, then write the new component
Attach(e, t) ==
  LET B == place[e] \cup {t}
  IN /\ t \notin place[e]
     /\ tick < MaxTick
     /\ tick' = tick + 1
     /\ Move(e, B)
     /\ version' = [version EXCEPT ![e] =
          [c \in Comp |-> IF c = t /\ t \in tracking'[B] THEN tick + 1
                          ELSE ArrivalVersion(e, B, c)]]
     /\ maxVersion' = [MaxAfterMove(e, B) EXCEPT ![B][t] =
                         IF t \in tracking'[B] THEN tick + 1 ELSE 0]
     /\ LogIfTracked(e, t, B)
     /\ Written(e, t)
     /\ viewMayAdd' = viewMayAdd \cup {e}
     /\ UNCHANGED <<view, queryBase>>

\* remove_component(): the clock does not advance
Detach(e, t) ==
  LET B == place[e] \ {t}
  IN /\ t \in place[e]
     /\ Move(e, B)
     /\ version' = [version EXCEPT ![e] = [c \in Comp |-> ArrivalVersion(e, B, c)]]
     /\ maxVersion' = MaxAfterMove(e, B)
     /\ viewDue' = viewDue \ {<<e, t>>}
     /\ queryDue' = queryDue \ {<<e, t>>}
     /\ viewMayAdd' = viewMayAdd \cup {e}
     /\ UNCHANGED <<tick, logVars, view, queryBase>>

\* Mutant: no has_component() before ensure_versions().
TrackingOnEverywhere(As, T) ==
  [A \in Archetypes |-> IF A \in As THEN tracking[A] \cup T ELSE tracking[A]]

\* Versions and maxima once the columns T of the archetypes As are tracked.
TrackingOn(As, T) == [A \in Archetypes |-> IF A \in As THEN tracking[A] \cup (T \cap A) ELSE tracking[A]]

\* Mutant: rows older than the tracking get version 0.
VersionsOnZero(As, T) ==
  [e \in Alive |-> [t \in Comp |->
     IF place[e] \in As /\ t \in Stamped(place[e], T) THEN 0 ELSE version[e][t]]]

VersionsOn(As, T) ==
  [e \in Alive |-> [t \in Comp |->
     IF place[e] \in As /\ t \in Stamped(place[e], T) THEN tick ELSE version[e][t]]]
MaximaOn(As, T) ==
  [A \in Archetypes |-> [t \in Comp |->
     IF A \in As /\ t \in Stamped(A, T) THEN tick ELSE maxVersion[A][t]]]

\* Mutant: the write is stamped with the clock as it is.
MarkChangedSameTick(e, t) ==
  LET A == place[e]
  IN /\ t \in A
     /\ tracking' = TrackingOn({A}, {t})
     /\ version' = [VersionsOn({A}, {t}) EXCEPT ![e][t] = tick]
     /\ maxVersion' = [maxVersion EXCEPT ![A][t] = tick]
     /\ LogChange(e, t, tick)
     /\ Written(e, t)
     /\ UNCHANGED <<place, archList, tick, viewVars, queryBase>>

\* mark_changed(), the path of set_field(): it enables tracking and always logs
MarkChanged(e, t) ==
  LET A == place[e]
  IN /\ t \in A
     /\ tick < MaxTick
     /\ tick' = tick + 1
     /\ tracking' = TrackingOn({A}, {t})
     /\ version' = [VersionsOn({A}, {t}) EXCEPT ![e][t] = tick + 1]
     /\ maxVersion' = [maxVersion EXCEPT ![A][t] = tick + 1]
     /\ UNCHANGED <<place, archList>>
     /\ LogChange(e, t, tick + 1)
     /\ Written(e, t)
     /\ UNCHANGED <<viewVars, queryBase>>

\* process() advances the clock once a frame
AdvanceChangeTick ==
  /\ tick < MaxTick
  /\ tick' = tick + 1
  /\ UNCHANGED <<storeVars, logVars, viewVars, queryBase, viewDue, queryDue>>

(***************************************************************************)
(* Entities and archetypes.                                                *)
(***************************************************************************)

Create(e) ==
  /\ e \notin Alive
  /\ place' = [x \in Alive \cup {e} |-> IF x = e THEN {} ELSE place[x]]
  /\ version' = [x \in Alive \cup {e} |-> IF x = e THEN [t \in Comp |-> 0] ELSE version[x]]
  /\ UNCHANGED <<archList, tracking, maxVersion, tick, logVars, viewVars,
                 queryBase, viewDue, queryDue>>

Destroy(e) ==
  /\ place' = Restrict(place, Alive \ {e})
  /\ version' = Restrict(version, Alive \ {e})
  /\ maxVersion' = Leave(e)
  /\ viewDue' = {d \in viewDue : d[1] # e}
  /\ queryDue' = {d \in queryDue : d[1] # e}
  /\ UNCHANGED <<archList, tracking, tick, logVars, viewVars, queryBase>>

DropLog ==
  /\ logGen < MaxDrops
  /\ log' = <<>> /\ logGen' = logGen + 1

\* clear(): every entity goes, and the log with them
Clear ==
  /\ place' = Nobody /\ version' = Nobody
  /\ maxVersion' = [A \in Archetypes |->
       IF Members(A) = {} THEN maxVersion[A] ELSE MaxAfterRemoval(A)]
  /\ DropLog
  /\ viewDue' = {} /\ queryDue' = {}
  /\ UNCHANGED <<archList, tracking, tick, viewVars, queryBase>>

\* reset(), whose part here is to drop the log and the baselines of the queries
Reset ==
  /\ DropLog
  /\ queryBase' = 0
  /\ UNCHANGED <<storeVars, tick, viewVars, viewDue, queryDue>>

\* compact(): empty archetypes are deleted, and their addresses free again
Compact ==
  LET kept == {A \in Archetypes : A = {} \/ Members(A) # {}}
  IN /\ archList' = Picked(archList, {i \in DOMAIN archList : archList[i][1] \in kept})
     /\ tracking' = Restrict(tracking, kept)
     /\ maxVersion' = Restrict(maxVersion, kept)
     /\ UNCHANGED <<place, version, tick, logVars, viewVars, queryBase, viewDue, queryDue>>

(***************************************************************************)
(* ChangeView.                                                             *)
(***************************************************************************)

NoView == [made |-> FALSE, base |-> 0, pos |-> 0, gen |-> 0, warm |-> FALSE, last |-> <<>>]

\* changes<...>(): the baseline is the clock of the moment
MakeView ==
  /\ ~view.made
  /\ view' = [NoView EXCEPT !.made = TRUE, !.base = tick]
  /\ viewDue' = {} /\ viewMayAdd' = Alive
  /\ UNCHANGED <<storeVars, tick, logVars, queryBase, queryDue>>

\* Archetype::matches on with_all()
Matches(A, all) == all \subseteq A
MatchedBy(all) == {A \in Archetypes : Matches(A, all)}
MatchedPlaces == {i \in DOMAIN archList : Matches(archList[i][1], Watched)}
MatchedAddrs == LET matched == Picked(archList, MatchedPlaces)
                IN [i \in DOMAIN matched |-> matched[i][2]]

LogInvalidated == logGen # view.gen
NeedScan == ~view.warm \/ LogInvalidated \/ MatchedAddrs # view.last

\* Layer (a): the rows newer than the baseline, in the archetypes whose maximum
\* does not rule them out.
ScanReport ==
  LET ver == VersionsOn(MatchedBy(Watched), Watched)
      max == MaximaOn(MatchedBy(Watched), Watched)
  IN {e \in Alive : /\ Matches(place[e], Watched)
                    /\ \E t \in Watched : max[place[e]][t] > view.base
                    /\ \E t \in Watched : ver[e][t] > view.base}

\* change_log_lower_bound(): how many entries are not newer than at
LowerBound(at) == Cardinality({i \in DOMAIN log : log[i].tick <= at})

\* Layer (b): the entities of the log entries not consumed yet.
LogStart == IF ~view.warm \/ LogInvalidated THEN LowerBound(view.base) ELSE view.pos

\* Mutant: no check that the entity still has the watched components.
LogReportOfAny ==
  {log[i].ent : i \in {j \in LogStart + 1..Len(log) :
     log[j].tick > view.base /\ log[j].comp \in Watched /\ log[j].ent \in Alive}}

LogReport ==
  {log[i].ent : i \in {j \in LogStart + 1..Len(log) :
     /\ log[j].tick > view.base
     /\ log[j].comp \in Watched
     /\ log[j].ent \in Alive
     /\ Matches(place[log[j].ent], Watched)}}

TakeReport == (IF NeedScan THEN ScanReport ELSE {}) \cup LogReport

Take ==
  /\ view.made
  /\ IF NeedScan
     THEN /\ tracking' = TrackingOn(MatchedBy(Watched), Watched)
          /\ version' = VersionsOn(MatchedBy(Watched), Watched)
          /\ maxVersion' = MaximaOn(MatchedBy(Watched), Watched)
     ELSE UNCHANGED <<tracking, version, maxVersion>>
  /\ view' = [view EXCEPT !.base = tick, !.pos = Len(log), !.gen = logGen,
                          !.warm = TRUE, !.last = MatchedAddrs]
  /\ viewDue' = {} /\ viewMayAdd' = {}
  /\ UNCHANGED <<place, archList, tick, logVars, queryBase, queryDue>>

(***************************************************************************)
(* Query with a changed() filter.                                          *)
(***************************************************************************)

ExecuteReport ==
  LET ver == VersionsOn(MatchedBy(QueryAll), QueryChanged)
  IN {e \in Alive : /\ Matches(place[e], QueryAll)
                    /\ \E t \in QueryChanged \cap place[e] : ver[e][t] > queryBase}

\* execute() and execute_one() both enable tracking and advance the baseline.
Execute ==
  /\ tick <= MaxQueryTick
  /\ tracking' = TrackingOn(MatchedBy(QueryAll), QueryChanged)
  /\ version' = VersionsOn(MatchedBy(QueryAll), QueryChanged)
  /\ maxVersion' = MaximaOn(MatchedBy(QueryAll), QueryChanged)
  /\ queryBase' = tick
  /\ queryDue' = {}
  /\ UNCHANGED <<place, archList, tick, logVars, viewVars, viewDue>>

(***************************************************************************)
(* Specification.                                                          *)
(***************************************************************************)

Init ==
  /\ place = Nobody /\ version = Nobody
  /\ archList = << <<{}, RootAddr>> >>
  /\ tracking = [A \in {{}} |-> {}]
  /\ maxVersion = [A \in {{}} |-> [t \in Comp |-> 0]]
  /\ tick = 1
  /\ log = <<>> /\ logGen = 0
  /\ view = NoView /\ queryBase = 0
  /\ viewDue = {} /\ viewMayAdd = {} /\ queryDue = {}

Write ==
  \E e \in Alive, t \in Comp : Overwrite(e, t) \/ Attach(e, t) \/ MarkChanged(e, t)

Structure ==
  \/ \E e \in Entity : Create(e)
  \/ \E e \in Alive : Destroy(e)
  \/ \E e \in Alive, t \in Comp : Detach(e, t)

\* compact() is called while no view is in use.
Replace == Clear \/ Reset \/ (~view.made /\ Compact)

Read == MakeView \/ Take \/ Execute

Next == Write \/ AdvanceChangeTick \/ Structure \/ Replace \/ Read

Spec == Init /\ [][Next]_vars

\* With compact() at any time a view may take a new archetype for one that was
\* deleted, at whose address it is; what take() promises then fails, what the
\* query and the log promise does not.
NextCompact == Next \/ Compact

SpecCompact == Init /\ [][NextCompact]_vars

(***************************************************************************)
(* Properties.                                                             *)
(***************************************************************************)

TypeOK ==
  /\ Alive \subseteq Entity
  /\ place \in [Alive -> Archetypes]
  /\ Archetypes \subseteq SUBSET Comp
  /\ {archList[i][1] : i \in DOMAIN archList} = Archetypes
  /\ \A A \in Archetypes : tracking[A] \subseteq A
  /\ version \in [Alive -> [Comp -> 0..MaxTick]]
  /\ maxVersion \in [Archetypes -> [Comp -> 0..MaxTick]]
  /\ tick \in 1..MaxTick
  /\ log \in Seq([ent : Entity, comp : Comp, tick : 1..MaxTick])
  /\ logGen \in Nat
  /\ queryBase \in 0..tick
  /\ view.base \in 0..tick
  /\ viewDue \subseteq Entity \X Watched
  /\ queryDue \subseteq Entity \X QueryChanged
  /\ viewMayAdd \subseteq Entity

\* "In steady state (warmed up, same archetypes, log intact) layer (b) alone
\* yields exactly the changed set" (world.h:479): reading only the log, take()
\* reports the entities written since the last take() that have the watched
\* components now, each of them and no other.
SteadyTakeExact ==
  view.made /\ ~NeedScan =>
    TakeReport = {e \in Alive : /\ Matches(place[e], Watched)
                                /\ \E t \in Watched : <<e, t>> \in viewDue}

\* take() "returns every entity whose watched component column was written
\* since the previous take()" (world.h:438): at any moment the next take()
\* would report every entity that still has the watched components and was
\* written in one of them, whichever archetypes it went through since.
NoLostChange ==
  view.made =>
    \A d \in viewDue : Matches(place[d[1]], Watched) => d[1] \in TakeReport

\* max_version_ is the "highest version currently in the column" (column.h:153).
MaxVersionHighest ==
  \A e \in Alive : \A t \in tracking[place[e]] :
    version[e][t] <= maxVersion[place[e]][t]

\* What the code guarantees of NoLostChange: archetypes that appear, lose
\* their tracking history or are entered and left, and a log that is halved or
\* dropped, lose no change, as long as no removal downgraded the max_version_
\* of a column below the rows it still has.
NoLostChangeUnlessDowngraded == MaxVersionHighest => NoLostChange

\* take() reports nothing else but entities that moved since: "second take
\* with no writes is empty" (regression_test.gd:900).
OnlyChangesReported ==
  view.made /\ view.warm =>
    TakeReport \subseteq {d[1] : d \in viewDue} \cup viewMayAdd

\* A changed() query reports every row written since its last execution
\* (column.h:121: "otherwise every write that happened before tracking was
\* turned on is silently lost"), however often the row moved to archetypes
\* with and without tracking.
NoLostQueryChange ==
  \A d \in queryDue : Matches(place[d[1]], QueryAll) => d[1] \in ExecuteReport

\* "The log is tick-sorted because entries are appended with a strictly
\* increasing tick" (world.h:193), and nothing in it is from the future.
LogSorted ==
  /\ \A i, j \in DOMAIN log : i < j => log[i].tick < log[j].tick
  /\ \A i \in DOMAIN log : log[i].tick <= tick
=============================================================================

----------------------------- MODULE Selection -----------------------------
(***************************************************************************)
(* Which instances a call may use: groups and routers (cluster/group),     *)
(* selectors and their chains (cluster/selector), and what the balancers   *)
(* make of a list (discovery/balancer).  Operators only: every one of them *)
(* runs on its own list, a group's under its lock.                         *)
(*                                                                         *)
(* An instance is [id, version, enabled, latency, meta]; meta maps the     *)
(* keys it has to values.  PrefixOf and Matching hold the pairs            *)
(* <<pattern, value>> that HasPrefix and MatchString accept, Number the    *)
(* values Atoi can read.  A list that came out empty stands for the error  *)
(* all of these functions return instead.                                  *)
(***************************************************************************)
EXTENDS Integers, Sequences, FiniteSets, SequencesExt

CONSTANTS None, PrefixOf, Matching, BadPatterns, Number

\* The elements of a set, in the order of the list.
Keep(list, accepted) ==
    LET kept[n \in 0..Len(list)] ==
            IF n = 0 THEN <<>>
            ELSE IF list[n] \in accepted THEN Append(kept[n - 1], list[n]) ELSE kept[n - 1]
    IN  kept[Len(list)]

Has(i, key) == key \in DOMAIN i.meta
HasValue(i, key, value) == Has(i, key) /\ i.meta[key] = value

-----------------------------------------------------------------------------
(***************************************************************************)
(* Groups.  A matcher is [type, key, value, labels] or None.               *)
(***************************************************************************)
NoLabels == [type |-> "label", key |-> "", value |-> "", labels |-> <<>>]

\* createMatcher: a matcher, or None for its errors.
CreateMatcher(config) ==
    CASE config = None -> NoLabels
      [] config # None /\ config.type = "regex" /\ config.value \in BadPatterns -> None
      [] config # None /\ config.type \notin {"exact", "prefix", "regex", "label"} -> None
      [] OTHER -> config

Match(m, i) ==
    CASE m.type = "exact" -> HasValue(i, m.key, m.value)
      [] m.type = "prefix" -> Has(i, m.key) /\ <<m.value, i.meta[m.key]>> \in PrefixOf
      [] m.type = "regex" -> Has(i, m.key) /\ <<m.value, i.meta[m.key]>> \in Matching
      [] m.type = "label" -> \A k \in DOMAIN m.labels : HasValue(i, k, m.labels[k])

NewGroup(config) == [config |-> config, matcher |-> CreateMatcher(config)]

\* Mutant: the configuration is replaced before the matcher is made.
UpdateConfigFirst(g, config) ==
    [config |-> config,
     matcher |-> IF CreateMatcher(config) = None THEN g.matcher ELSE CreateMatcher(config)]

\* An error leaves the group as it was.
UpdateConfig(g, config) ==
    IF CreateMatcher(config) = None THEN g
    ELSE [config |-> config, matcher |-> CreateMatcher(config)]

GroupSelect(g, list) == Keep(list, {i \in ToSet(list) : Match(g.matcher, i)})

-----------------------------------------------------------------------------
(***************************************************************************)
(* Routers.  groups maps names to groups; wanted is the group named in the *)
(* context, or None.                                                       *)
(***************************************************************************)
DefaultRoute(groups, wanted, list) ==
    CASE wanted = None -> list
      [] wanted # None /\ wanted \notin DOMAIN groups -> <<>>
      [] OTHER -> GroupSelect(groups[wanted], list)

HeavyEnough(r, i) ==
    Has(i, r.key) /\ i.meta[r.key] \in DOMAIN Number /\ Number[i.meta[r.key]] >= r.min

Route(r, groups, wanted, list) ==
    CASE r.kind = "default" -> DefaultRoute(groups, wanted, list)
      [] r.kind = "tag" -> Keep(list, {i \in ToSet(list) : HasValue(i, r.key, r.value)})
      [] r.kind = "weight" -> Keep(list, {i \in ToSet(list) : HeavyEnough(r, i)})
      [] r.kind = "version" -> Keep(list, {i \in ToSet(list) : i.version = r.version})

RouteChain(routers, groups, wanted, list) ==
    LET now[n \in 0..Len(routers)] ==
            IF n = 0 THEN list
            ELSE IF now[n - 1] = <<>> THEN <<>> ELSE Route(routers[n], groups, wanted, now[n - 1])
    IN  now[Len(routers)]

-----------------------------------------------------------------------------
(***************************************************************************)
(* Selectors.  target is the group in the context, or None.                *)
(***************************************************************************)
GroupSelector(s, target, list) ==
    LET group == IF target = None THEN s.group ELSE target
    IN  Keep(list, {i \in ToSet(list) : HasValue(i, s.key, group)})

\* A map gives the zero value for a key it does not have.
NoName == ""
GroupOf(i) == IF Has(i, "group") THEN i.meta["group"] ELSE NoName

OfGroup(name, list) == Keep(list, {i \in ToSet(list) : GroupOf(i) = name})

\* Mutant: the ratio decides even if group B has no instance.
ABSelectorByRatio(s, forced, list) ==
    LET a == OfGroup(s.a, list)
        b == OfGroup(s.b, list)
    IN  CASE forced # None /\ OfGroup(forced, list) # <<>> -> OfGroup(forced, list)
          [] OTHER -> IF a # <<>> /\ s.percent > 50 THEN a ELSE b

\* The ratio is only ever compared with one half.
ABSelector(s, forced, list) ==
    LET a == OfGroup(s.a, list)
        b == IF s.a = s.b THEN <<>> ELSE OfGroup(s.b, list)
    IN  CASE forced # None /\ OfGroup(forced, list) # <<>> -> OfGroup(forced, list)
          [] OTHER -> IF a # <<>> /\ (b = <<>> \/ s.percent > 50) THEN a ELSE b

\* "custom" is a BaseSelector with a function, which keeps what it accepts or fails;
\* without one it keeps everything.
Select(s, target, forced, list) ==
    CASE s.kind = "group" -> GroupSelector(s, target, list)
      [] s.kind = "ab" -> ABSelector(s, forced, list)
      [] s.kind = "base" -> list
      [] s.kind = "custom" -> Keep(list, s.accepts)

SelectChain(selectors, target, forced, list) ==
    LET now[n \in 0..Len(selectors)] ==
            IF n = 0 THEN list
            ELSE IF now[n - 1] = <<>> THEN <<>> ELSE Select(selectors[n], target, forced, now[n - 1])
    IN  now[Len(selectors)]

\* Chain.Remove takes out the first selector with the name.
RemoveNamed(selectors, name) ==
    LET at == {n \in DOMAIN selectors : selectors[n].name = name}
    IN  IF at = {} THEN selectors
        ELSE RemoveAt(selectors, CHOOSE n \in at : \A m \in at : n <= m)

-----------------------------------------------------------------------------
(***************************************************************************)
(* FastestBalancer.Select                                                  *)
(***************************************************************************)
\* The orders sort.Slice, which is not stable, may leave.
Sorted(list) ==
    {t \in [DOMAIN list -> ToSet(list)] :
        /\ \A m, n \in DOMAIN t : m < n => t[m].latency <= t[n].latency
        /\ IsInjective(t)}

\* Mutant: looks at the disabled ones too.
PickAny(t, retryTimes) == IF t # <<>> /\ retryTimes > 0 THEN t[1] ELSE None

\* The first enabled one of those it looks at.
Pick(t, retryTimes) ==
    LET on == {n \in DOMAIN t : n <= retryTimes /\ t[n].enabled}
    IN  IF on = {} THEN None ELSE t[CHOOSE n \in on : \A m \in on : n <= m]

Fastest(list, retryTimes) == {Pick(t, retryTimes) : t \in Sorted(list)}

-----------------------------------------------------------------------------
(***************************************************************************)
(* Properties                                                              *)
(***************************************************************************)
\* Whether a router, on its own, accepts an instance, given the configurations
\* the groups were last given with success.
Accepts(r, configs, wanted, i) ==
    CASE r.kind = "default" ->
            \/ wanted = None
            \/ wanted \in DOMAIN configs /\ Match(CreateMatcher(configs[wanted]), i)
      [] r.kind = "tag" -> HasValue(i, r.key, r.value)
      [] r.kind = "weight" -> HeavyEnough(r, i)
      [] r.kind = "version" -> i.version = r.version

\* router.go:79-96 and group.go:62-85: a chain of routers keeps exactly the
\* instances all of them accept, in their order, so that the order of the routers
\* does not matter; a group answers for the configuration its last successful
\* UpdateConfig gave it, an update that fails (group.go:173-196) having no effect.
RoutesAreFilters(routers, config, update, wanted, list) ==
    LET g == UpdateConfig(NewGroup(config), update)
        now == IF CreateMatcher(update) = None THEN config ELSE update
        groups == [n \in {"canary"} |-> g]
    IN  /\ RouteChain(routers, groups, wanted, list) =
              Keep(list, {i \in ToSet(list) : \A n \in DOMAIN routers :
                            Accepts(routers[n], [c \in {"canary"} |-> now], wanted, i)})
        /\ g.config = now

\* selector/group.go:91-127: an A/B selector gives a call one group only, the forced
\* one if it is there, and finds an instance whenever A or B has one; a chain
\* (chain.go:33-51) gives what its selectors leave, and Remove (chain.go:59-67)
\* takes one selector's influence away.
ABServes(s, selectors, target, forced, list) ==
    LET chosen == SelectChain(selectors \o <<s>>, target, forced, list)
        before == SelectChain(selectors, target, forced, list)
        forcedHere == forced # None /\ OfGroup(forced, before) # <<>>
    IN  /\ \A i \in ToSet(chosen) :
              GroupOf(i) \in (IF forcedHere THEN {forced} ELSE {s.a, s.b})
        /\ \A i, j \in ToSet(chosen) : GroupOf(i) = GroupOf(j)
        /\ chosen = <<>> <=> /\ ~forcedHere
                             /\ OfGroup(s.a, before) = <<>> /\ OfGroup(s.b, before) = <<>>
        /\ SelectChain(RemoveNamed(selectors \o <<s>>, s.name), target, forced, list) = before

\* fastest.go:59-83: the instance chosen is enabled and no enabled one is faster,
\* whatever the order of the list and of equal latencies; none is chosen only if
\* the retryTimes fastest are all disabled.
FastestIsBest(list, retryTimes) ==
    \A i \in Fastest(list, retryTimes) :
        IF i = None
        THEN LET on == {j \in ToSet(list) : j.enabled}
             IN  \A j \in on : Cardinality({k \in ToSet(list) \ on : k.latency <= j.latency})
                                 >= retryTimes
        ELSE i.enabled /\ \A j \in ToSet(list) : j.enabled => i.latency <= j.latency

=============================================================================

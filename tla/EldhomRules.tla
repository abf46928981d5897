----------------------------- MODULE EldhomRules -----------------------------
(* The rules of Eldhom that read and write the actor store: targeting         *)
(* (TargetingFilter), movement, doors, damage and monster steps               *)
(* (EldhomRuleAdapter), formations (EldhomFormationAdapter) and the outcome   *)
(* of the mission (MissionEventSystem).  A faction is the set of its actors.  *)
EXTENDS Integers, Sequences, FiniteSets

CONSTANTS
  Heroes, Monsters, Groups, Locations,
  Adjacent,     \* [Locations -> SUBSET Locations], as the mission is loaded
  Zone,         \* [Locations -> zone]: the location's name without its digits
  MaxHp,        \* [Heroes \cup Monsters -> hit points]
  Squad,        \* [Groups -> Seq(Monsters)], the instances of each group in order
  TimeLimits,   \* the thresholds of its TIME_LIMIT defeats
  LastStand,    \* is ALL_PG_KO a defeat of the mission?
  Elimination,  \* is ALL_MONSTERS_ELIMINATED a victory of it?
  Exits         \* set of [at, laden]: its PG_REACHED_EXIT victories, with the treasure or not

Actors == Heroes \cup Monsters
Members(g) == {Squad[g][i] : i \in 1..Len(Squad[g])}

\* The actor store takes no id twice, and an instance has one group.
ASSUME SquadAssumption ==
  /\ Heroes \cap Monsters = {} /\ Heroes \cap Groups = {}
  /\ \A g \in Groups : Squad[g] \in Seq(Monsters)
  /\ \A m \in Monsters : \E g \in Groups : m \in Members(g)
  /\ \A g, k \in Groups : Members(g) \cap Members(k) # {} => g = k
  /\ MaxHp \in [Actors -> Int]

NoLocation == "nowhere"
GroupOf(m) == CHOOSE g \in Groups : m \in Members(g)
Least(S) == CHOOSE x \in S : \A y \in S : x <= y

-----------------------------------------------------------------------------
(* Targeting.  A knocked-out hero stays on the board and stays a target: only *)
(* the dead are passed over.                                                  *)

Present(st, l, side) == {a \in side : st.area[a] = l /\ st.life[a] # "DEAD"}

\* Projection: a frontline covers the backline behind it.
ValidTargets(st, l, side) ==
  LET front == {a \in Present(st, l, side) : st.line[a] = "FRONT"}
  IN  IF front # {} THEN front ELSE Present(st, l, side)

\* nearest_target: of the exposed, one with the fewest hit points.
NearestTargets(st, l, side) ==
  {a \in ValidTargets(st, l, side) : \A b \in ValidTargets(st, l, side) : st.hp[a] <= st.hp[b]}

\* The locations at most n hops from l.
Ball(adj, l, n) ==
  LET ball[k \in 0..n] == IF k = 0 THEN {l} ELSE ball[k - 1] \cup UNION {adj[x] : x \in ball[k - 1]}
  IN  ball[n]

TargetsInRange(st, adj, l, side, range) ==
  UNION {ValidTargets(st, x, side) : x \in Ball(adj, l, range)}

\* find_nearest_target: hop by hop outward, the first ring that holds a target.
FindNearest(st, adj, l, side, range) ==
  LET hops == {n \in 0..range : TargetsInRange(st, adj, l, side, n) # {}}
  IN  IF hops = {} THEN {}
      ELSE UNION {NearestTargets(st, x, side) : x \in Ball(adj, l, Least(hops))}

-----------------------------------------------------------------------------
(* Movement.  The border between two zones is a door, closed until a hero     *)
(* walks through it.                                                          *)

Doors(path) == {{path[i], path[i + 1]} : i \in {j \in 1..Len(path) - 1 : Zone[path[j]] # Zone[path[j + 1]]}}

\* apply_card_move: a shortest path of at most `steps`, around enemies if asked.
Routes(st, adj, from, to, steps, avoid) ==
  LET paths(n) == {p \in [1..n + 1 -> Locations] :
                     /\ p[1] = from /\ p[n + 1] = to
                     /\ \A i \in 1..n : p[i + 1] \in adj[p[i]]
                     /\ avoid => \A i \in 2..n : Present(st, p[i], Monsters) = {}}
      lengths == {n \in 1..steps : from # to /\ paths(n) # {}}
  IN  IF lengths = {} THEN {} ELSE paths(Least(lengths))

\* apply_simple_move: one step, or none at all.
Steps(adj, from, to) ==
  IF to = from THEN {<<from>>} ELSE IF to \in adj[from] THEN {<<from, to>>} ELSE {}

-----------------------------------------------------------------------------
(* Damage and death. *)

Harm(st, t, n) ==
  LET hp == IF n < st.hp[t] THEN st.hp[t] - n ELSE 0
  IN  [st EXCEPT !.hp[t] = hp,
                 !.life[t] = IF hp > 0 THEN @ ELSE IF t \in Heroes THEN "KO" ELSE "DEAD"]

\* Mutant: the group is looked at before its member is taken out.
BuryLate(st, m) ==
  LET g == GroupOf(m)
      rest == st.members[g] \ {m}
  IN  [st EXCEPT !.members[g] = rest, !.gone = IF st.members[g] = {} THEN @ \cup {g} ELSE @]

\* handle_monster_instance_death.
Bury(st, m) ==
  LET g == GroupOf(m)
      rest == st.members[g] \ {m}
  IN  [st EXCEPT !.members[g] = rest, !.gone = IF rest = {} THEN @ \cup {g} ELSE @]

Strike(st, t, n) == LET hit == Harm(st, t, n) IN IF hit.hp[t] = 0 THEN Bury(hit, t) ELSE hit

Heal(st, h, n) == [st EXCEPT !.hp[h] = IF @ + n < MaxHp[h] THEN @ + n ELSE MaxHp[h]]

(* apply_behavior_step: the store after monster m's step, and whether it was  *)
(* resolved.  Of several targets or ways the code takes the first it meets.   *)
BehaviorStep(st, adj, doors, step, m) ==
  LET here == st.area[m]
      ways == {l \in adj[here] : /\ Zone[here] = Zone[l] \/ {here, l} \in doors
                                 /\ Present(st, l, Heroes) # {}}
      done(s) == [store |-> s, ok |-> TRUE]
      failed == {[store |-> st, ok |-> FALSE]}
  IN  CASE step.kind = "DAMAGE" ->
             LET ts == NearestTargets(st, here, Heroes)
             IN  IF ts = {} THEN failed ELSE {done(Harm(st, t, step.amount)) : t \in ts}
        [] step.kind = "MOVE" ->
             IF Present(st, here, Heroes) # {} THEN {done(st)}
             ELSE IF ways = {} THEN failed
             ELSE {done([st EXCEPT !.area[m] = l]) : l \in ways}
        [] step.kind = "WAIT" -> {done(st)}
        [] OTHER -> failed

-----------------------------------------------------------------------------
(* Formations: a faction's backline may not outnumber its frontline. *)

Broken(st, l, side) ==
  LET back == {a \in Present(st, l, side) : st.line[a] = "BACK"}
  IN  2 * Cardinality(back) > Cardinality(Present(st, l, side))

Dialog(st, l, side) == [at |-> l, side |-> side, actors |-> Present(st, l, side)]

\* check_formation: the dialogs it queues, the heroes' before the monsters'.
Dialogs(st, l) ==
  (IF Broken(st, l, Heroes) THEN <<Dialog(st, l, Heroes)>> ELSE <<>>)
    \o (IF Broken(st, l, Monsters) THEN <<Dialog(st, l, Monsters)>> ELSE <<>>)

\* The queue q without the monsters' dialogs at l.
WithoutMonsters(q, l) ==
  LET kept[k \in 0..Len(q)] ==
        IF k = 0 THEN <<>>
        ELSE IF q[k].side = Monsters /\ q[k].at = l THEN kept[k - 1] ELSE Append(kept[k - 1], q[k])
  IN  kept[Len(q)]

-----------------------------------------------------------------------------
(* The outcome of the mission; it is decided once, by the conditions its file *)
(* lists: a mission need not have any of them.                                *)

Decide(ms, cond, o) == IF ms.outcome = "PLAYING" /\ cond THEN [ms EXCEPT !.outcome = o] ELSE ms

\* advance_time.
Elapse(ms, delta) ==
  LET now == ms.clock + delta
  IN  IF ms.outcome # "PLAYING" \/ delta <= 0 THEN ms
      ELSE Decide([ms EXCEPT !.clock = now], \E t \in TimeLimits : now >= t, "DEFEAT")

\* notify_group_eliminated, notify_pg_ko and notify_pg_moved.
Eliminated(ms, st) == Decide(ms, Elimination /\ st.gone = Groups, "VICTORY")
HeroDown(ms, st) == Decide(ms, LastStand /\ \A h \in Heroes : st.life[h] # "ACTIVE", "DEFEAT")
Arrived(ms, l, laden) == Decide(ms, \E e \in Exits : l = e.at /\ (e.laden => laden), "VICTORY")
=============================================================================

---------------------------- MODULE DungeonProofs ----------------------------
(* The safety of DungeonEngine for every dungeon: the limit of actions, the   *)
(* defence window, who is removed from the roster, and the agreement of the   *)
(* roster with the map.  The two threads need no lock for any of this: the    *)
(* main thread changes neither the party nor the window.                      *)
EXTENDS DungeonEngine, TLAPS

(* The party is made of whole records, so that an update of one field leaves  *)
(* the others alone.                                                          *)
IsActor(x) ==
    x = [hero |-> x.hero, hp |-> x.hp, max |-> x.max, attack |-> x.attack,
         defense |-> x.defense, room |-> x.room, tags |-> x.tags,
         statuses |-> x.statuses]

IsParty(p) ==
    /\ p = [roster |-> p.roster, at |-> p.at, charges |-> p.charges]
    /\ p.roster = [a \in DOMAIN p.roster |-> p.roster[a]]
    /\ p.at = [a \in DOMAIN p.at |-> p.at[a]]
    /\ \A a \in DOMAIN p.roster : IsActor(p.roster[a])

(* What every operation keeps of the party of dungeon d.                      *)
Sound(p, d) ==
    /\ IsParty(p)
    /\ DOMAIN p.roster \subseteq DOMAIN d.actors
    /\ DOMAIN p.roster \subseteq DOMAIN p.at
    /\ \A a \in DOMAIN p.roster :
         LET x == p.roster[a]
         IN  /\ x.hero = d.actors[a].hero /\ x.hero \in BOOLEAN
             /\ x.max = d.actors[a].max /\ x.max \in Nat /\ x.hp \in 0..x.max
             /\ x.attack \in Int /\ x.defense \in Int
             /\ p.at[a] = Placed(d, x.room)
    /\ \A a \in DOMAIN d.actors : d.actors[a].hero => a \in DOMAIN p.roster

(* A monster stands, or the file gave it no hit points.                       *)
Standing(p, d, a) == p.roster[a].hero \/ p.roster[a].hp > 0 \/ d.actors[a].hp = 0

PartyInv ==
    Sound(party, dungeon) /\ \A a \in DOMAIN party.roster : Standing(party, dungeon, a)

WindowInv == attack # NoAttack => attack.damage \in Int

(* While a game starts there is no window.                                    *)
StartingInv == starting # "no" => attack = NoAttack

IInv ==
    /\ PartyInv /\ WindowInv /\ StartingInv /\ WindowAnswerable
    /\ actions \in Nat /\ ActionsWithinLimit

-----------------------------------------------------------------------------
(* Max and Min of two numbers. *)

LEMMA MaxOfTwo ==
    ASSUME NEW x \in Int, NEW y \in Int
    PROVE  Max({x, y}) \in {x, y} /\ Max({x, y}) >= x /\ Max({x, y}) >= y
<1>1. \E m \in {x, y} : \A z \in {x, y} : m >= z
  <2>1. CASE x >= y
    BY <2>1
  <2>2. CASE ~(x >= y)
    BY <2>2
  <2> QED BY <2>1, <2>2
<1> QED BY <1>1 DEF Max

LEMMA MinOfTwo ==
    ASSUME NEW x \in Int, NEW y \in Int
    PROVE  Min({x, y}) \in {x, y} /\ Min({x, y}) <= x /\ Min({x, y}) <= y
<1>1. \E m \in {x, y} : \A z \in {x, y} : m <= z
  <2>1. CASE x <= y
    BY <2>1
  <2>2. CASE ~(x <= y)
    BY <2>2
  <2> QED BY <2>1, <2>2
<1> QED BY <1>1 DEF Min

-----------------------------------------------------------------------------
(* The operations on a party. *)

(* A freshly loaded party is sound.                                           *)
LEMMA LoadedSound ==
    ASSUME NEW d \in Maps
    PROVE  Sound(Loaded(d), d) /\ \A a \in DOMAIN Loaded(d).roster : Standing(Loaded(d), d, a)
<1>1. /\ Loaded(d).roster = d.actors
      /\ Loaded(d).at = [a \in DOMAIN d.actors |-> Placed(d, d.actors[a].room)]
      /\ Loaded(d) = [roster |-> Loaded(d).roster, at |-> Loaded(d).at,
                      charges |-> Loaded(d).charges]
  BY DEF Loaded
<1>2. IsParty(Loaded(d))
  <2>1. Loaded(d).at = [a \in DOMAIN Loaded(d).at |-> Loaded(d).at[a]]
    BY <1>1
  <2>2. /\ Loaded(d).roster = [a \in DOMAIN Loaded(d).roster |-> Loaded(d).roster[a]]
        /\ \A a \in DOMAIN Loaded(d).roster : IsActor(Loaded(d).roster[a])
    BY <1>1, MapsAssumption DEF IsActor
  <2> QED BY <1>1, <2>1, <2>2 DEF IsParty
<1> DEFINE q == Loaded(d)
<1> HIDE DEF q
<1>3. \A a \in DOMAIN d.actors :
        LET x == q.roster[a]
        IN  /\ x.hero = d.actors[a].hero /\ x.hero \in BOOLEAN
            /\ x.max = d.actors[a].max /\ x.max \in Nat /\ x.hp \in 0..x.max
            /\ x.attack \in Int /\ x.defense \in Int
            /\ q.at[a] = Placed(d, x.room)
            /\ x = d.actors[a]
  <2> SUFFICES ASSUME NEW a \in DOMAIN d.actors
               PROVE  LET x == d.actors[a]
                      IN  /\ x.hero \in BOOLEAN
                          /\ x.max \in Nat /\ x.hp \in 0..x.max
                          /\ x.attack \in Int /\ x.defense \in Int
    BY <1>1 DEF q
  <2> QED
    <3>1. /\ d.actors[a].hero \in BOOLEAN
          /\ d.actors[a].max \in Nat /\ d.actors[a].hp \in 0..d.actors[a].max
          /\ d.actors[a].attack \in Nat /\ d.actors[a].defense \in Nat
      BY MapsAssumption
    <3>2. Nat \subseteq Int
      OBVIOUS
    <3> QED BY <3>1, <3>2, Zenon
<1>4. DOMAIN q.roster = DOMAIN d.actors /\ DOMAIN q.at = DOMAIN d.actors
  BY <1>1 DEF q
<1>5. Sound(q, d)
  BY <1>2, <1>3, <1>4 DEF Sound, q
<1>6. \A a \in DOMAIN q.roster : Standing(q, d, a)
  <2> SUFFICES ASSUME NEW a \in DOMAIN q.roster PROVE Standing(q, d, a)
    OBVIOUS
  <2>1. /\ q.roster[a] = d.actors[a]
        /\ q.roster[a].max \in Nat /\ q.roster[a].hp \in 0..q.roster[a].max
    BY <1>3, <1>4
  <2> QED BY <2>1 DEF Standing
<1> QED BY <1>5, <1>6 DEF q

(* Another state of one actor, who stays where he is and what he is.          *)
LEMMA ActorSound ==
    ASSUME NEW p, NEW d, Sound(p, d), NEW a \in DOMAIN p.roster,
           NEW x, IsActor(x), x.hero = p.roster[a].hero, x.room = p.roster[a].room,
           x.max = p.roster[a].max, x.hp \in 0..x.max,
           x.attack = p.roster[a].attack, x.defense = p.roster[a].defense
    PROVE  LET q == [p EXCEPT !.roster[a] = x]
           IN  /\ Sound(q, d)
               /\ DOMAIN q.roster = DOMAIN p.roster
               /\ q.roster[a] = x
               /\ \A b \in DOMAIN p.roster \ {a} : q.roster[b] = p.roster[b]
<1> DEFINE q == [p EXCEPT !.roster[a] = x]
<1>1. q = [roster |-> [p.roster EXCEPT ![a] = x], at |-> p.at, charges |-> p.charges]
  BY DEF Sound, IsParty
<1>2. /\ q = [roster |-> q.roster, at |-> q.at, charges |-> q.charges]
      /\ q.roster = [p.roster EXCEPT ![a] = x] /\ q.at = p.at
  BY <1>1
<1>3. /\ DOMAIN q.roster = DOMAIN p.roster
      /\ q.roster[a] = x
      /\ \A b \in DOMAIN p.roster \ {a} : q.roster[b] = p.roster[b]
  BY <1>2 DEF Sound, IsParty
<1> HIDE DEF q
<1>4. IsParty(q)
  BY <1>2, <1>3 DEF Sound, IsParty
<1>5. Sound(q, d)
  BY <1>2, <1>3, <1>4 DEF Sound
<1> QED BY <1>3, <1>5 DEF q

(* A hero who moves is elsewhere on both sides, and nothing else changes.     *)
LEMMA MovedSound ==
    ASSUME NEW p, NEW d, Sound(p, d), NEW h \in DOMAIN p.roster, NEW to \in d.rooms
    PROVE  LET q == Moved(p, h, to)
           IN  /\ Sound(q, d)
               /\ DOMAIN q.roster = DOMAIN p.roster
               /\ \A a \in DOMAIN p.roster : q.roster[a].hp = p.roster[a].hp
<1> DEFINE q == Moved(p, h, to)
           x == [p.roster[h] EXCEPT !.room = to]
<1>1. q = [roster |-> [p.roster EXCEPT ![h] = x], at |-> [p.at EXCEPT ![h] = to],
           charges |-> p.charges]
  <2>1. [p EXCEPT !.at[h] = to] = [roster |-> p.roster, at |-> [p.at EXCEPT ![h] = to],
                                   charges |-> p.charges]
    BY DEF Sound, IsParty
  <2>2. \A r, t, c : r = [a \in DOMAIN r |-> r[a]] /\ h \in DOMAIN r =>
          [[roster |-> r, at |-> t, charges |-> c] EXCEPT !.roster[h].room = to]
            = [roster |-> [r EXCEPT ![h] = [r[h] EXCEPT !.room = to]], at |-> t, charges |-> c]
    OBVIOUS
  <2>3. p.roster = [a \in DOMAIN p.roster |-> p.roster[a]]
    BY DEF Sound, IsParty
  <2>4. Moved(p, h, to) = [[p EXCEPT !.at[h] = to] EXCEPT !.roster[h].room = to]
    BY DEF Moved
  <2> QED BY <2>1, <2>2, <2>3, <2>4
<1>2. /\ q = [roster |-> q.roster, at |-> q.at, charges |-> q.charges]
      /\ q.roster = [p.roster EXCEPT ![h] = x] /\ q.at = [p.at EXCEPT ![h] = to]
  BY <1>1
<1>3. /\ IsActor(x) /\ x.room = to
      /\ x.hero = p.roster[h].hero /\ x.hp = p.roster[h].hp /\ x.max = p.roster[h].max
      /\ x.attack = p.roster[h].attack /\ x.defense = p.roster[h].defense
  BY DEF Sound, IsParty, IsActor
<1> HIDE DEF x
<1>4. /\ DOMAIN q.roster = DOMAIN p.roster /\ DOMAIN q.at = DOMAIN p.at
      /\ q.roster[h] = x /\ q.at[h] = Placed(d, to)
      /\ \A a \in DOMAIN p.roster \ {h} : q.roster[a] = p.roster[a] /\ q.at[a] = p.at[a]
  BY <1>2 DEF Sound, IsParty, Placed
<1> HIDE DEF q
<1>5. IsParty(q)
  BY <1>2, <1>3, <1>4 DEF Sound, IsParty
<1>6. Sound(q, d)
  BY <1>3, <1>4, <1>5 DEF Sound
<1>7. \A a \in DOMAIN p.roster : q.roster[a].hp = p.roster[a].hp
  BY <1>3, <1>4
<1> QED BY <1>4, <1>6, <1>7 DEF q

(* Other tags or statuses of one actor.                                       *)
LEMMA TagsSound ==
    ASSUME NEW p, NEW d, Sound(p, d), NEW a \in DOMAIN p.roster, NEW tags
    PROVE  LET q == [p EXCEPT !.roster[a].tags = tags]
           IN  /\ Sound(q, d)
               /\ DOMAIN q.roster = DOMAIN p.roster
               /\ \A b \in DOMAIN p.roster : q.roster[b].hp = p.roster[b].hp
<1> DEFINE x == [p.roster[a] EXCEPT !.tags = tags]
<1>1. [p EXCEPT !.roster[a].tags = tags] = [p EXCEPT !.roster[a] = x]
  BY DEF Sound, IsParty
<1>2. /\ IsActor(x) /\ x.hero = p.roster[a].hero /\ x.room = p.roster[a].room
      /\ x.max = p.roster[a].max /\ x.hp = p.roster[a].hp
      /\ x.attack = p.roster[a].attack /\ x.defense = p.roster[a].defense
  BY DEF Sound, IsParty, IsActor
<1>3. x.hp \in 0..x.max
  BY <1>2 DEF Sound
<1> HIDE DEF x
<1> QED BY <1>1, <1>2, <1>3, ActorSound

LEMMA StatusesSound ==
    ASSUME NEW p, NEW d, Sound(p, d), NEW a \in DOMAIN p.roster, NEW statuses
    PROVE  LET q == [p EXCEPT !.roster[a].statuses = statuses]
           IN  /\ Sound(q, d)
               /\ DOMAIN q.roster = DOMAIN p.roster
               /\ \A b \in DOMAIN p.roster : q.roster[b].hp = p.roster[b].hp
<1> DEFINE x == [p.roster[a] EXCEPT !.statuses = statuses]
<1>1. [p EXCEPT !.roster[a].statuses = statuses] = [p EXCEPT !.roster[a] = x]
  BY DEF Sound, IsParty
<1>2. /\ IsActor(x) /\ x.hero = p.roster[a].hero /\ x.room = p.roster[a].room
      /\ x.max = p.roster[a].max /\ x.hp = p.roster[a].hp
      /\ x.attack = p.roster[a].attack /\ x.defense = p.roster[a].defense
  BY DEF Sound, IsParty, IsActor
<1>3. x.hp \in 0..x.max
  BY <1>2 DEF Sound
<1> HIDE DEF x
<1> QED BY <1>1, <1>2, <1>3, ActorSound

(* Other hit points of one actor.                                             *)
LEMMA HpSound ==
    ASSUME NEW p, NEW d, Sound(p, d), NEW a \in DOMAIN p.roster,
           NEW hp \in 0..p.roster[a].max
    PROVE  LET q == [p EXCEPT !.roster[a].hp = hp]
           IN  /\ Sound(q, d)
               /\ DOMAIN q.roster = DOMAIN p.roster
               /\ q.roster[a].hp = hp
               /\ \A b \in DOMAIN p.roster \ {a} : q.roster[b] = p.roster[b]
<1> DEFINE x == [p.roster[a] EXCEPT !.hp = hp]
<1>1. [p EXCEPT !.roster[a].hp = hp] = [p EXCEPT !.roster[a] = x]
  BY DEF Sound, IsParty
<1>2. /\ IsActor(x) /\ x.hero = p.roster[a].hero /\ x.room = p.roster[a].room
      /\ x.max = p.roster[a].max /\ x.hp = hp
      /\ x.attack = p.roster[a].attack /\ x.defense = p.roster[a].defense
  BY DEF Sound, IsParty, IsActor
<1> HIDE DEF x
<1> QED BY <1>1, <1>2, ActorSound

LEMMA HealedSound ==
    ASSUME NEW p, NEW d, Sound(p, d), NEW h \in DOMAIN p.roster, NEW t \in DOMAIN p.roster
    PROVE  LET q == Healed(p, h, t)
           IN  /\ Sound(q, d)
               /\ DOMAIN q.roster = DOMAIN p.roster
               /\ \A a \in DOMAIN p.roster : q.roster[a].hp >= p.roster[a].hp
<1> DEFINE hp == Min({p.roster[t].hp + HealAmount, p.roster[t].max})
           q == [p EXCEPT !.roster[t].hp = hp]
           r == [q EXCEPT !.roster[h].tags = q.roster[h].tags \ {Potion}]
<1>1. p.roster[t].hp \in 0..p.roster[t].max /\ p.roster[t].max \in Nat
  BY DEF Sound
<1>2. hp \in 0..p.roster[t].max /\ hp >= p.roster[t].hp
  <2> DEFINE more == p.roster[t].hp + HealAmount
  <2>1. more \in Int /\ more >= p.roster[t].hp
    BY <1>1 DEF HealAmount
  <2> HIDE DEF more
  <2>2. /\ Min({more, p.roster[t].max}) \in {more, p.roster[t].max}
        /\ Min({more, p.roster[t].max}) <= p.roster[t].max
    <3>1. more \in Int /\ p.roster[t].max \in Int
      BY <1>1, <2>1
    <3> QED BY <3>1, MinOfTwo, Zenon
  <2>3. hp = Min({more, p.roster[t].max})
    BY DEF more
  <2> HIDE DEF hp
  <2> QED BY <1>1, <2>1, <2>2, <2>3
<1>3. Healed(p, h, t) = r
  BY DEF Healed
<1> HIDE DEF hp
<1>4. /\ Sound(q, d)
      /\ DOMAIN q.roster = DOMAIN p.roster
      /\ q.roster[t].hp = hp
      /\ \A b \in DOMAIN p.roster \ {t} : q.roster[b] = p.roster[b]
  BY <1>2, HpSound
<1> HIDE DEF q
<1>5. /\ Sound(r, d)
      /\ DOMAIN r.roster = DOMAIN q.roster
      /\ \A b \in DOMAIN q.roster : r.roster[b].hp = q.roster[b].hp
  BY <1>4, TagsSound
<1> HIDE DEF r
<1>6. \A a \in DOMAIN p.roster : q.roster[a].hp >= p.roster[a].hp
  <2> SUFFICES ASSUME NEW a \in DOMAIN p.roster PROVE q.roster[a].hp >= p.roster[a].hp
    OBVIOUS
  <2>1. p.roster[a].hp \in Int
    BY DEF Sound
  <2> QED BY <2>1, <1>2, <1>4
<1> QED BY <1>3, <1>4, <1>5, <1>6

LEMMA BracedSound ==
    ASSUME NEW p, NEW d, Sound(p, d), NEW t \in DOMAIN p.roster
    PROVE  LET q == Braced(p, t)
           IN  /\ Sound(q, d)
               /\ DOMAIN q.roster = DOMAIN p.roster
               /\ \A a \in DOMAIN p.roster : q.roster[a].hp = p.roster[a].hp
<1> DEFINE spent == [p EXCEPT !.roster[t].statuses = p.roster[t].statuses \ {Guarded}]
           used == [spent EXCEPT !.charges[t] = ChargesLeft(p, t)]
           q == [used EXCEPT !.roster[t].tags = used.roster[t].tags \ {Shield}]
<1>1. /\ Sound(spent, d)
      /\ DOMAIN spent.roster = DOMAIN p.roster
      /\ \A a \in DOMAIN p.roster : spent.roster[a].hp = p.roster[a].hp
  <2> DEFINE left == p.roster[t].statuses \ {Guarded}
             r == [p EXCEPT !.roster[t].statuses = left]
  <2>1. spent = r
    OBVIOUS
  <2> HIDE DEF left
  <2>2. /\ Sound(r, d)
        /\ DOMAIN r.roster = DOMAIN p.roster
        /\ \A a \in DOMAIN p.roster : r.roster[a].hp = p.roster[a].hp
    BY StatusesSound
  <2> HIDE DEF spent, r
  <2> QED BY <2>1, <2>2
<1>2. Braced(p, t) \in {spent, used, q}
  BY DEF Braced
<1> HIDE DEF spent
<1>3. /\ used = [roster |-> spent.roster, at |-> spent.at, charges |-> used.charges]
      /\ used.roster = spent.roster /\ used.at = spent.at
  BY <1>1 DEF Sound, IsParty
<1> HIDE DEF used
<1>4. Sound(used, d)
  BY <1>1, <1>3 DEF Sound, IsParty
<1>5. /\ Sound(q, d)
      /\ DOMAIN q.roster = DOMAIN used.roster
      /\ \A a \in DOMAIN used.roster : q.roster[a].hp = used.roster[a].hp
  <2>1. t \in DOMAIN used.roster
    BY <1>1, <1>3
  <2> DEFINE left == used.roster[t].tags \ {Shield}
             r == [used EXCEPT !.roster[t].tags = left]
  <2>2. q = r
    OBVIOUS
  <2> HIDE DEF left
  <2>3. /\ Sound(r, d)
        /\ DOMAIN r.roster = DOMAIN used.roster
        /\ \A a \in DOMAIN used.roster : r.roster[a].hp = used.roster[a].hp
    BY <2>1, <1>4, TagsSound
  <2> HIDE DEF q, r
  <2> QED BY <2>2, <2>3
<1> HIDE DEF q
<1> QED BY <1>1, <1>2, <1>3, <1>4, <1>5

LEMMA StruckSound ==
    ASSUME NEW p, NEW d, Sound(p, d), NEW t \in DOMAIN p.roster,
           NEW base \in Int, NEW defence \in Defences
    PROVE  LET q == Struck(p, t, base, defence)
           IN  /\ Sound(q, d)
               /\ DOMAIN q.roster = DOMAIN p.roster
               /\ \A a \in DOMAIN p.roster \ {t} : q.roster[a].hp = p.roster[a].hp
<1> DEFINE braced == IF defence.kind = "reduce" THEN Braced(p, t) ELSE p
           hp == Max({0, p.roster[t].hp - Damage(p, t, base, defence)})
           q == [braced EXCEPT !.roster[t].hp = hp]
<1>1. /\ Sound(braced, d)
      /\ DOMAIN braced.roster = DOMAIN p.roster
      /\ \A a \in DOMAIN p.roster : braced.roster[a].hp = p.roster[a].hp
  BY BracedSound
<1>2. Reduction(p, t, defence) \in Int
  <2> DEFINE defense == Max({0, p.roster[t].defense})
             block == Max({0, defence.block})
  <2>1. defence.block \in Int /\ p.roster[t].defense \in Int
    <3>1. defence.block \in {0} \cup Blocks
      <4>1. \/ defence \in [kind : {"pass", "cancel"}, block : {0}]
            \/ defence \in [kind : {"reduce"}, block : Blocks]
        BY Zenon DEF Defences
      <4>2. CASE defence \in [kind : {"pass", "cancel"}, block : {0}]
        BY <4>2
      <4>3. CASE defence \in [kind : {"reduce"}, block : Blocks]
        BY <4>3
      <4> QED BY <4>1, <4>2, <4>3, Zenon
    <3>2. \A b \in {0} \cup Blocks : b \in Int
      BY NumbersAssumption
    <3>3. p.roster[t].defense \in Int
      BY DEF Sound
    <3> QED BY <3>1, <3>2, <3>3
  <2>2. /\ defense \in {0, p.roster[t].defense} /\ block \in {0, defence.block}
    BY <2>1, MaxOfTwo, 0 \in Int, Zenon
  <2> HIDE DEF defense, block
  <2>3. defense \in Int /\ block \in Int
    BY <2>1, <2>2
  <2>4. /\ (IF Guarded \in p.roster[t].statuses THEN GuardReduction ELSE 0) \in Int
        /\ (IF Shield \in p.roster[t].tags THEN ShieldReduction ELSE 0) \in Int
    BY DEF GuardReduction, ShieldReduction
  <2>5. Reduction(p, t, defence)
          \in {0, defense + block + (IF Guarded \in p.roster[t].statuses THEN GuardReduction ELSE 0)
                  + (IF Shield \in p.roster[t].tags THEN ShieldReduction ELSE 0)}
    BY DEF Reduction, defense, block
  <2> QED BY <2>3, <2>4, <2>5
<1>3. Damage(p, t, base, defence) \in Int /\ Damage(p, t, base, defence) >= 0
  <2>1. base - Reduction(p, t, defence) \in Int
    BY <1>2
  <2>2. /\ Max({0, base - Reduction(p, t, defence)}) >= 0
        /\ Max({0, base - Reduction(p, t, defence)}) \in {0, base - Reduction(p, t, defence)}
    BY <2>1, MaxOfTwo, 0 \in Int, Zenon
  <2>3. Max({0, base - Reduction(p, t, defence)}) \in Int
    BY <2>1, <2>2
  <2> QED BY <2>2, <2>3 DEF Damage
<1>4. p.roster[t].hp \in 0..p.roster[t].max /\ p.roster[t].max \in Nat
  BY DEF Sound
<1>5. hp \in 0..p.roster[t].max
  <2>1. p.roster[t].hp - Damage(p, t, base, defence) \in Int
    BY <1>3, <1>4
  <2>2. hp \in {0, p.roster[t].hp - Damage(p, t, base, defence)} /\ hp >= 0
    BY <2>1, MaxOfTwo, 0 \in Int, Zenon
  <2> HIDE DEF hp
  <2> QED BY <2>1, <2>2, <1>3, <1>4
<1>6. Struck(p, t, base, defence) = q
  BY DEF Struck
<1>7. braced.roster[t].max = p.roster[t].max
  BY <1>1 DEF Sound
<1> HIDE DEF hp, braced
<1>8. /\ Sound(q, d)
      /\ DOMAIN q.roster = DOMAIN braced.roster
      /\ \A b \in DOMAIN braced.roster \ {t} : q.roster[b] = braced.roster[b]
  BY <1>1, <1>5, <1>7, HpSound
<1> HIDE DEF q
<1> QED BY <1>1, <1>6, <1>8

(* The removal of whoever has fallen leaves heroes and standing monsters.     *)
LEMMA FallenSound ==
    ASSUME NEW p, NEW d, Sound(p, d), NEW t \in DOMAIN p.roster,
           \A a \in DOMAIN p.roster \ {t} : Standing(p, d, a)
    PROVE  LET q == Fallen(p, t)
           IN  Sound(q, d) /\ \A a \in DOMAIN q.roster : Standing(q, d, a)
<1>1. CASE p.roster[t].hp > 0 \/ p.roster[t].hero
  BY <1>1 DEF Fallen, Standing
<1>2. CASE ~(p.roster[t].hp > 0 \/ p.roster[t].hero)
  <2> DEFINE rest == [a \in DOMAIN p.roster \ {t} |-> p.roster[a]]
             q == [p EXCEPT !.roster = rest]
  <2>1. Fallen(p, t) = q
    BY <1>2, Zenon DEF Fallen
  <2>2. /\ q = [roster |-> q.roster, at |-> q.at, charges |-> q.charges]
        /\ q.roster = rest /\ q.at = p.at
    BY DEF Sound, IsParty
  <2>3. /\ DOMAIN q.roster = DOMAIN p.roster \ {t}
        /\ \A a \in DOMAIN q.roster : q.roster[a] = p.roster[a]
        /\ q.roster = [a \in DOMAIN q.roster |-> q.roster[a]]
    BY <2>2
  <2> HIDE DEF q, rest
  <2>4. IsParty(q)
    BY <2>2, <2>3 DEF Sound, IsParty
  <2>5. t \in DOMAIN d.actors /\ ~d.actors[t].hero
    BY <1>2 DEF Sound
  <2>6. Sound(q, d)
    BY <2>2, <2>3, <2>4, <2>5 DEF Sound
  <2>7. \A a \in DOMAIN q.roster : Standing(q, d, a)
    BY <2>3 DEF Standing
  <2> QED BY <2>1, <2>6, <2>7
<1> QED BY <1>1, <1>2

(* An operation that takes nobody's last hit point leaves everybody standing. *)
LEMMA StillStanding ==
    ASSUME NEW p, NEW q, NEW d, Sound(p, d), Sound(q, d),
           DOMAIN q.roster = DOMAIN p.roster,
           \A a \in DOMAIN p.roster : q.roster[a].hp >= p.roster[a].hp,
           \A a \in DOMAIN p.roster : Standing(p, d, a)
    PROVE  \A a \in DOMAIN q.roster : Standing(q, d, a)
<1> SUFFICES ASSUME NEW a \in DOMAIN q.roster PROVE Standing(q, d, a)
  OBVIOUS
<1>1. p.roster[a].hp \in Int /\ q.roster[a].hp \in Int /\ q.roster[a].hero = p.roster[a].hero
  BY DEF Sound
<1> QED BY <1>1 DEF Standing

-----------------------------------------------------------------------------
(* The steps. *)

(* Before the first game, and while a new one is loaded, there is nobody.     *)
LEMMA NothingSound ==
    Sound(Loaded(Nothing), Nothing)
      /\ \A a \in DOMAIN Loaded(Nothing).roster : Standing(Loaded(Nothing), Nothing, a)
<1> DEFINE q == Loaded(Nothing)
<1>1. /\ q.roster = [a \in {} |-> NoActor] /\ Nothing.actors = [a \in {} |-> NoActor]
      /\ q = [roster |-> q.roster, at |-> q.at, charges |-> q.charges]
      /\ q.at = [a \in {} |-> NoActor]
  BY DEF Loaded, Nothing
<1> HIDE DEF q
<1>2. Sound(q, Nothing) /\ DOMAIN q.roster = {}
  BY <1>1 DEF Sound, IsParty
<1> QED BY <1>2 DEF q

LEMMA InitInv == Init => IInv
<1> SUFFICES ASSUME Init PROVE IInv
  OBVIOUS
<1>1. PartyInv
  BY NothingSound DEF PartyInv, Init
<1> QED BY <1>1, NumbersAssumption DEF IInv, StartingInv, Init, WindowInv, WindowAnswerable, ActionsWithinLimit

(* An action of the turn: the window is closed and the count below the limit. *)
LEMMA ActedInv ==
    ASSUME IInv, ActionLeft, NEW q, Acted(q), Sound(q, dungeon),
           DOMAIN q.roster = DOMAIN party.roster,
           \A a \in DOMAIN party.roster : q.roster[a].hp >= party.roster[a].hp
    PROVE  IInv'
<1>1. PartyInv'
  <2>1. \A a \in DOMAIN q.roster : Standing(q, dungeon, a)
    BY StillStanding DEF IInv, PartyInv
  <2> QED BY <2>1 DEF Acted, PartyInv, Sound, Standing
<1>2. /\ attack' = NoAttack /\ actions' = actions + 1 /\ actions < MaxActionsPerTurn
      /\ actions \in Nat
  BY DEF Acted, ActionLeft, NoWindow, IInv
<1> QED BY <1>1, <1>2, NumbersAssumption DEF IInv, StartingInv, WindowInv, WindowAnswerable, ActionsWithinLimit

LEMMA NewGameInv ==
    ASSUME IInv, NewGame
    PROVE  IInv'
<1>1. PartyInv'
  BY NothingSound DEF NewGame, PartyInv
<1>2. attack' = NoAttack /\ actions' = actions
  BY DEF NewGame, ForgottenAttack
<1> QED BY <1>1, <1>2 DEF IInv, StartingInv, WindowInv, WindowAnswerable, ActionsWithinLimit

(* A file is loaded only after the window was forgotten.                      *)
LEMMA LoadInv ==
    ASSUME IInv, NEW file \in Maps, Load(file)
    PROVE  IInv'
<1>1. PartyInv'
  BY LoadedSound DEF Load, PartyInv
<1>2. attack = NoAttack /\ attack' = attack /\ actions' = actions /\ starting' \in {"loaded", "no"}
  BY DEF Load, IInv, StartingInv
<1> QED BY <1>1, <1>2 DEF IInv, StartingInv, WindowInv, WindowAnswerable, ActionsWithinLimit

LEMMA MoveInv ==
    ASSUME IInv, NEW h, NEW to, NEW reach, Move(h, to, reach)
    PROVE  IInv'
<1> DEFINE q == Moved(party, h, to)
<1>1. /\ h \in DOMAIN party.roster /\ to \in dungeon.rooms
      /\ ActionLeft /\ Acted(q) /\ Sound(party, dungeon)
  BY DEF Move, CanMove, IsHero, IInv, PartyInv
<1>2. /\ Sound(q, dungeon) /\ DOMAIN q.roster = DOMAIN party.roster
      /\ \A a \in DOMAIN party.roster : q.roster[a].hp = party.roster[a].hp
  BY <1>1, MovedSound
<1> HIDE DEF q
<1>3. \A a \in DOMAIN party.roster : q.roster[a].hp >= party.roster[a].hp
  BY <1>1, <1>2 DEF Sound
<1> QED BY <1>1, <1>2, <1>3, ActedInv

LEMMA HealInv ==
    ASSUME IInv, NEW h, NEW t, Heal(h, t)
    PROVE  IInv'
<1> DEFINE q == Healed(party, h, t)
<1>1. /\ {h, t} \subseteq DOMAIN party.roster /\ ActionLeft /\ Acted(q)
      /\ Sound(party, dungeon)
  BY DEF Heal, CanHeal, IsHero, IInv, PartyInv
<1>2. /\ Sound(q, dungeon) /\ DOMAIN q.roster = DOMAIN party.roster
      /\ \A a \in DOMAIN party.roster : q.roster[a].hp >= party.roster[a].hp
  BY <1>1, HealedSound
<1> HIDE DEF q
<1> QED BY <1>1, <1>2, ActedInv

LEMMA EquipInv ==
    ASSUME IInv, NEW h, NEW item, Equip(h, item)
    PROVE  IInv'
<1> DEFINE q == Equipped(party, h, item)
           tags == (party.roster[h].tags \ {item}) \cup {Weapon}
<1>1. h \in DOMAIN party.roster /\ ActionLeft /\ Acted(q) /\ Sound(party, dungeon)
  BY DEF Equip, CanEquip, IsHero, IInv, PartyInv
<1>2. q = [party EXCEPT !.roster[h].tags = tags]
  BY DEF Equipped
<1> HIDE DEF q, tags
<1>3. /\ Sound(q, dungeon) /\ DOMAIN q.roster = DOMAIN party.roster
      /\ \A a \in DOMAIN party.roster : q.roster[a].hp = party.roster[a].hp
  BY <1>1, <1>2, TagsSound
<1>4. \A a \in DOMAIN party.roster : q.roster[a].hp >= party.roster[a].hp
  BY <1>1, <1>3 DEF Sound
<1> QED BY <1>1, <1>3, <1>4, ActedInv

LEMMA AttackInv ==
    ASSUME IInv, NEW a, NEW t, NEW card \in CardDamages, Attack(a, t, card)
    PROVE  IInv'
<1>1. /\ attack' = [attacker |-> a, defender |-> t, damage |-> BaseDamage(party, a, card)]
      /\ party' = party /\ dungeon' = dungeon /\ actions' = actions
      /\ actions < MaxActionsPerTurn /\ starting' = "no"
      /\ CanAttack(party, dungeon, a, t)
  BY DEF Attack, ActionLeft, NoWindow, Ready
<1>2. PartyInv'
  BY <1>1 DEF IInv, PartyInv
<1>3. attack'.damage \in Int
  <2>1. party.roster[a].attack \in Int /\ card \in Int
    BY <1>1, NumbersAssumption DEF CanAttack, IInv, PartyInv, Sound
  <2> DEFINE sum == party.roster[a].attack + card
  <2>2. sum \in Int
    BY <2>1
  <2> HIDE DEF sum
  <2>3. Max({0, sum}) \in {0, sum}
    BY <2>2, MaxOfTwo, 0 \in Int, Zenon
  <2>4. attack'.damage = Max({0, sum})
    BY <1>1 DEF BaseDamage, sum
  <2> QED BY <2>2, <2>3, <2>4
<1>4. WindowAnswerable'
  BY <1>1 DEF WindowAnswerable, CanAttack
<1> QED BY <1>1, <1>2, <1>3, <1>4 DEF IInv, StartingInv, WindowInv, ActionsWithinLimit

LEMMA DefendInv ==
    ASSUME IInv, NEW defence \in Defences, Defend(defence)
    PROVE  IInv'
<1> DEFINE t == attack.defender
           q == Struck(party, t, attack.damage, defence)
<1>1. /\ t \in DOMAIN party.roster /\ attack.damage \in Int
      /\ actions \in Nat /\ actions < MaxActionsPerTurn
      /\ Sound(party, dungeon) /\ \A a \in DOMAIN party.roster : Standing(party, dungeon, a)
  BY DEF Defend, IInv, WindowAnswerable, WindowInv, ActionsWithinLimit, PartyInv
<1>2. /\ party' = Fallen(q, t) /\ dungeon' = dungeon
      /\ attack' = NoAttack /\ actions' = actions + 1
  BY DEF Defend
<1> HIDE DEF t
<1>3. /\ Sound(q, dungeon) /\ DOMAIN q.roster = DOMAIN party.roster
      /\ \A a \in DOMAIN party.roster \ {t} : q.roster[a].hp = party.roster[a].hp
  BY <1>1, StruckSound
<1> HIDE DEF q
<1>4. \A a \in DOMAIN q.roster \ {t} : Standing(q, dungeon, a)
  BY <1>1, <1>3 DEF Sound, Standing
<1>5. PartyInv'
  BY <1>1, <1>2, <1>3, <1>4, FallenSound DEF PartyInv
<1> QED BY <1>1, <1>2, <1>5, NumbersAssumption DEF IInv, StartingInv, WindowInv, WindowAnswerable, ActionsWithinLimit

(* Every other step leaves the party and the window alone; the count of       *)
(* actions stays or starts anew.                                              *)
LEMMA TurnInv ==
    ASSUME IInv, UNCHANGED <<dungeon, party, attack>>, actions' \in {0, actions},
           starting' = starting \/ starting # "no"
    PROVE  IInv'
BY NumbersAssumption DEF IInv, PartyInv, WindowInv, StartingInv, WindowAnswerable,
   ActionsWithinLimit

LEMMA NextInv == IInv /\ [Next]_vars => IInv'
<1> SUFFICES ASSUME IInv, [Next]_vars PROVE IInv'
  OBVIOUS
<1>1. ASSUME NewGame PROVE IInv'
  BY <1>1, NewGameInv
<1>2. ASSUME NEW a, NEW to, NEW reach, Move(a, to, reach) PROVE IInv'
  BY <1>2, MoveInv
<1>3. ASSUME NEW a, NEW item, Equip(a, item) PROVE IInv'
  BY <1>3, EquipInv
<1>4. ASSUME NEW a, NEW t, Heal(a, t) PROVE IInv'
  BY <1>4, HealInv
<1>5. ASSUME NEW a, NEW t, NEW card \in CardDamages, Attack(a, t, card) PROVE IInv'
  BY <1>5, AttackInv
<1>6. ASSUME NEW defence \in Defences, Defend(defence) PROVE IInv'
  BY <1>6, DefendInv
<1>7. ASSUME EndTurn PROVE IInv'
  BY <1>7, TurnInv DEF EndTurn
<1>8. ASSUME Booting PROVE IInv'
  <2>1. ASSUME NEW file \in Maps, Load(file) PROVE IInv'
    BY <2>1, LoadInv
  <2>2. ASSUME CloseSession \/ OpenSession \/ FirstTurn PROVE IInv'
    BY <2>2, TurnInv DEF CloseSession, OpenSession, FirstTurn
  <2> QED BY <1>8, <2>1, <2>2 DEF Booting
<1>9. ASSUME Main PROVE IInv'
  BY <1>9, TurnInv DEF Main, Choose, StartTurn, Announce, Skip
<1>10. ASSUME UNCHANGED vars PROVE IInv'
  BY <1>10, TurnInv DEF vars
<1>11. ASSUME Command PROVE IInv'
  BY <1>1, <1>2, <1>3, <1>4, <1>5, <1>6, <1>7, <1>11, Zenon DEF Command
<1> QED BY <1>8, <1>9, <1>10, <1>11 DEF Next

LEMMA Invariance == Spec => []IInv
BY InitInv, NextInv, PTL DEF Spec

(* No count of actions exceeds the limit, for any limit above zero, any       *)
(* dungeons and any interleaving of the two threads (handle_*, advance_turn). *)
THEOREM LimitHolds == Spec => []ActionsWithinLimit
BY Invariance, PTL DEF IInv

(* Whatever dungeons are loaded, an open window refers to two standing        *)
(* enemies of the current game (handle_attack, start_game).                   *)
THEOREM WindowsAreAnswerable == Spec => []WindowAnswerable
BY Invariance, PTL DEF IInv

(* Whatever files are loaded, heroes stay in the roster, and a monster stands *)
(* or leaves it unless its file gave it no hit points                         *)
(* (ActorRoster::remove_actor).                                               *)
THEOREM MonstersFallAlone == Spec => []OnlyMonstersFall
<1>1. IInv => OnlyMonstersFall
  BY DEF IInv, PartyInv, Sound, Standing, OnlyMonstersFall
<1> QED BY <1>1, Invariance, PTL

(* The roster and the map agree about the room of every actor in play, and    *)
(* the map has nobody in a room it does not know (DungeonMapLoader places the *)
(* actors, ActionV1::execute_move writes both).                               *)
THEOREM RosterAgreesWithMap == Spec => []RoomsAgree
<1>1. IInv => RoomsAgree
  BY DEF IInv, PartyInv, Sound, RoomsAgree
<1> QED BY <1>1, Invariance, PTL
=============================================================================

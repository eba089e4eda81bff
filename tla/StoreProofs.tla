----------------------------- MODULE StoreProofs -----------------------------
(***************************************************************************)
(* Lemmas about the repository methods of Store, whatever service calls    *)
(* them: the rows they write are rows of the table, and the config         *)
(* versions drawn for a bot are the numbers from 1 on.                     *)
(***************************************************************************)
EXTENDS Store, TLAPS

\* A call's outcome decides between the table it would leave and the old one.
LEMMA AfterIsEither ==
    ASSUME NEW o, NEW new, NEW old
    PROVE  After(o, new, old) = new \/ After(o, new, old) = old
BY DEF After

\* WithBot changes at most the row it is given, which has to exist.
LEMMA WithBotType ==
    ASSUME bots \in [Bots -> BotRows], NEW b, NEW row, b \in Bots => row \in BotRows
    PROVE  WithBot(b, row) \in [Bots -> BotRows]
BY DEF WithBot

\* The rows the bot repository writes are rows of the table.
LEMMA RowTypes ==
    ASSUME bots \in [Bots -> BotRows], NEW b
    PROVE  /\ \A s \in BotStatus : WithStatus(b, s) \in [Bots -> BotRows]
           /\ \A d \in Droplets \cup {NoDroplet} : WithDroplet(b, d) \in [Bots -> BotRows]
           /\ \A v, w \in Nat : WithConfigVersion(b, v, w) \in [Bots -> BotRows]
           /\ \A t \in Tokens : WithToken(b, t) \in [Bots -> BotRows]
           /\ Deleted(b) \in [Bots -> BotRows]
           /\ HardDeleted(b) \in [Bots -> BotRows]
           /\ \A a \in Accounts \cup {NoAccount} : Inserted(b, a) \in [Bots -> BotRows]
<1>1. \A s \in BotStatus : WithStatus(b, s) \in [Bots -> BotRows]
  BY WithBotType DEF WithStatus, BotRows
<1>2. \A d \in Droplets \cup {NoDroplet} : WithDroplet(b, d) \in [Bots -> BotRows]
  BY WithBotType DEF WithDroplet, BotRows
<1>3. \A v, w \in Nat : WithConfigVersion(b, v, w) \in [Bots -> BotRows]
  <2>1. SUFFICES ASSUME NEW v \in Nat, NEW w \in Nat
                 PROVE  WithConfigVersion(b, v, w) \in [Bots -> BotRows]
    OBVIOUS
  <2>2. b \in Bots => [bots[b] EXCEPT !.desired = v, !.applied = w] \in BotRows
    BY DEF BotRows
  <2> QED  BY <2>2, WithBotType DEF WithConfigVersion
<1>4. \A t \in Tokens : WithToken(b, t) \in [Bots -> BotRows]
  BY WithBotType DEF WithToken, BotRows
<1>5. NoBotRow \in BotRows
  BY DEF NoBotRow, BotRows, BotStatus
<1>6. HardDeleted(b) \in [Bots -> BotRows]
  BY <1>5 DEF HardDeleted
<1>7. \A a \in Accounts \cup {NoAccount} : Inserted(b, a) \in [Bots -> BotRows]
  BY <1>5 DEF Inserted, BotRows, BotStatus
<1> QED  BY <1>1, <1>2, <1>3, <1>4, <1>6, <1>7 DEF Deleted, BotStatus

\* MAX(version) of versions 1, ..., n is n.
LEMMA LatestIs ==
    ASSUME NEW b, NEW n \in Nat, configs[b] = 1 .. n
    PROVE  Latest(b) = n
<1>1. n \in configs[b] \cup {0} /\ \A w \in configs[b] : w <= n
  OBVIOUS
<1>2. ASSUME NEW v \in configs[b] \cup {0}, \A w \in configs[b] : w <= v
      PROVE  v = n
  <2>1. CASE n = 0
    BY <1>2, <2>1
  <2>2. CASE n # 0
    <3>1. n \in configs[b]
      BY <2>2
    <3>2. n <= v
      BY <1>2, <3>1
    <3> QED  BY <1>2, <3>2
  <2> QED  BY <2>1, <2>2
<1> QED  BY <1>1, <1>2 DEF Latest
=============================================================================

------------------------------- MODULE EventProofs -------------------------------
(***************************************************************************)
(* The events are enough to follow the pallet by, for all parameters.      *)
(***************************************************************************)
EXTENDS OwnershipProofs, RentEvents

--------------------------------------------------------------------------------
\* The observer sees the events one after the other

\* No step deposits more than five events.
LEMMA SeenInOrder ==
  ASSUME NEW known, NEW events, NEW size \in 0 .. 5, Len(events) = size
  PROVE  \E after :
             /\ after[0] = known
             /\ \A n \in 1 .. size : after[n] = Observe(after[n - 1], events[n])
             /\ ObserveAll(known, events) = after[size]
<1> DEFINE IsAfter(f) == f = [n \in 0 .. size |->
                                  IF n = 0 THEN known ELSE Observe(f[n - 1], events[n])]
           s1 == Observe(known, events[1])
           s2 == Observe(s1, events[2])
           s3 == Observe(s2, events[3])
           s4 == Observe(s3, events[4])
           s5 == Observe(s4, events[5])
           witness == [n \in 0 .. size |->
               IF n = 0 THEN known ELSE IF n = 1 THEN s1 ELSE IF n = 2 THEN s2
               ELSE IF n = 3 THEN s3 ELSE IF n = 4 THEN s4 ELSE s5]
           after == CHOOSE f : IsAfter(f)
<1>1. ASSUME NEW n \in 0 .. size
      PROVE  witness[n] = IF n = 0 THEN known ELSE Observe(witness[n - 1], events[n])
  <2>1. n = 0 \/ n = 1 \/ n = 2 \/ n = 3 \/ n = 4 \/ n = 5
    <3> HIDE DEF witness
    <3> QED
      OBVIOUS
  <2>2. \A i \in 0 .. size : witness[i] =
            IF i = 0 THEN known ELSE IF i = 1 THEN s1 ELSE IF i = 2 THEN s2
            ELSE IF i = 3 THEN s3 ELSE IF i = 4 THEN s4 ELSE s5
    OBVIOUS
  <2> HIDE DEF witness
  <2>3. CASE n = 0
    BY <2>2, <2>3
  <2>4. ASSUME n # 0
        PROVE  witness[n] = Observe(witness[n - 1], events[n])
    <3>1. n - 1 \in 0 .. size
      BY <2>4
    <3>2. CASE n = 1
      BY <2>2, <3>1, <3>2
    <3>3. CASE n = 2
      BY <2>2, <3>1, <3>3
    <3>4. CASE n = 3
      BY <2>2, <3>1, <3>4
    <3>5. CASE n = 4
      BY <2>2, <3>1, <3>5
    <3>6. CASE n = 5
      BY <2>2, <3>1, <3>6
    <3> QED
      BY <2>1, <2>4, <3>2, <3>3, <3>4, <3>5, <3>6
  <2> QED
    BY <2>3, <2>4
<1>2. IsAfter(witness)
  BY <1>1
<1>3. IsAfter(after)
  <2> HIDE DEF IsAfter, witness
  <2> QED
    BY <1>2
<1>4. ObserveAll(known, events) = after[size]
  BY Zenon DEF ObserveAll
<1> HIDE DEF after
<1>5. /\ after[0] = known
      /\ \A n \in 1 .. size : after[n] = Observe(after[n - 1], events[n])
  BY <1>3
<1> QED
  BY <1>4, <1>5

LEMMA SeenOnce ==
  ASSUME NEW known, NEW e
  PROVE  ObserveAll(known, <<e>>) = Observe(known, e)
<1>1. PICK events : events = <<e>>
  OBVIOUS
<1>2. Len(events) = 1 /\ events[1] = e
  BY <1>1
<1>3. PICK after : /\ after[0] = known
                   /\ \A n \in 1 .. 1 : after[n] = Observe(after[n - 1], events[n])
                   /\ ObserveAll(known, events) = after[1]
  <2>1. 1 \in 0 .. 5
    OBVIOUS
  <2> QED
    BY ONLY <1>2, <2>1, SeenInOrder
<1>4. after[1] = Observe(known, e)
  BY <1>2, <1>3
<1> QED
  BY <1>1, <1>3, <1>4

LEMMA SeenNothing ==
  ASSUME NEW known
  PROVE  ObserveAll(known, <<>>) = known
<1>1. PICK events : events = <<>>
  OBVIOUS
<1>2. Len(events) = 0 /\ 0 \in 0 .. 5
  BY <1>1
<1>3. PICK after : after[0] = known /\ ObserveAll(known, events) = after[0]
  BY ONLY <1>2, SeenInOrder
<1> QED
  BY <1>1, <1>3

LEMMA SeenTwo ==
  ASSUME NEW known, NEW e1, NEW e2
  PROVE  ObserveAll(known, <<e1, e2>>) = Observe(Observe(known, e1), e2)
<1>1. PICK events : events = <<e1, e2>>
  OBVIOUS
<1>2. Len(events) = 2 /\ 2 \in 0 .. 5
  BY <1>1
<1>3. PICK after : /\ after[0] = known
                   /\ \A n \in 1 .. 2 : after[n] = Observe(after[n - 1], events[n])
                   /\ ObserveAll(known, events) = after[2]
  BY ONLY <1>2, SeenInOrder
<1>4. events[1] = e1 /\ events[2] = e2
  BY <1>1
<1>5. after[1] = Observe(known, e1) /\ after[2] = Observe(after[1], e2)
  BY <1>3, <1>4
<1> QED
  BY <1>1, <1>3, <1>5

LEMMA SeenFive ==
  ASSUME NEW known, NEW e1, NEW e2, NEW e3, NEW e4, NEW e5
  PROVE  ObserveAll(known, <<e1, e2, e3, e4, e5>>) =
             Observe(Observe(Observe(Observe(Observe(known, e1), e2), e3), e4), e5)
<1>1. PICK events : events = <<e1, e2, e3, e4, e5>>
  OBVIOUS
<1>2. /\ Len(events) = 5
      /\ events[1] = e1 /\ events[2] = e2 /\ events[3] = e3
      /\ events[4] = e4 /\ events[5] = e5
  BY <1>1
<1>3. PICK after : /\ after[0] = known
                   /\ \A n \in 1 .. 5 : after[n] = Observe(after[n - 1], events[n])
                   /\ ObserveAll(known, events) = after[5]
  <2>1. 5 \in 0 .. 5
    OBVIOUS
  <2> QED
    BY ONLY <1>2, <2>1, SeenInOrder
<1>4. /\ after[1] = Observe(known, e1)
      /\ after[2] = Observe(after[1], e2)
      /\ after[3] = Observe(after[2], e3)
      /\ after[4] = Observe(after[3], e4)
      /\ after[5] = Observe(after[4], e5)
  BY <1>2, <1>3
<1> QED
  BY <1>1, <1>3, <1>4

--------------------------------------------------------------------------------
\* What one event tells

Knowledge ==
    [ lessee   : [CollectibleId -> AccountId \cup {None}],
      due      : [CollectibleId -> BlockNumber \cup {None}],
      equipped : [AccountId -> SUBSET CollectibleId],
      earned   : [AccountId -> Int] ]

\* The observer knows who rents what and until when, what is equipped and what
\* has been earned.
Knows(known, lessee, due, equipped, earned) ==
    /\ known \in Knowledge
    /\ known.lessee = lessee
    /\ known.due = due
    /\ known.equipped = equipped
    /\ known.earned = earned

LEMMA ObserveByType ==
  ASSUME NEW known, NEW e
  PROVE  /\ e.type = "RentPayed" => Observe(known, e) = LesseePaid(known, e)
         /\ e.type = "RentalPeriodAdded" =>
                Observe(known, e) = FallsDue(known, e.id, e.due)
         /\ e.type = "RentalPeriodRemoved" =>
                Observe(known, e) = FallsDue(known, e.id, None)
         /\ e.type = "RentalEnded" \/ e.type = "ErrorTransferingRent" =>
                Observe(known, e) = Vacated(known, e.id)
         /\ e.type = "CollectibleEquipped" => Observe(known, e) =
                HasEquipped(known, e.account, known.equipped[e.account] \cup {e.id})
         /\ e.type = "CollectibleUnequipped" => Observe(known, e) =
                HasEquipped(known, e.account, known.equipped[e.account] \ {e.id})
<1>1. ASSUME e.type = "RentPayed"
      PROVE  Observe(known, e) = LesseePaid(known, e)
  BY <1>1 DEF Observe
<1>2. ASSUME e.type = "RentalPeriodAdded"
      PROVE  Observe(known, e) = FallsDue(known, e.id, e.due)
  BY <1>2 DEF Observe
<1>3. ASSUME e.type = "RentalPeriodRemoved"
      PROVE  Observe(known, e) = FallsDue(known, e.id, None)
  BY <1>3 DEF Observe
<1>4. ASSUME e.type = "RentalEnded"
      PROVE  Observe(known, e) = Vacated(known, e.id)
  BY <1>4 DEF Observe
<1>5. ASSUME e.type = "ErrorTransferingRent"
      PROVE  Observe(known, e) = Vacated(known, e.id)
  BY <1>5 DEF Observe
<1>6. ASSUME e.type = "CollectibleEquipped"
      PROVE  Observe(known, e) =
                 HasEquipped(known, e.account, known.equipped[e.account] \cup {e.id})
  BY <1>6 DEF Observe
<1>7. ASSUME e.type = "CollectibleUnequipped"
      PROVE  Observe(known, e) =
                 HasEquipped(known, e.account, known.equipped[e.account] \ {e.id})
  BY <1>7 DEF Observe
<1> QED
  BY <1>1, <1>2, <1>3, <1>4, <1>5, <1>6, <1>7, Zenon

LEMMA ToldNothing ==
  ASSUME NEW known, NEW e,
         e.type \in {"CollectibleCreated", "RentMadeAvailable", "RentMadeUnavailable",
                     "RentalSetRecurring", "RentalExtended"}
  PROVE  Observe(known, e) = known
<1>1. /\ e.type # "RentPayed" /\ e.type # "RentalPeriodAdded"
      /\ e.type # "RentalPeriodRemoved"
      /\ e.type \notin {"RentalEnded", "ErrorTransferingRent"}
      /\ e.type # "CollectibleEquipped" /\ e.type # "CollectibleUnequipped"
  OBVIOUS
<1> QED
  BY <1>1 DEF Observe

LEMMA ToldPayment ==
  ASSUME NEW known \in Knowledge, NEW id \in CollectibleId, NEW price \in Nat,
         NEW lessor \in AccountId, NEW lessee \in AccountId, lessor # lessee
  PROVE  Knows(Observe(known, RentPayed(id, lessor, lessee, price)),
               [known.lessee EXCEPT ![id] = lessee], known.due, known.equipped,
               [known.earned EXCEPT ![lessor] = @ + price, ![lessee] = @ - price])
<1>1. PICK e : e = RentPayed(id, lessor, lessee, price)
  OBVIOUS
<1>2. /\ e.type = "RentPayed" /\ e.id = id
      /\ e.lessor = lessor /\ e.lessee = lessee /\ e.price = price
  BY <1>1 DEF RentPayed
<1>3. Observe(known, e) = LesseePaid(known, e)
  BY <1>2, ObserveByType, Zenon
<1>4. Knows(LesseePaid(known, e),
            [known.lessee EXCEPT ![id] = lessee], known.due, known.equipped,
            [known.earned EXCEPT ![lessor] = @ + price, ![lessee] = @ - price])
  <2>1. PICK k1 : k1 = [known EXCEPT !.lessee[id] = lessee]
    OBVIOUS
  <2>2. PICK k2 : k2 = [k1 EXCEPT !.earned[lessor] = @ + price]
    OBVIOUS
  <2>3. PICK k3 : k3 = [k2 EXCEPT !.earned[lessee] = @ - price]
    OBVIOUS
  <2>4. Knows(k1, [known.lessee EXCEPT ![id] = lessee], known.due, known.equipped,
              known.earned)
    BY <2>1 DEF Knows, Knowledge
  <2>5. Knows(k2, k1.lessee, k1.due, k1.equipped,
              [k1.earned EXCEPT ![lessor] = @ + price])
    BY <2>2, <2>4 DEF Knows, Knowledge
  <2>6. Knows(k3, k2.lessee, k2.due, k2.equipped,
              [k2.earned EXCEPT ![lessee] = @ - price])
    BY <2>3, <2>5 DEF Knows, Knowledge
  <2>7. LesseePaid(known, e) = k3
    <3>1. /\ k1.earned[lessor] = known.earned[lessor]
          /\ k2.earned[lessee] = known.earned[lessee]
      BY <2>4, <2>5 DEF Knows, Knowledge
    <3> QED
      BY <1>2, <2>1, <2>2, <2>3, <3>1 DEF LesseePaid
  <2>8. k3.earned = [known.earned EXCEPT ![lessor] = @ + price, ![lessee] = @ - price]
    BY <2>4, <2>5, <2>6 DEF Knows, Knowledge
  <2> QED
    BY <2>4, <2>5, <2>6, <2>7, <2>8 DEF Knows
<1> QED
  BY <1>1, <1>3, <1>4

LEMMA ToldDue ==
  ASSUME NEW known \in Knowledge, NEW id \in CollectibleId, NEW due \in BlockNumber
  PROVE  /\ Knows(Observe(known, RentalPeriodAdded(id, due)), known.lessee,
                   [known.due EXCEPT ![id] = due], known.equipped, known.earned)
         /\ Knows(Observe(known, RentalPeriodRemoved(id)), known.lessee,
                   [known.due EXCEPT ![id] = None], known.equipped, known.earned)
<1>1. ASSUME NEW b \in BlockNumber \cup {None}
      PROVE  Knows(FallsDue(known, id, b), known.lessee, [known.due EXCEPT ![id] = b],
                   known.equipped, known.earned)
  BY DEF FallsDue, Knows, Knowledge
<1>2. Observe(known, RentalPeriodAdded(id, due)) = FallsDue(known, id, due)
  <2>1. /\ RentalPeriodAdded(id, due).type = "RentalPeriodAdded"
        /\ RentalPeriodAdded(id, due).id = id
        /\ RentalPeriodAdded(id, due).due = due
    BY DEF RentalPeriodAdded
  <2> QED
    BY <2>1, ObserveByType
<1>3. Observe(known, RentalPeriodRemoved(id)) = FallsDue(known, id, None)
  <2>1. /\ RentalPeriodRemoved(id).type = "RentalPeriodRemoved"
        /\ RentalPeriodRemoved(id).id = id
    BY DEF RentalPeriodRemoved
  <2> QED
    BY <2>1, ObserveByType
<1> QED
  BY <1>1, <1>2, <1>3

\* The end of a rental, for whatever reason.
LEMMA ToldEnd ==
  ASSUME NEW known \in Knowledge, NEW id \in CollectibleId,
         NEW e, e.type = "RentalEnded" \/ e.type = "ErrorTransferingRent", e.id = id
  PROVE  Knows(Observe(known, e), [known.lessee EXCEPT ![id] = None],
               [known.due EXCEPT ![id] = None], known.equipped, known.earned)
<1>1. Observe(known, e) = Vacated(known, id)
  BY ObserveByType
<1>2. Knows(Vacated(known, id), [known.lessee EXCEPT ![id] = None],
            [known.due EXCEPT ![id] = None], known.equipped, known.earned)
  BY DEF Vacated, Knows, Knowledge
<1> QED
  BY <1>1, <1>2

LEMMA ToldEquipment ==
  ASSUME NEW known \in Knowledge, NEW id \in CollectibleId, NEW account \in AccountId
  PROVE  /\ Knows(Observe(known, CollectibleEquipped(account, id)), known.lessee, known.due,
                   [known.equipped EXCEPT ![account] = @ \cup {id}], known.earned)
         /\ Knows(Observe(known, CollectibleUnequipped(account, id)), known.lessee, known.due,
                   [known.equipped EXCEPT ![account] = @ \ {id}], known.earned)
<1>1. ASSUME NEW ids \in SUBSET CollectibleId
      PROVE  Knows(HasEquipped(known, account, ids), known.lessee, known.due,
                   [known.equipped EXCEPT ![account] = ids], known.earned)
  BY DEF HasEquipped, Knows, Knowledge
<1>2. known.equipped[account] \in SUBSET CollectibleId
  BY DEF Knowledge
<1>3. Observe(known, CollectibleEquipped(account, id)) =
          HasEquipped(known, account, known.equipped[account] \cup {id})
  <2>1. /\ CollectibleEquipped(account, id).type = "CollectibleEquipped"
        /\ CollectibleEquipped(account, id).id = id
        /\ CollectibleEquipped(account, id).account = account
    BY DEF CollectibleEquipped
  <2> QED
    BY <2>1, ObserveByType
<1>4. Observe(known, CollectibleUnequipped(account, id)) =
          HasEquipped(known, account, known.equipped[account] \ {id})
  <2>1. /\ CollectibleUnequipped(account, id).type = "CollectibleUnequipped"
        /\ CollectibleUnequipped(account, id).id = id
        /\ CollectibleUnequipped(account, id).account = account
    BY DEF CollectibleUnequipped
  <2> QED
    BY <2>1, ObserveByType
<1> QED
  BY <1>1, <1>2, <1>3, <1>4

--------------------------------------------------------------------------------
\* What the events of one step tell

LEMMA OneThenOne ==
  ASSUME NEW e1, NEW e2
  PROVE  /\ <<e1>> \o <<e2>> = <<e1, e2>>
         /\ <<>> \o <<e2>> = <<e2>>
<1>1. PICK S, s, t, u : S = {e1, e2} /\ s = <<e1>> /\ t = <<e2>> /\ u = <<e1, e2>>
  OBVIOUS
<1>2. /\ s \in Seq(S) /\ t \in Seq(S) /\ u \in Seq(S)
      /\ Len(s) = 1 /\ Len(t) = 1 /\ Len(u) = 2
      /\ s[1] = e1 /\ t[1] = e2 /\ u[1] = e1 /\ u[2] = e2
  BY <1>1
<1>3. /\ s \o t \in Seq(S)
      /\ Len(s \o t) = 2
      /\ (s \o t)[1] = e1 /\ (s \o t)[2] = e2
  BY <1>2, ConcatProperties
<1>4. s \o t = u
  BY <1>2, <1>3, SeqEqual
<1>5. <<>> \o <<e2>> = <<e2>>
  OBVIOUS
<1> QED
  BY <1>1, <1>4, <1>5

LEMMA ToldUnequip ==
  ASSUME NEW known \in Knowledge, NEW account \in AccountId, NEW id \in CollectibleId,
         known.equipped[account] = Range(AccountEquips[account]), NEW e
  PROVE  \E next :
             /\ Knows(next, known.lessee, known.due,
                      [known.equipped EXCEPT ![account] = @ \ {id}], known.earned)
             /\ ObserveAll(known, UnequipEvents(account, id)) = next
             /\ ObserveAll(known, UnequipEvents(account, id) \o <<e>>) = Observe(next, e)
<1>1. CASE id \in Range(AccountEquips[account])
  <2>1. PICK u : u = CollectibleUnequipped(account, id)
    OBVIOUS
  <2>2. UnequipEvents(account, id) = <<u>>
    BY <1>1, <2>1 DEF UnequipEvents
  <2>3. <<u>> \o <<e>> = <<u, e>>
    BY OneThenOne
  <2>4. /\ ObserveAll(known, <<u>>) = Observe(known, u)
        /\ ObserveAll(known, <<u, e>>) = Observe(Observe(known, u), e)
    BY SeenOnce, SeenTwo
  <2>5. Knows(Observe(known, u), known.lessee, known.due,
              [known.equipped EXCEPT ![account] = @ \ {id}], known.earned)
    BY <2>1, ToldEquipment
  <2>6. PICK next : next = Observe(known, u)
    OBVIOUS
  <2> QED
    BY <2>2, <2>3, <2>4, <2>5, <2>6
<1>2. CASE id \notin Range(AccountEquips[account])
  <2>1. UnequipEvents(account, id) = <<>>
    BY <1>2 DEF UnequipEvents
  <2>2. <<>> \o <<e>> = <<e>>
    OBVIOUS
  <2>3. /\ ObserveAll(known, <<>>) = known
        /\ ObserveAll(known, <<e>>) = Observe(known, e)
    BY SeenNothing, SeenOnce
  <2>4. [known.equipped EXCEPT ![account] = @ \ {id}] = known.equipped
    BY <1>2 DEF Knowledge
  <2>5. Knows(known, known.lessee, known.due,
              [known.equipped EXCEPT ![account] = @ \ {id}], known.earned)
    BY <2>4 DEF Knows
  <2> QED
    BY <2>1, <2>2, <2>3, <2>5
<1> QED
  BY <1>1, <1>2

\* Rent, extension and renewal come to the same for the observer.
Charged(known, next, id, lessor, lessee, price, due) ==
    Knows(next,
          [known.lessee EXCEPT ![id] = lessee], [known.due EXCEPT ![id] = due],
          known.equipped,
          [known.earned EXCEPT ![lessor] = @ + price, ![lessee] = @ - price])

LEMMA ToldRent ==
  ASSUME NEW known \in Knowledge, NEW id \in CollectibleId, NEW price \in Nat,
         NEW lessor \in AccountId, NEW lessee \in AccountId, lessor # lessee,
         NEW due \in BlockNumber,
         lessor = Collectibles[id].lessor,
         due = LesseeCollectibles'[lessee][id].next_rent_block
  PROVE  Charged(known, ObserveAll(known, PaymentEvents(lessee, id, price)),
                 id, lessor, lessee, price, due)
<1>1. PICK e1, e2 : e1 = RentPayed(id, lessor, lessee, price) /\ e2 = RentalPeriodAdded(id, due)
  OBVIOUS
<1>2. PaymentEvents(lessee, id, price) = <<e1, e2>>
  BY <1>1 DEF PaymentEvents
<1>3. PICK k1, k2 : k1 = Observe(known, e1) /\ k2 = Observe(k1, e2)
  OBVIOUS
<1>4. ObserveAll(known, <<e1, e2>>) = k2
  BY <1>3, SeenTwo
<1>5. Knows(k1, [known.lessee EXCEPT ![id] = lessee], known.due, known.equipped,
            [known.earned EXCEPT ![lessor] = @ + price, ![lessee] = @ - price])
  BY ONLY <1>1, <1>3, ToldPayment, price \in Nat, known \in Knowledge, lessor # lessee,
     lessor \in AccountId, lessee \in AccountId, id \in CollectibleId
<1>6. Knows(k2, k1.lessee, [k1.due EXCEPT ![id] = due], k1.equipped, k1.earned)
  <2>1. k1 \in Knowledge
    BY <1>5 DEF Knows
  <2> QED
    BY <1>1, <1>3, <2>1, ToldDue
<1> QED
  BY <1>2, <1>4, <1>5, <1>6 DEF Charged, Knows

LEMMA ToldExtension ==
  ASSUME NEW known \in Knowledge, NEW id \in CollectibleId,
         NEW lessor \in AccountId, NEW lessee \in AccountId, lessor # lessee,
         NEW due \in BlockNumber, NEW blocks, ExtensionPrice(id, blocks) \in Nat,
         lessor = Collectibles[id].lessor,
         due = LesseeCollectibles'[lessee][id].next_rent_block
  PROVE  Charged(known, ObserveAll(known, ExtensionEvents(lessee, id, blocks)),
                 id, lessor, lessee, ExtensionPrice(id, blocks), due)
<1>1. PICK price \in Nat : price = ExtensionPrice(id, blocks)
  OBVIOUS
<1>2. PICK e1, e2, e3, e4 :
          /\ e1 = RentPayed(id, lessor, lessee, price)
          /\ e2 = RentalPeriodRemoved(id)
          /\ e3 = RentalPeriodAdded(id, due)
          /\ e4 = RentalExtended(id)
  OBVIOUS
<1>3. ExtensionEvents(lessee, id, blocks) = <<e1, e2, e3, e4, e3>>
  BY <1>1, <1>2 DEF ExtensionEvents
<1>4. PICK k1, k2, k3, k4 : /\ k1 = Observe(known, e1) /\ k2 = Observe(k1, e2)
                            /\ k3 = Observe(k2, e3) /\ k4 = Observe(k3, e3)
  OBVIOUS
<1>5. /\ k1 \in Knowledge
      /\ Knows(k1, [known.lessee EXCEPT ![id] = lessee], known.due, known.equipped,
               [known.earned EXCEPT ![lessor] = @ + price, ![lessee] = @ - price])
  <2>1. Knows(k1, [known.lessee EXCEPT ![id] = lessee], known.due, known.equipped,
              [known.earned EXCEPT ![lessor] = @ + price, ![lessee] = @ - price])
    BY ONLY <1>2, <1>4, ToldPayment, price \in Nat, known \in Knowledge, lessor # lessee,
       lessor \in AccountId, lessee \in AccountId, id \in CollectibleId
  <2> QED
    BY <2>1 DEF Knows
<1>6. /\ k2 \in Knowledge
      /\ Knows(k2, k1.lessee, [k1.due EXCEPT ![id] = None], k1.equipped, k1.earned)
  <2>1. Knows(k2, k1.lessee, [k1.due EXCEPT ![id] = None], k1.equipped, k1.earned)
    BY <1>2, <1>4, <1>5, ToldDue
  <2> QED
    BY <2>1 DEF Knows
<1>7. /\ k3 \in Knowledge
      /\ Knows(k3, k2.lessee, [k2.due EXCEPT ![id] = due], k2.equipped, k2.earned)
  <2>1. Knows(k3, k2.lessee, [k2.due EXCEPT ![id] = due], k2.equipped, k2.earned)
    BY <1>2, <1>4, <1>6, ToldDue
  <2> QED
    BY <2>1 DEF Knows
<1>8. Observe(k3, e4) = k3
  <2>1. e4.type = "RentalExtended"
    BY <1>2 DEF RentalExtended
  <2> QED
    BY <2>1, ToldNothing
<1>9. Knows(k4, k3.lessee, [k3.due EXCEPT ![id] = due], k3.equipped, k3.earned)
  BY <1>2, <1>4, <1>7, ToldDue
<1>10. k4.due = [known.due EXCEPT ![id] = due]
  BY <1>5, <1>6, <1>7, <1>9 DEF Knowledge, Knows
<1>11. ObserveAll(known, <<e1, e2, e3, e4, e3>>) = k4
  BY <1>4, <1>8, SeenFive
<1> QED
  BY <1>1, <1>3, <1>5, <1>6, <1>7, <1>9, <1>10, <1>11 DEF Charged, Knows

--------------------------------------------------------------------------------
\* What the observer knows is true

\* The inductive invariant: what the observer knows, and that the storage maps it
\* is compared with agree among themselves.
EventInv ==
    /\ RentalInv
    /\ observer \in Knowledge
    /\ RentalsFollowFromEvents
    /\ EquipmentFollowsFromEvents
    /\ RevenueFollowsFromEvents

\* What RentalsFollowFromEvents says of one collectible.
RentalTold(id) ==
    /\ observer.lessee[id] = IF Rented(id) THEN Collectibles[id].lessee ELSE None
    /\ observer.due[id] = IF Rented(id) THEN Lease(id).next_rent_block ELSE None

\* A collectible is rented when some account has a rental of it.
RentedIsLeased ==
    \A id \in CollectibleId :
        /\ \A a \in AccountId : LesseeCollectibles[a][id] # None =>
               /\ Rented(id)
               /\ Collectibles[id].lessee = a
               /\ Lease(id) = LesseeCollectibles[a][id]
        /\ Rented(id) => \E a \in AccountId : LesseeCollectibles[a][id] # None

LEMMA RentedNow == RentalInv => RentedIsLeased
<1> SUFFICES ASSUME RentalInv, NEW id \in CollectibleId
             PROVE  /\ \A a \in AccountId : LesseeCollectibles[a][id] # None =>
                           /\ Rented(id)
                           /\ Collectibles[id].lessee = a
                           /\ Lease(id) = LesseeCollectibles[a][id]
                    /\ Rented(id) => \E a \in AccountId : LesseeCollectibles[a][id] # None
  BY DEF RentedIsLeased
<1>1. ASSUME NEW a \in AccountId, LesseeCollectibles[a][id] # None
      PROVE  /\ Rented(id)
             /\ Collectibles[id].lessee = a
             /\ Lease(id) = LesseeCollectibles[a][id]
  BY <1>1, NoneAssumption DEF RentalInv, RentalsHaveOneLessee, Rented, Lease
<1>2. ASSUME Rented(id)
      PROVE  \E a \in AccountId : LesseeCollectibles[a][id] # None
  <2>1. Collectibles[id] \in Collectible /\ Collectibles[id].lessee # None
    BY <1>2 DEF RentalInv, TypeOK, Rented, Exists
  <2>2. Collectibles[id].lessee \in AccountId
    BY <2>1 DEF Collectible
  <2> QED
    BY <1>2, <2>2 DEF Rented, RentalInv, RentalsHaveOneLessee
<1> QED
  BY <1>1, <1>2

LEMMA RentedNext == RentalInv' => RentedIsLeased'
  BY RentedNow, PTL

\* The rental of i by a is, or is not, there as before, and due as before.
DueAsBefore(a, i) ==
    /\ LesseeCollectibles'[a][i] = None <=> LesseeCollectibles[a][i] = None
    /\ LesseeCollectibles[a][i] # None =>
           LesseeCollectibles'[a][i].next_rent_block = LesseeCollectibles[a][i].next_rent_block

LEMMA StillTold ==
  ASSUME RentalInv, RentalInv', NEW i \in CollectibleId, RentalTold(i),
         \A a \in AccountId : DueAsBefore(a, i),
         observer'.lessee[i] = observer.lessee[i],
         observer'.due[i] = observer.due[i]
  PROVE  RentalTold(i)'
<1>1. CASE \E a \in AccountId : LesseeCollectibles[a][i] # None
  <2>1. PICK a \in AccountId : LesseeCollectibles[a][i] # None
    BY <1>1
  <2>2. LesseeCollectibles'[a][i] # None
    BY <2>1 DEF DueAsBefore
  <2>3. Rented(i) /\ Collectibles[i].lessee = a /\ Lease(i) = LesseeCollectibles[a][i]
    BY <2>1, RentedNow DEF RentedIsLeased
  <2>4. Rented(i)' /\ Collectibles'[i].lessee = a /\ Lease(i)' = LesseeCollectibles'[a][i]
    BY <2>2, RentedNext DEF RentedIsLeased
  <2>5. LesseeCollectibles'[a][i].next_rent_block = LesseeCollectibles[a][i].next_rent_block
    BY <2>1 DEF DueAsBefore
  <2> QED
    BY <2>3, <2>4, <2>5 DEF RentalTold
<1>2. CASE \A a \in AccountId : LesseeCollectibles[a][i] = None
  <2>1. ~Rented(i)
    BY <1>2, RentedNow DEF RentedIsLeased
  <2>2. ~Rented(i)'
    BY <1>2, RentedNext DEF RentedIsLeased, DueAsBefore
  <2> QED
    BY <2>1, <2>2 DEF RentalTold
<1> QED
  BY <1>1, <1>2

LEMMA ToldAgain ==
  ASSUME RentalInv', NEW i \in CollectibleId, NEW a \in AccountId,
         LesseeCollectibles'[a][i] # None,
         observer'.lessee[i] = a,
         observer'.due[i] = LesseeCollectibles'[a][i].next_rent_block
  PROVE  RentalTold(i)'
<1>1. Rented(i)' /\ Collectibles'[i].lessee = a /\ Lease(i)' = LesseeCollectibles'[a][i]
  BY RentedNext DEF RentedIsLeased
<1> QED
  BY <1>1 DEF RentalTold

LEMMA ToldOver ==
  ASSUME RentalInv', NEW i \in CollectibleId,
         \A a \in AccountId : LesseeCollectibles'[a][i] = None,
         observer'.lessee[i] = None, observer'.due[i] = None
  PROVE  RentalTold(i)'
<1>1. ~Rented(i)'
  BY RentedNext DEF RentedIsLeased
<1> QED
  BY <1>1 DEF RentalTold

--------------------------------------------------------------------------------
\* Three kinds of step

\* Nothing happens to the rentals and the balances.
LEMMA QuietStep ==
  ASSUME EventInv, RentalInv', observer' \in Knowledge,
         \A a \in AccountId, i \in CollectibleId : DueAsBefore(a, i),
         observer'.lessee = observer.lessee, observer'.due = observer.due,
         observer'.earned = observer.earned, UNCHANGED free_balance,
         \A a \in AccountId : observer'.equipped[a] = Range(AccountEquips'[a])
  PROVE  EventInv'
<1>1. RentalsFollowFromEvents'
  <2>1. ASSUME NEW i \in CollectibleId PROVE RentalTold(i)'
    <3>1. RentalTold(i)
      BY DEF EventInv, RentalsFollowFromEvents, RentalTold
    <3> QED
      BY <3>1, StillTold DEF EventInv
  <2> QED
    BY <2>1 DEF RentalsFollowFromEvents, RentalTold
<1>2. EquipmentFollowsFromEvents' /\ RevenueFollowsFromEvents'
  BY DEF EventInv, EquipmentFollowsFromEvents, RevenueFollowsFromEvents
<1> QED
  BY <1>1, <1>2 DEF EventInv

\* A lessee pays, for a rental that is due in another block from now on.
LEMMA ChargedStep ==
  ASSUME EventInv, RentalInv', NEW id \in CollectibleId, NEW price \in Nat,
         NEW lessor \in AccountId, NEW lessee \in AccountId, lessor # lessee,
         NEW due \in BlockNumber,
         Charged(observer, observer', id, lessor, lessee, price, due),
         LesseeCollectibles'[lessee][id] # None,
         due = LesseeCollectibles'[lessee][id].next_rent_block,
         OthersKept(lessee, id),
         UNCHANGED AccountEquips, free_balance' = AfterTransfer(lessee, lessor, price)
  PROVE  EventInv'
<1>1. /\ observer \in Knowledge /\ observer' \in Knowledge
      /\ observer'.lessee = [observer.lessee EXCEPT ![id] = lessee]
      /\ observer'.due = [observer.due EXCEPT ![id] = due]
      /\ observer'.equipped = observer.equipped
      /\ observer'.earned =
             [observer.earned EXCEPT ![lessor] = @ + price, ![lessee] = @ - price]
  BY DEF EventInv, Charged, Knows
<1>2. /\ observer.lessee \in [CollectibleId -> AccountId \cup {None}]
      /\ observer.due \in [CollectibleId -> BlockNumber \cup {None}]
      /\ observer.earned \in [AccountId -> Int]
  BY <1>1 DEF Knowledge
<1>3. RentalsFollowFromEvents'
  <2>1. ASSUME NEW i \in CollectibleId PROVE RentalTold(i)'
    <3>1. CASE i = id
      <4>1. observer'.lessee[id] = lessee /\ observer'.due[id] = due
        BY <1>1, <1>2
      <4> QED
        BY <3>1, <4>1, ToldAgain
    <3>2. CASE i # id
      <4>1. RentalTold(i)
        BY DEF EventInv, RentalsFollowFromEvents, RentalTold
      <4>2. \A a \in AccountId : DueAsBefore(a, i)
        BY <3>2 DEF OthersKept, DueAsBefore
      <4>3. observer'.lessee[i] = observer.lessee[i] /\ observer'.due[i] = observer.due[i]
        BY <1>1, <1>2, <3>2
      <4> QED
        BY <4>1, <4>2, <4>3, StillTold DEF EventInv
    <3> QED
      BY <3>1, <3>2
  <2> QED
    BY <2>1 DEF RentalsFollowFromEvents, RentalTold
<1>4. EquipmentFollowsFromEvents'
  BY <1>1 DEF EventInv, EquipmentFollowsFromEvents
<1>5. RevenueFollowsFromEvents'
  <2> SUFFICES ASSUME NEW a \in AccountId
               PROVE  free_balance'[a] = Endowment + observer'.earned[a]
    BY DEF RevenueFollowsFromEvents
  <2>1. /\ free_balance \in [AccountId -> Nat] /\ Endowment \in Nat
        /\ free_balance[a] = Endowment + observer.earned[a]
    BY SizesAssumption DEF EventInv, RentalInv, TypeOK, RevenueFollowsFromEvents
  <2>2. free_balance'[a] = IF a = lessee THEN free_balance[a] - price
                           ELSE IF a = lessor THEN free_balance[a] + price
                           ELSE free_balance[a]
    BY <2>1 DEF AfterTransfer
  <2>3. observer'.earned[a] = IF a = lessee THEN observer.earned[a] - price
                              ELSE IF a = lessor THEN observer.earned[a] + price
                              ELSE observer.earned[a]
    BY <1>1, <1>2
  <2>4. observer.earned[a] \in Int
    BY <1>2
  <2> QED
    BY <2>1, <2>2, <2>3, <2>4
<1> QED
  BY <1>1, <1>3, <1>4, <1>5 DEF EventInv

\* A rental ends, and what its lessee had equipped goes with it.
LEMMA EndedStep ==
  ASSUME EventInv, RentalInv', observer' \in Knowledge,
         NEW id \in CollectibleId, NEW lessee \in AccountId,
         LesseeCollectibles[lessee][id] # None,
         LesseeCollectibles'[lessee][id] = None, OthersKept(lessee, id),
         observer'.lessee = [observer.lessee EXCEPT ![id] = None],
         observer'.due = [observer.due EXCEPT ![id] = None],
         observer'.earned = observer.earned, UNCHANGED free_balance,
         \A a \in AccountId : observer'.equipped[a] = Range(AccountEquips'[a])
  PROVE  EventInv'
<1>1. /\ observer.lessee \in [CollectibleId -> AccountId \cup {None}]
      /\ observer.due \in [CollectibleId -> BlockNumber \cup {None}]
  BY DEF EventInv, Knowledge
<1>2. \A a \in AccountId : LesseeCollectibles'[a][id] = None
  BY NoOtherLessee DEF EventInv, OthersKept
<1>3. RentalsFollowFromEvents'
  <2>1. ASSUME NEW i \in CollectibleId PROVE RentalTold(i)'
    <3>1. CASE i = id
      <4>1. observer'.lessee[id] = None /\ observer'.due[id] = None
        BY <1>1
      <4> QED
        BY <1>2, <3>1, <4>1, ToldOver
    <3>2. CASE i # id
      <4>1. RentalTold(i)
        BY DEF EventInv, RentalsFollowFromEvents, RentalTold
      <4>2. \A a \in AccountId : DueAsBefore(a, i)
        BY <3>2 DEF OthersKept, DueAsBefore
      <4>3. observer'.lessee[i] = observer.lessee[i] /\ observer'.due[i] = observer.due[i]
        BY <1>1, <3>2
      <4> QED
        BY <4>1, <4>2, <4>3, StillTold DEF EventInv
    <3> QED
      BY <3>1, <3>2
  <2> QED
    BY <2>1 DEF RentalsFollowFromEvents, RentalTold
<1>4. EquipmentFollowsFromEvents' /\ RevenueFollowsFromEvents'
  BY DEF EventInv, EquipmentFollowsFromEvents, RevenueFollowsFromEvents
<1> QED
  BY <1>3, <1>4 DEF EventInv

--------------------------------------------------------------------------------
\* The steps

\* A step after which the observer knows what it knew before.
LEMMA UntoldKeeps ==
  ASSUME EventInv, RentalInv', observer' = observer,
         \A a \in AccountId, i \in CollectibleId : DueAsBefore(a, i),
         UNCHANGED << AccountEquips, free_balance >>
  PROVE  EventInv'
<1>1. \A a \in AccountId : observer'.equipped[a] = Range(AccountEquips'[a])
  BY DEF EventInv, EquipmentFollowsFromEvents
<1> QED
  BY <1>1, QuietStep DEF EventInv

\* A step that deposits nothing that the observer reads.
LEMMA SilentKeeps ==
  ASSUME EventInv, RentalInv', NEW e,
         e.type \in {"CollectibleCreated", "RentMadeAvailable", "RentMadeUnavailable",
                     "RentalSetRecurring", "RentalExtended"},
         Deposit(<<e>>),
         \A a \in AccountId, i \in CollectibleId : DueAsBefore(a, i),
         UNCHANGED << AccountEquips, free_balance >>
  PROVE  EventInv'
<1>1. observer' = observer
  BY SeenOnce, ToldNothing DEF Deposit
<1> QED
  BY <1>1, UntoldKeeps

\* Nothing happens to the rentals.
LEMMA RentalsAsBefore ==
  ASSUME UNCHANGED LesseeCollectibles
  PROVE  \A a \in AccountId, i \in CollectibleId : DueAsBefore(a, i)
  BY DEF DueAsBefore

LEMMA SilentTypes ==
  ASSUME NEW id
  PROVE  /\ CollectibleCreated(id).type = "CollectibleCreated"
         /\ RentMadeAvailable(id).type = "RentMadeAvailable"
         /\ RentMadeUnavailable(id).type = "RentMadeUnavailable"
         /\ RentalSetRecurring(id).type = "RentalSetRecurring"
         /\ RentalEnded(id).type = "RentalEnded" /\ RentalEnded(id).id = id
         /\ ErrorTransferingRent(id).type = "ErrorTransferingRent"
         /\ ErrorTransferingRent(id).id = id
  BY DEF CollectibleCreated, RentMadeAvailable, RentMadeUnavailable,
         RentalSetRecurring, RentalEnded, ErrorTransferingRent

\* What is unequipped is told, and the observer is left with next.
LEMMA UnequipTold ==
  ASSUME EventInv, NEW account \in AccountId, NEW id \in CollectibleId, NEW e,
         AccountEquips' = Unequip(account, id)
  PROVE  \E next \in Knowledge :
             /\ next.lessee = observer.lessee
             /\ next.due = observer.due
             /\ next.earned = observer.earned
             /\ \A a \in AccountId : next.equipped[a] = Range(AccountEquips'[a])
             /\ ObserveAll(observer, UnequipEvents(account, id)) = next
             /\ ObserveAll(observer, UnequipEvents(account, id) \o <<e>>) = Observe(next, e)
<1>1. /\ TypeOK /\ observer \in Knowledge
      /\ \A a \in AccountId : observer.equipped[a] = Range(AccountEquips[a])
  BY DEF EventInv, RentalInv, EquipmentFollowsFromEvents
<1>2. PICK next :
          /\ Knows(next, observer.lessee, observer.due,
                   [observer.equipped EXCEPT ![account] = @ \ {id}], observer.earned)
          /\ ObserveAll(observer, UnequipEvents(account, id)) = next
          /\ ObserveAll(observer, UnequipEvents(account, id) \o <<e>>) = Observe(next, e)
  BY <1>1, ToldUnequip
<1>3. /\ next \in Knowledge
      /\ next.lessee = observer.lessee
      /\ next.due = observer.due
      /\ next.earned = observer.earned
      /\ next.equipped = [observer.equipped EXCEPT ![account] = @ \ {id}]
  BY <1>2 DEF Knows
<1>4. ASSUME NEW a \in AccountId
      PROVE  next.equipped[a] = Range(AccountEquips'[a])
  <2>1. Range(AccountEquips'[a]) = IF a = account THEN Range(AccountEquips[a]) \ {id}
                                   ELSE Range(AccountEquips[a])
    BY <1>1, UnequipRange
  <2>2. next.equipped[a] = IF a = account THEN observer.equipped[a] \ {id}
                           ELSE observer.equipped[a]
    BY <1>1, <1>3 DEF Knowledge
  <2> QED
    BY <1>1, <2>1, <2>2
<1> QED
  BY <1>2, <1>3, <1>4

\* burn, set_rentable and unequip_collectible.
LEMMA UnequipStep ==
  ASSUME EventInv, RentalInv', NEW account \in AccountId, NEW id \in CollectibleId,
         AccountEquips' = Unequip(account, id),
         UNCHANGED << LesseeCollectibles, free_balance >>,
         \/ Deposit(UnequipEvents(account, id))
         \/ Deposit(UnequipEvents(account, id) \o << RentMadeAvailable(id) >>)
         \/ Deposit(UnequipEvents(account, id) \o << CollectibleUnequipped(account, id) >>)
  PROVE  EventInv'
<1>1. \A a \in AccountId, i \in CollectibleId : DueAsBefore(a, i)
  BY RentalsAsBefore
<1>2. ASSUME NEW next \in Knowledge, next.lessee = observer.lessee, next.due = observer.due,
             next.earned = observer.earned,
             \A a \in AccountId : next.equipped[a] = Range(AccountEquips'[a]),
             observer' = next
      PROVE  EventInv'
  BY <1>1, <1>2, QuietStep
<1>3. CASE \/ Deposit(UnequipEvents(account, id))
           \/ Deposit(UnequipEvents(account, id) \o << RentMadeAvailable(id) >>)
  <2>1. PICK e : e = RentMadeAvailable(id)
    OBVIOUS
  <2>2. PICK next \in Knowledge :
            /\ next.lessee = observer.lessee
            /\ next.due = observer.due
            /\ next.earned = observer.earned
            /\ \A a \in AccountId : next.equipped[a] = Range(AccountEquips'[a])
            /\ ObserveAll(observer, UnequipEvents(account, id)) = next
            /\ ObserveAll(observer, UnequipEvents(account, id) \o <<e>>) = Observe(next, e)
    BY UnequipTold
  <2>3. Observe(next, e) = next
    <3>1. e.type = "RentMadeAvailable"
      BY <2>1, SilentTypes
    <3> QED
      BY <3>1, ToldNothing
  <2>4. observer' = next
    BY <1>3, <2>1, <2>2, <2>3 DEF Deposit
  <2> QED
    BY <1>2, <2>2, <2>4
<1>4. CASE Deposit(UnequipEvents(account, id) \o << CollectibleUnequipped(account, id) >>)
  <2>1. PICK e : e = CollectibleUnequipped(account, id)
    OBVIOUS
  <2>2. PICK next \in Knowledge :
            /\ next.lessee = observer.lessee
            /\ next.due = observer.due
            /\ next.earned = observer.earned
            /\ \A a \in AccountId : next.equipped[a] = Range(AccountEquips'[a])
            /\ ObserveAll(observer, UnequipEvents(account, id) \o <<e>>) = Observe(next, e)
    BY UnequipTold
  <2>3. observer' = Observe(next, e)
    BY <1>4, <2>1, <2>2 DEF Deposit
  <2>4. Knows(observer', next.lessee, next.due,
              [next.equipped EXCEPT ![account] = @ \ {id}], next.earned)
    BY <2>1, <2>3, ToldEquipment
  <2>5. id \notin next.equipped[account]
    <3>1. TypeOK
      BY DEF EventInv, RentalInv
    <3>2. Range(AccountEquips'[account]) = Range(AccountEquips[account]) \ {id}
      BY <3>1, UnequipRange
    <3> QED
      BY <2>2, <3>2
  <2>6. [next.equipped EXCEPT ![account] = @ \ {id}] = next.equipped
    BY <2>5 DEF Knowledge
  <2>7. /\ observer' \in Knowledge /\ observer'.lessee = observer.lessee
        /\ observer'.due = observer.due /\ observer'.earned = observer.earned
        /\ observer'.equipped = next.equipped
    BY <2>2, <2>4, <2>6 DEF Knows
  <2> QED
    BY <1>1, <2>2, <2>7, QuietStep
<1> QED
  BY <1>3, <1>4

LEMMA EquipStep ==
  ASSUME EventInv, RentalInv', NEW account \in AccountId, NEW id \in CollectibleId,
         EquipCollectible(account, id), Deposit(<< CollectibleEquipped(account, id) >>)
  PROVE  EventInv'
<1>1. /\ TypeOK /\ observer \in Knowledge
      /\ \A a \in AccountId : observer.equipped[a] = Range(AccountEquips[a])
  BY DEF EventInv, RentalInv, EquipmentFollowsFromEvents
<1>2. observer' = Observe(observer, CollectibleEquipped(account, id))
  BY SeenOnce DEF Deposit
<1>3. Knows(observer', observer.lessee, observer.due,
            [observer.equipped EXCEPT ![account] = @ \cup {id}], observer.earned)
  BY <1>1, <1>2, ToldEquipment
<1>4. ASSUME NEW a \in AccountId
      PROVE  observer'.equipped[a] = Range(AccountEquips'[a])
  <2>1. AccountEquips'[a] = IF a = account THEN Append(AccountEquips[a], id)
                            ELSE AccountEquips[a]
    BY <1>1 DEF EquipCollectible, TypeOK
  <2>2. AccountEquips[a] \in Seq(CollectibleId)
    BY <1>1, OwnedTypes
  <2>3. Range(Append(AccountEquips[a], id)) = Range(AccountEquips[a]) \cup {id}
    BY <2>2, AppendRange
  <2>4. observer'.equipped[a] = IF a = account THEN observer.equipped[a] \cup {id}
                                ELSE observer.equipped[a]
    BY <1>1, <1>3 DEF Knows, Knowledge
  <2> QED
    BY <1>1, <2>1, <2>3, <2>4
<1>5. UNCHANGED << LesseeCollectibles, free_balance >>
  BY DEF EquipCollectible
<1>6. \A a \in AccountId, i \in CollectibleId : DueAsBefore(a, i)
  BY <1>5, RentalsAsBefore
<1> QED
  BY <1>3, <1>4, <1>5, <1>6, QuietStep DEF Knows

LEMMA RentStep ==
  ASSUME EventInv, RentalInv', NEW sender \in AccountId, NEW id \in CollectibleId,
         NEW blocks \in Blocks, NEW recurring \in BOOLEAN,
         Rent(sender, id, blocks, recurring),
         Deposit(PaymentEvents(sender, id, RentPrice(id, blocks)))
  PROVE  EventInv'
<1>1. TypeOK /\ RentalInv /\ observer \in Knowledge
  BY DEF EventInv, RentalInv
<1>2. PICK due \in BlockNumber : RentMade(sender, id, blocks, recurring, due)
  BY <1>1, RentEffect
<1>3. /\ LesseeCollectibles'[sender][id] # None
      /\ due = LesseeCollectibles'[sender][id].next_rent_block
      /\ OthersKept(sender, id)
  BY <1>2, NoneAssumption DEF RentMade
<1>4. /\ Exists(id) /\ Collectibles[id].price_per_block # None
      /\ Collectibles[id].lessor # sender
  BY DEF Rent, MayRent, NotAParty
<1>5. PICK lessor \in AccountId : lessor = Collectibles[id].lessor
  BY <1>1, <1>4, RentalTypes DEF Collectible
<1>6. PICK price \in Nat : price = RentPrice(id, blocks)
  BY <1>1, <1>4, RentPriceType, InputsAssumption
<1>7. Charged(observer, observer', id, lessor, sender, price, due)
  BY <1>1, <1>3, <1>4, <1>5, <1>6, ToldRent DEF Deposit
<1>8. UNCHANGED AccountEquips /\ free_balance' = AfterTransfer(sender, lessor, price)
  BY <1>5, <1>6 DEF Rent
<1> QED
  BY <1>3, <1>4, <1>5, <1>7, <1>8, ChargedStep

LEMMA ExtendRentStep ==
  ASSUME EventInv, RentalInv', NEW sender \in AccountId, NEW id \in CollectibleId,
         NEW blocks \in Blocks, ExtendRent(sender, id, blocks),
         Deposit(ExtensionEvents(sender, id, blocks))
  PROVE  EventInv'
<1>1. TypeOK /\ RentalInv /\ observer \in Knowledge
  BY DEF EventInv, RentalInv
<1>2. PICK due \in BlockNumber : Moved(sender, id, due)
  <2>1. PICK before, c \in BlockNumber, base \in PendingType :
            Extended(sender, id, blocks, before, c, base)
    BY <1>1, ExtendRentEffect
  <2> QED
    BY <2>1 DEF Extended
<1>3. /\ LesseeCollectibles'[sender][id] # None
      /\ due = LesseeCollectibles'[sender][id].next_rent_block
      /\ OthersKept(sender, id)
  BY <1>2, NoneAssumption DEF Moved
<1>4. /\ Exists(id) /\ Collectibles[id].price_per_block # None
      /\ Collectibles[id].lessee = sender
  BY DEF ExtendRent, MayExtend, IsLessee
<1>5. PICK lessor \in AccountId : lessor = Collectibles[id].lessor
  BY <1>1, <1>4, RentalTypes DEF Collectible
<1>6. lessor # sender
  BY <1>1, <1>4, <1>5 DEF RentalInv, RentalsHaveOneLessee
<1>7. PICK price \in Nat : price = ExtensionPrice(id, blocks)
  BY <1>1, <1>4, ExtensionPriceType, InputsAssumption
<1>8. Charged(observer, observer', id, lessor, sender, price, due)
  BY <1>1, <1>3, <1>5, <1>6, <1>7, ToldExtension DEF Deposit
<1>9. UNCHANGED AccountEquips /\ free_balance' = AfterTransfer(sender, lessor, price)
  BY <1>5, <1>7 DEF ExtendRent
<1> QED
  BY <1>3, <1>6, <1>8, <1>9, ChargedStep

LEMMA RenewRentalStep ==
  ASSUME EventInv, RentalInv', NEW lessee \in AccountId, NEW id \in CollectibleId,
         RenewRental(id, lessee), Deposit(RenewalEvents(lessee, id))
  PROVE  EventInv'
<1>1. TypeOK /\ RentalInv /\ observer \in Knowledge
  BY DEF EventInv, RentalInv
<1>2. PICK interval \in U32, due \in BlockNumber : Renewed(lessee, id, interval, due)
  BY <1>1, RenewRentalEffect
<1>3. /\ LesseeCollectibles'[lessee][id] # None
      /\ due = LesseeCollectibles'[lessee][id].next_rent_block
      /\ OthersKept(lessee, id)
  BY <1>2, NoneAssumption DEF Renewed, Moved
<1>4. /\ Exists(id) /\ Collectibles[id].price_per_block # None
      /\ LesseeCollectibles[lessee][id] # None
  BY DEF RenewRental, Renews, Processing
<1>5. PICK lessor \in AccountId : lessor = Collectibles[id].lessor
  BY <1>1, <1>4, RentalTypes DEF Collectible
<1>6. lessor # lessee
  BY <1>1, <1>4, <1>5 DEF RentalInv, RentalsHaveOneLessee
<1>7. PICK price \in Nat : price = RentPrice(id, interval)
  BY <1>1, <1>2, <1>4, RentPriceType
<1>8. RenewalPrice(id, lessee) = price
  BY <1>2, <1>7 DEF RenewalPrice, Renewed
<1>9. Charged(observer, observer', id, lessor, lessee, price, due)
  <2>1. RenewalEvents(lessee, id) = PaymentEvents(lessee, id, price)
    BY <1>8 DEF RenewalEvents
  <2> QED
    BY <1>1, <1>3, <1>5, <1>6, <1>7, <2>1, ToldRent DEF Deposit
<1>10. UNCHANGED AccountEquips /\ free_balance' = AfterTransfer(lessee, lessor, price)
  BY <1>5, <1>8 DEF RenewRental
<1> QED
  BY <1>3, <1>6, <1>9, <1>10, ChargedStep

LEMMA RemoveLesseeStep ==
  ASSUME EventInv, RentalInv', NEW lessee \in AccountId, NEW id \in CollectibleId,
         Processing(id, lessee), RemoveLessee(id, lessee),
         NEW e, e.type = "RentalEnded" \/ e.type = "ErrorTransferingRent", e.id = id,
         Deposit(UnequipEvents(lessee, id) \o <<e>>)
  PROVE  EventInv'
<1>1. TypeOK
  BY DEF EventInv, RentalInv
<1>2. AccountEquips' = Unequip(lessee, id) /\ UNCHANGED free_balance
  BY DEF RemoveLessee
<1>3. /\ LesseeCollectibles[lessee][id] # None
      /\ LesseeCollectibles'[lessee][id] = None
      /\ OthersKept(lessee, id)
  BY <1>1, RemoveLesseeEffect DEF Processing
<1>4. PICK next \in Knowledge :
          /\ next.lessee = observer.lessee
          /\ next.due = observer.due
          /\ next.earned = observer.earned
          /\ \A a \in AccountId : next.equipped[a] = Range(AccountEquips'[a])
          /\ ObserveAll(observer, UnequipEvents(lessee, id) \o <<e>>) = Observe(next, e)
  BY <1>2, UnequipTold
<1>5. observer' = Observe(next, e)
  BY <1>4 DEF Deposit
<1>6. Knows(observer', [next.lessee EXCEPT ![id] = None], [next.due EXCEPT ![id] = None],
            next.equipped, next.earned)
  BY <1>5, ToldEnd
<1>7. /\ observer' \in Knowledge
      /\ observer'.lessee = [observer.lessee EXCEPT ![id] = None]
      /\ observer'.due = [observer.due EXCEPT ![id] = None]
      /\ observer'.earned = observer.earned
      /\ \A a \in AccountId : observer'.equipped[a] = Range(AccountEquips'[a])
  BY <1>4, <1>6 DEF Knows
<1> QED
  BY <1>2, <1>3, <1>7, EndedStep

LEMMA SetRecurringDue ==
  ASSUME RentalInv, NEW sender \in AccountId, NEW id \in CollectibleId,
         NEW recurring \in BOOLEAN, SetRecurring(sender, id, recurring)
  PROVE  \A a \in AccountId, i \in CollectibleId : DueAsBefore(a, i)
  BY SetRecurringEffect, NoneAssumption DEF RentalInv, OthersKept, DueAsBefore

--------------------------------------------------------------------------------
\* All steps

LEMMA EventNextIsNext == EventNext => Next
<1>1. CallWithEvents => Call
  BY DEF CallWithEvents, Call, CallBy
<1>2. HookWithEvents => OnInitialize
  BY DEF HookWithEvents, OnInitialize, ProcessRental
<1> QED
  BY <1>1, <1>2 DEF EventNext, Next

LEMMA NextEvents ==
  ASSUME EventInv, [EventNext]_eventVars
  PROVE  EventInv'
<1>1. RentalInv'
  BY EventNextIsNext, NextInv DEF EventInv, eventVars
<1>2. ASSUME NEW e,
             e.type \in {"CollectibleCreated", "RentMadeAvailable", "RentMadeUnavailable",
                         "RentalSetRecurring", "RentalExtended"},
             Deposit(<<e>>),
             UNCHANGED << LesseeCollectibles, AccountEquips, free_balance >>
      PROVE  EventInv'
  BY <1>1, <1>2, SilentKeeps, RentalsAsBefore
<1>3. ASSUME Deposit(<<>>), UNCHANGED << LesseeCollectibles, AccountEquips, free_balance >>
      PROVE  EventInv'
  <2>1. observer' = observer
    BY <1>3, SeenNothing DEF Deposit
  <2> QED
    BY <1>1, <1>3, <2>1, UntoldKeeps, RentalsAsBefore
<1>4. ASSUME NEW sender \in AccountId, NEW id \in CollectibleId,
             \/ Mint(sender, id) /\ Deposit(<< CollectibleCreated(id) >>)
             \/ SetUnrentable(sender, id) /\ Deposit(<< RentMadeUnavailable(id) >>)
      PROVE  EventInv'
  <2>1. UNCHANGED << LesseeCollectibles, AccountEquips, free_balance >>
    BY <1>4 DEF Mint, SetUnrentable
  <2>2. PICK e : /\ e = CollectibleCreated(id) \/ e = RentMadeUnavailable(id)
                 /\ Deposit(<<e>>)
    BY <1>4
  <2>3. e.type \in {"CollectibleCreated", "RentMadeUnavailable"}
    BY <2>2, SilentTypes
  <2> QED
    BY <1>2, <2>1, <2>2, <2>3
<1>5. ASSUME NEW sender \in AccountId, NEW id \in CollectibleId, NEW recurring \in BOOLEAN,
             SetRecurring(sender, id, recurring), Deposit(<< RentalSetRecurring(id) >>)
      PROVE  EventInv'
  <2>1. UNCHANGED << AccountEquips, free_balance >>
    BY <1>5 DEF SetRecurring
  <2>2. \A a \in AccountId, i \in CollectibleId : DueAsBefore(a, i)
    BY <1>5, SetRecurringDue DEF EventInv
  <2>3. PICK e : e = RentalSetRecurring(id)
    OBVIOUS
  <2>4. e.type = "RentalSetRecurring"
    BY <2>3, SilentTypes
  <2> QED
    BY <1>1, <1>5, <2>1, <2>2, <2>3, <2>4, SilentKeeps
<1>6. ASSUME NEW sender \in AccountId, NEW id \in CollectibleId,
             \/ Burn(sender, id) /\ Deposit(UnequipEvents(sender, id))
             \/ \E price \in Prices, minimum, maximum \in Periods :
                    /\ SetRentable(sender, id, price, minimum, maximum)
                    /\ Deposit(UnequipEvents(sender, id) \o << RentMadeAvailable(id) >>)
             \/ /\ UnequipCollectible(sender, id)
                /\ Deposit(UnequipEvents(sender, id) \o << CollectibleUnequipped(sender, id) >>)
      PROVE  EventInv'
  <2>1. /\ AccountEquips' = Unequip(sender, id)
        /\ UNCHANGED << LesseeCollectibles, free_balance >>
    BY <1>6 DEF Burn, SetRentable, UnequipCollectible
  <2> QED
    BY <1>1, <1>6, <2>1, UnequipStep
<1>7. CASE CallWithEvents
  <2>1. ASSUME NEW sender \in AccountId, NEW id \in CollectibleId, NEW blocks \in Blocks,
               RentSpins(sender, id, blocks) \/ ExtendRentSpins(sender, id, blocks),
               Deposit(<<>>)
        PROVE  EventInv'
    BY <1>3, <2>1 DEF RentSpins, ExtendRentSpins, storage
  <2> QED
    BY <1>1, <1>4, <1>5, <1>6, <1>7, <2>1, RentStep, ExtendRentStep, EquipStep
       DEF CallWithEvents
<1>8. CASE HookWithEvents
  <2>1. ASSUME NEW id \in CollectibleId, NEW lessee \in AccountId,
               \/ /\ EndRental(id, lessee)
                  /\ Deposit(UnequipEvents(lessee, id) \o << RentalEnded(id) >>)
               \/ /\ CancelUnpaidRental(id, lessee)
                  /\ Deposit(UnequipEvents(lessee, id) \o << ErrorTransferingRent(id) >>)
        PROVE  EventInv'
    <3>1. Processing(id, lessee) /\ RemoveLessee(id, lessee)
      BY <2>1 DEF EndRental, CancelUnpaidRental
    <3>2. PICK e : /\ e = RentalEnded(id) \/ e = ErrorTransferingRent(id)
                   /\ Deposit(UnequipEvents(lessee, id) \o <<e>>)
      BY <2>1
    <3>3. (e.type = "RentalEnded" \/ e.type = "ErrorTransferingRent") /\ e.id = id
      BY <3>2, SilentTypes
    <3> QED
      BY <1>1, <3>1, <3>2, <3>3, RemoveLesseeStep
  <2>2. ASSUME NEW id \in CollectibleId, NEW lessee \in AccountId,
               RenewalSpins(id, lessee), Deposit(<<>>)
        PROVE  EventInv'
    BY <1>3, <2>2 DEF RenewalSpins, storage
  <2>3. ASSUME FinishRentals, Deposit(<<>>)
        PROVE  EventInv'
    BY <1>3, <2>3 DEF FinishRentals
  <2> QED
    BY <1>1, <1>8, <2>1, <2>2, <2>3, RenewRentalStep DEF HookWithEvents
<1>9. CASE BeginBlock /\ Deposit(<<>>)
  BY <1>3, <1>9 DEF BeginBlock, storage
<1>10. CASE UNCHANGED eventVars
  <2>1. /\ observer' = observer
        /\ UNCHANGED << LesseeCollectibles, AccountEquips, free_balance >>
    BY <1>10 DEF eventVars, vars, storage
  <2> QED
    BY <1>1, <2>1, UntoldKeeps, RentalsAsBefore
<1> QED
  BY <1>7, <1>8, <1>9, <1>10 DEF EventNext

LEMMA InitEvents == EventInit => EventInv
<1> SUFFICES ASSUME EventInit PROVE EventInv
  OBVIOUS
<1>1. RentalInv
  BY InitInv DEF EventInit
<1>2. NothingObserved \in Knowledge
  BY DEF NothingObserved, Knowledge
<1>3. \A id \in CollectibleId : ~Rented(id)
  BY DEF EventInit, Init, Rented, Exists
<1>4. RentalsFollowFromEvents
  BY <1>3 DEF EventInit, NothingObserved, RentalsFollowFromEvents
<1>5. Range(<<>>) = {}
  BY DEF Range
<1>6. EquipmentFollowsFromEvents
  BY <1>5 DEF EventInit, Init, NothingObserved, EquipmentFollowsFromEvents
<1>7. RevenueFollowsFromEvents
  BY SizesAssumption DEF EventInit, Init, NothingObserved, RevenueFollowsFromEvents
<1> QED
  BY <1>1, <1>2, <1>4, <1>6, <1>7 DEF EventInv, EventInit

\* Depositing the events changes nothing of what the pallet does: whatever holds
\* of the pallet holds of it with its events.
THEOREM EventsImplementRent == EventSpec => Spec
<1>1. EventInit => Init
  BY DEF EventInit
<1>2. [EventNext]_eventVars => [Next]_vars
  BY EventNextIsNext DEF eventVars
<1> QED
  BY <1>1, <1>2, PTL DEF EventSpec, Spec

\* What the observer makes of the events is what the storage says.
THEOREM EventInvariant == EventSpec => []EventInv
  BY InitEvents, NextEvents, PTL DEF EventSpec

\* Whoever follows the events knows every rental, its lessee and when it is due,
\* however rentals are extended, renewed, moved by the search or ended.
THEOREM EventsTellRentals == EventSpec => []RentalsFollowFromEvents
<1>1. EventInv => RentalsFollowFromEvents
  BY DEF EventInv
<1> QED
  BY <1>1, EventInvariant, PTL

\* It knows what each account has equipped: what burn, set_rentable and the end of
\* a rental unequip is announced.
THEOREM EventsTellEquipment == EventSpec => []EquipmentFollowsFromEvents
<1>1. EventInv => EquipmentFollowsFromEvents
  BY DEF EventInv
<1> QED
  BY <1>1, EventInvariant, PTL

\* And it can account for every balance: the price announced is the price charged,
\* also where it wraps.
THEOREM EventsTellRevenue == EventSpec => []RevenueFollowsFromEvents
<1>1. EventInv => RevenueFollowsFromEvents
  BY DEF EventInv
<1> QED
  BY <1>1, EventInvariant, PTL

================================================================================

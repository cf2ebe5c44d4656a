-------------------------- MODULE RelayClientsProofs --------------------------
(* Theorems about components of MCRelayLoad that answer for their clients' work: the
   retrying consumer, for every policy and any number of messages; the task repository,
   for any clients and lifetimes; the versions of the stateless service, for any clients,
   instances and keys; the effects and answers of repeated calls, for any scripts of the
   clients; the results and slices of processes, for any items and workers; and the work
   pipeline, for any submissions and lost replies. *)
EXTENDS MCRelayLoad, FiniteSetTheorems, SequenceTheorems, TLAPS

-----------------------------------------------------------------------------
(* The retrying consumer of lab 33 *)

Delivered == {m \in Message : delivery[m] # Consumer!New}

\* What the budget still holds was not spent on the retries so far.
BudgetInv ==
    /\ tokens \in Nat /\ retries \in Nat
    /\ delivery = [m \in Message |-> delivery[m]]
    /\ retries * TokensPerRetry + tokens <= InitialTokens + Cardinality(Delivered)

LEMMA DeliveredFinite == IsFiniteSet(Delivered) /\ Cardinality(Delivered) \in Nat
  BY ConsumerAssumption, FS_Subset, FS_CardinalityType DEF Delivered

\* One delivery costs a retry what the budget asks for, and its message is not new any more.
LEMMA ProcessCosts ==
    ASSUME BudgetInv, NEW m \in Message, NEW attempts, NEW held \in Nat,
           Consumer!Process(m, attempts, held)
    PROVE  /\ delivery' = [n \in Message |-> IF n = m THEN delivery'[m] ELSE delivery[n]]
           /\ delivery'[m] # Consumer!New
           /\ \/ tokens' = held /\ retries' = retries
              \/ /\ held >= TokensPerRetry
                 /\ tokens' = held - TokensPerRetry /\ retries' = retries + 1
  <1>1. ASSUME NEW d, d.at # "new", delivery' = [delivery EXCEPT ![m] = d]
        PROVE  /\ delivery' = [n \in Message |-> IF n = m THEN delivery'[m] ELSE delivery[n]]
               /\ delivery'[m] # Consumer!New
    BY <1>1 DEF BudgetInv, Consumer!New
  <1>2. ASSUME NEW a, NEW delay, Consumer!Waits(m, a, delay)
        PROVE  \E d : d.at # "new" /\ delivery' = [delivery EXCEPT ![m] = d]
    BY <1>2 DEF Consumer!Waits
  <1>3. ASSUME NEW reason, Consumer!Dies(m, reason)
        PROVE  \E d : d.at # "new" /\ delivery' = [delivery EXCEPT ![m] = d]
    BY <1>3 DEF Consumer!Dies, Consumer!Gone
  <1>4. ASSUME Consumer!Succeeds(m)
        PROVE  \E d : d.at # "new" /\ delivery' = [delivery EXCEPT ![m] = d]
    BY <1>4 DEF Consumer!Succeeds, Consumer!Gone
  <1>5. \E d : d.at # "new" /\ delivery' = [delivery EXCEPT ![m] = d]
    BY <1>2, <1>3, <1>4 DEF Consumer!Process, Consumer!Held, Consumer!Poisons,
       Consumer!FailsTransiently
  <1>6. \/ tokens' = held /\ retries' = retries
        \/ /\ held >= TokensPerRetry
           /\ tokens' = held - TokensPerRetry /\ retries' = retries + 1
    BY DEF Consumer!Process, Consumer!Held, Consumer!Succeeds, Consumer!Poisons,
       Consumer!FailsTransiently, Consumer!AllowRetry
  <1>7. QED
    BY <1>1, <1>5, <1>6

LEMMA BudgetStep ==
    ASSUME BudgetInv, [Consumer!Next]_consumerVars
    PROVE  BudgetInv'
  <1> DEFINE paid == retries * TokensPerRetry
  <1>1. paid \in Nat /\ (retries + 1) * TokensPerRetry = paid + TokensPerRetry
    BY ConsumerAssumption DEF BudgetInv
  <1>2. ASSUME NEW m \in Message, NEW attempts, NEW held \in Nat,
               Consumer!Process(m, attempts, held),
               paid + held <= InitialTokens + Cardinality(Delivered')
        PROVE  BudgetInv'
    <2>1. delivery' = [n \in Message |-> delivery'[n]]
      BY <1>2, ProcessCosts
    <2>2. CASE tokens' = held /\ retries' = retries
      BY <1>2, <2>1, <2>2 DEF BudgetInv
    <2>3. CASE /\ held >= TokensPerRetry
               /\ tokens' = held - TokensPerRetry /\ retries' = retries + 1
      <3>1. retries' * TokensPerRetry = paid + TokensPerRetry /\ retries' \in Nat
        BY <1>1, <2>3 DEF BudgetInv
      <3>2. DeliveredFinite!1' /\ tokens' \in Nat
        BY <1>2, <2>3, ConsumerAssumption, FS_Subset, FS_CardinalityType DEF Delivered
      <3> HIDE DEF paid
      <3>3. Cardinality(Delivered') \in Nat
        BY ConsumerAssumption, FS_Subset, FS_CardinalityType DEF Delivered
      <3>4. retries' * TokensPerRetry + tokens' <= InitialTokens + Cardinality(Delivered')
        BY <1>1, <1>2, <2>3, <3>1, <3>3, ConsumerAssumption
      <3>5. QED
        BY <2>1, <3>1, <3>2, <3>4 DEF BudgetInv
    <2>4. QED
      BY <1>2, <2>2, <2>3, ProcessCosts
  <1>3. ASSUME NEW m \in Message, Consumer!Primary(m)
        PROVE  BudgetInv'
    <2> DEFINE held == Consumer!Lesser(tokens + 1, MaxTokens)
    <2>1. held \in Nat /\ held <= tokens + 1
      BY ConsumerAssumption DEF BudgetInv, Consumer!Lesser
    <2>2. Consumer!Process(m, 0, held)
      BY <1>3 DEF Consumer!Primary
    <2> HIDE DEF held
    <2>3. Delivered' = Delivered \union {m} /\ m \notin Delivered
      BY <1>3, <2>1, <2>2, ProcessCosts DEF Delivered, Consumer!Primary
    <2>4. Cardinality(Delivered') = Cardinality(Delivered) + 1
      BY <2>3, DeliveredFinite, FS_AddElement
    <2> HIDE DEF paid
    <2>5. paid + held <= InitialTokens + Cardinality(Delivered')
      <3>1. paid + tokens <= InitialTokens + Cardinality(Delivered)
        BY DEF BudgetInv, paid
      <3>2. QED
        BY <1>1, <2>1, <2>4, <3>1, DeliveredFinite, ConsumerAssumption DEF BudgetInv
    <2>6. QED
      BY <1>2, <2>1, <2>2, <2>5
  <1>4. ASSUME NEW m \in Message, Consumer!Redeliver(m)
        PROVE  BudgetInv'
    <2>1. m \in Delivered
      BY <1>4 DEF Consumer!Redeliver, Consumer!New, Delivered
    <2>2. Delivered' = Delivered
      BY <1>4, <2>1, ProcessCosts DEF Consumer!Redeliver, Delivered, BudgetInv
    <2>3. QED
      BY <1>2, <1>4, <2>2 DEF Consumer!Redeliver, BudgetInv
  <1>5. CASE Consumer!Tick \/ UNCHANGED consumerVars
    BY <1>5 DEF Consumer!Tick, consumerVars, BudgetInv, Delivered
  <1>6. QED
    BY <1>3, <1>4, <1>5 DEF Consumer!Next

\* Every retry after a transient failure is paid for by what the budget held at first and
\* by the fresh messages: for any messages, policies and outcomes.
THEOREM RetriesAlwaysPaidFor == Consumer!Spec => []RetriesPaidFor
  <1>1. Consumer!Init => BudgetInv
    <2> SUFFICES ASSUME Consumer!Init
                 PROVE  BudgetInv
      OBVIOUS
    <2>1. Delivered = {}
      BY DEF Consumer!Init, Delivered
    <2>2. Cardinality(Delivered) = 0
      BY <2>1, FS_EmptySet
    <2>3. delivery = [m \in Message |-> delivery[m]]
      BY DEF Consumer!Init
    <2>4. /\ tokens \in Nat /\ retries \in Nat
          /\ retries * TokensPerRetry + tokens <= InitialTokens
      BY ConsumerAssumption DEF Consumer!Init, Consumer!Lesser
    <2>5. QED
      BY <2>2, <2>3, <2>4, ConsumerAssumption DEF BudgetInv
  <1>2. BudgetInv /\ [Consumer!Next]_consumerVars => BudgetInv'
    BY BudgetStep
  <1>3. BudgetInv => RetriesPaidFor
    <2>1. ASSUME BudgetInv
          PROVE  retries * TokensPerRetry \in Nat
      BY <2>1, ConsumerAssumption DEF BudgetInv
    <2>2. Cardinality(Delivered) = Consumer!Cardinality(Delivered)
      BY DEF Cardinality, Consumer!Cardinality
    <2>3. QED
      BY <2>1, <2>2, DeliveredFinite, ConsumerAssumption
         DEF BudgetInv, RetriesPaidFor, Consumer!RetriesPaidFor, Delivered
  <1>4. QED
    BY <1>1, <1>2, <1>3, PTL DEF Consumer!Spec, Consumer!vars, consumerVars

Breaker == [state : {"closed", "open", "half_open"}, failures : Nat, successes : Nat, until : Nat]

\* What the breaker knows of the calls so far: closed, the failures in a row are fewer
\* than the threshold; open, the last call failed and it waits for the recovery timeout;
\* half open, that time has passed if the last call failed.
BreakerInv ==
    /\ clock \in Nat
    /\ breaker \in Breaker
    /\ calls \in [outcome : {"success", "failure"}, count : Nat, last : Nat]
    /\ breaker.state = "closed" =>
          /\ breaker.failures < Threshold
          /\ calls.outcome = "failure" => breaker.failures = calls.count
          /\ calls.outcome = "success" => breaker.failures = 0
    /\ breaker.state = "open" =>
          calls.outcome = "failure" /\ breaker.until = calls.last + RecoveryTimeout
    /\ breaker.state = "half_open" /\ calls.outcome = "failure" =>
          clock >= calls.last + RecoveryTimeout

\* An open breaker is not asked before the recovery timeout has passed.
Patient == calls.outcome = "failure" /\ calls.count >= Threshold =>
               clock >= calls.last + RecoveryTimeout

\* Asking an open breaker whose time has come leaves it half open.
LEMMA AllowedFacts ==
    ASSUME BreakerInv, ~Consumer!Refuses
    PROVE  /\ Consumer!Allowed \in Breaker
           /\ \/ breaker.state = "closed" /\ Consumer!Allowed = breaker
              \/ /\ breaker.state # "closed" /\ Consumer!Allowed.state = "half_open"
                 /\ calls.outcome = "failure" => clock >= calls.last + RecoveryTimeout
           /\ Patient
  <1> USE DEF BreakerInv, Breaker
  <1>1. CASE breaker.state = "open"
    <2>1. Consumer!Allowed = [breaker EXCEPT !.state = "half_open", !.successes = 0]
      BY <1>1 DEF Consumer!Allowed
    <2>2. Consumer!Allowed \in Breaker /\ Consumer!Allowed.state = "half_open"
      BY <2>1
    <2>3. clock >= breaker.until
      BY <1>1 DEF Consumer!Refuses
    <2>4. QED
      BY <1>1, <2>2, <2>3 DEF Patient
  <1>2. CASE breaker.state # "open"
    BY <1>2, ConsumerAssumption DEF Consumer!Allowed, Patient
  <1>3. QED
    BY <1>1, <1>2

LEMMA BreakerStep ==
    ASSUME BreakerInv, [Consumer!Next]_consumerVars
    PROVE  BreakerInv' /\ (calls' # calls => Patient)
  <1> DEFINE allowed == Consumer!Allowed
             Kept == BreakerInv' /\ (calls' # calls => Patient)
  <1>1. ASSUME NEW m \in Message, NEW attempts, NEW held, Consumer!Process(m, attempts, held)
        PROVE  Kept
    <2>1. CASE Consumer!Held(m, attempts)
      BY <1>1, <2>1 DEF Consumer!Held, Consumer!Process, BreakerInv
    <2>2. CASE Consumer!Poisons(m)
      <3>1. /\ breaker' = allowed /\ calls' = calls /\ clock' = clock
            /\ ~Consumer!Refuses
        BY <1>1, <2>2 DEF Consumer!Poisons, Consumer!Process
      <3>2. QED
        BY <3>1, AllowedFacts DEF BreakerInv, Breaker
    <2>3. CASE Consumer!Succeeds(m)
      <3>1. /\ breaker' = Consumer!AfterSuccess(allowed) /\ clock' = clock
            /\ calls' = [outcome |-> "success", last |-> clock,
                         count |-> IF calls.outcome = "success" THEN calls.count + 1 ELSE 1]
            /\ ~Consumer!Refuses
        BY <1>1, <2>3 DEF Consumer!Succeeds, Consumer!Process, Consumer!Called
      <3>2. /\ allowed \in Breaker /\ Patient
            /\ allowed.state \in {"closed", "half_open"}
        BY <3>1, AllowedFacts DEF BreakerInv, Breaker
      <3> HIDE DEF allowed
      <3>3. /\ Consumer!AfterSuccess(allowed) \in Breaker
            /\ Consumer!AfterSuccess(allowed).state \in {"closed", "half_open"}
            /\ Consumer!AfterSuccess(allowed).state = "closed" =>
                  Consumer!AfterSuccess(allowed).failures = 0
        <4> DEFINE b == allowed
                   after == Consumer!AfterSuccess(b)
        <4> HIDE DEF b
        <4>1. b \in Breaker /\ b.state \in {"closed", "half_open"}
          BY <3>2 DEF b
        <4>2. CASE b.state # "half_open"
          <5>1. after = [b EXCEPT !.failures = 0]
            BY <4>2 DEF Consumer!AfterSuccess
          <5>2. QED
            BY <4>1, <5>1 DEF Breaker, b
        <4>3. CASE b.state = "half_open" /\ b.successes + 1 >= HalfOpenSuccesses
          <5>1. after = [b EXCEPT !.state = "closed", !.failures = 0, !.successes = 0]
            BY <4>3 DEF Consumer!AfterSuccess
          <5> HIDE DEF after
          <5>2. after \in Breaker /\ after.state = "closed" /\ after.failures = 0
            BY <4>1, <5>1 DEF Breaker
          <5>3. QED
            BY <5>2 DEF after, b
        <4>4. CASE b.state = "half_open" /\ ~(b.successes + 1 >= HalfOpenSuccesses)
          <5>1. after = [b EXCEPT !.successes = b.successes + 1]
            BY <4>4 DEF Consumer!AfterSuccess
          <5>2. b.successes + 1 \in Nat
            BY <4>1 DEF Breaker
          <5>3. QED
            BY <4>1, <4>4, <5>1, <5>2 DEF Breaker, b
        <4>5. QED
          BY <4>2, <4>3, <4>4
      <3>4. calls' \in [outcome : {"success", "failure"}, count : Nat, last : Nat]
        BY <3>1 DEF BreakerInv
      <3>5. QED
        BY <3>1, <3>2, <3>3, <3>4, ConsumerAssumption DEF BreakerInv, Breaker
    <2>4. CASE Consumer!FailsTransiently(m, attempts, held)
      <3>1. /\ breaker' = Consumer!AfterFailure(allowed) /\ clock' = clock
            /\ calls' = [outcome |-> "failure", last |-> clock,
                         count |-> IF calls.outcome = "failure" THEN calls.count + 1 ELSE 1]
            /\ ~Consumer!Refuses
        BY <1>1, <2>4 DEF Consumer!FailsTransiently, Consumer!Process, Consumer!Called
      <3>2. /\ allowed \in Breaker /\ Patient
            /\ \/ breaker.state = "closed" /\ allowed = breaker
               \/ allowed.state = "half_open"
        BY <3>1, AllowedFacts
      <3> HIDE DEF allowed
      <3>3. calls' \in [outcome : {"success", "failure"}, count : Nat, last : Nat]
        BY <3>1 DEF BreakerInv
      <3>4. CASE breaker' = Consumer!Opened
        <4>1. breaker' = [state |-> "open", failures |-> 0, successes |-> 0,
                          until |-> clock + RecoveryTimeout]
          BY <3>4 DEF Consumer!Opened
        <4>2. clock + RecoveryTimeout \in Nat
          BY ConsumerAssumption DEF BreakerInv
        <4>3. QED
          BY <3>1, <3>2, <3>3, <4>1, <4>2 DEF BreakerInv, Breaker
      <3>5. CASE breaker' # Consumer!Opened
        <4>1. /\ allowed.state # "half_open" /\ allowed.failures + 1 < Threshold
              /\ breaker' = [allowed EXCEPT !.failures = @ + 1]
          BY <3>1, <3>2, <3>5, ConsumerAssumption DEF Consumer!AfterFailure, Breaker
        <4>2. breaker.state = "closed" /\ allowed = breaker
          BY <3>2, <4>1
        <4>3. /\ breaker' \in Breaker /\ breaker'.state = "closed"
              /\ breaker'.failures = breaker.failures + 1
          BY <4>1, <4>2 DEF Breaker, BreakerInv
        <4>4. breaker'.failures = calls'.count
          BY <3>1, <4>2, <4>3 DEF BreakerInv
        <4>5. QED
          BY <3>1, <3>2, <3>3, <4>1, <4>2, <4>3, <4>4 DEF BreakerInv, Breaker
      <3>6. QED
        BY <3>4, <3>5
    <2>5. QED
      BY <1>1, <2>1, <2>2, <2>3, <2>4 DEF Consumer!Process
  <1>2. CASE Consumer!Tick
    BY <1>2, ConsumerAssumption DEF Consumer!Tick, BreakerInv
  <1>3. CASE UNCHANGED consumerVars
    BY <1>3 DEF consumerVars, BreakerInv
  <1>4. QED
    BY <1>1, <1>2, <1>3 DEF Consumer!Next, Consumer!Primary, Consumer!Redeliver

\* Nobody calls the dependency before the recovery timeout has passed since a threshold of
\* failures in a row, nor since a half-open probe failed: for any messages and outcomes.
THEOREM DependencyAlwaysSpared == Consumer!Spec => DependencySpared
  <1>1. Consumer!Init => BreakerInv
    BY ConsumerAssumption DEF Consumer!Init, BreakerInv, Breaker
  <1>2. BreakerInv /\ [Consumer!Next]_consumerVars => BreakerInv'
    BY BreakerStep
  <1>3. BreakerInv /\ [Consumer!Next]_consumerVars =>
           [calls' # calls /\ calls.outcome = "failure" /\ calls.count >= Threshold
               => clock >= calls.last + RecoveryTimeout]_consumerVars
    BY BreakerStep DEF Patient
  <1>4. QED
    BY <1>1, <1>2, <1>3, PTL
       DEF Consumer!Spec, Consumer!vars, consumerVars, DependencySpared, Consumer!DependencySpared

-----------------------------------------------------------------------------
(* The task repository of lab 29 *)

Item == [etag : Nat \ {0}, count : Nat, expires : Nat]
Slot == Item \union {Repository!NoItem}

RepositoryTypes ==
    /\ storeClock \in Nat /\ latest \in Nat
    /\ items \in [Key -> Slot]
    /\ read \in [Client -> [Key -> Slot]]
    /\ fate \in [Key -> [increments : Nat, expires : Nat]]

\* An etag is given once: who read an item under the etag it has read its count.
EtagsTell ==
    \A k \in Key :
        /\ items[k].etag <= latest
        /\ \A c \in Client :
              /\ read[c][k].etag <= latest
              /\ items[k] # Repository!NoItem /\ read[c][k].etag = items[k].etag =>
                    read[c][k] # Repository!NoItem /\ read[c][k].count = items[k].count

RepositoryInv == RepositoryTypes /\ EtagsTell /\ ItemMatchesHistory

\* What has not expired is as it was.
LEMMA KeptFacts ==
    ASSUME RepositoryInv
    PROVE  /\ Repository!Kept \in [Key -> Slot]
           /\ \A k \in Key : Repository!Kept[k] = items[k] \/ Repository!Kept[k] = Repository!NoItem
  BY DEF RepositoryInv, RepositoryTypes, Repository!Kept, Slot

LEMMA NoItemIsNone == Repository!NoItem \notin Item /\ Repository!NoItem.etag = 0
  BY DEF Repository!NoItem, Item

\* Dropping what has expired keeps the invariant.
LEMMA PurgeKeeps ==
    ASSUME RepositoryInv, items' = Repository!Kept, UNCHANGED <<latest, read, fate>>,
           storeClock' = storeClock
    PROVE  RepositoryInv'
  <1>1. RepositoryTypes'
    BY KeptFacts DEF RepositoryInv, RepositoryTypes
  <1>2. \A k \in Key : items'[k] = items[k] \/ items'[k] = Repository!NoItem
    BY KeptFacts
  <1>3. EtagsTell'
    BY <1>2, NoItemIsNone DEF RepositoryInv, RepositoryTypes, EtagsTell
  <1>4. ItemMatchesHistory'
    BY <1>2 DEF RepositoryInv, ItemMatchesHistory, Repository!ItemMatchesHistory
  <1>5. QED
    BY <1>1, <1>3, <1>4 DEF RepositoryInv

\* What is stored has an etag that nobody has read.
LEMMA StoreKeeps ==
    ASSUME RepositoryInv, NEW k \in Key, NEW count \in Nat, NEW ttl,
           storeClock + ttl \in Nat, Repository!Stored(k, count, ttl),
           read' = read, storeClock' = storeClock,
           fate' \in [Key -> [increments : Nat, expires : Nat]],
           \A j \in Key \ {k} : fate'[j] = fate[j],
           fate'[k] = [increments |-> count, expires |-> storeClock + ttl]
    PROVE  RepositoryInv'
  <1> DEFINE item == [etag |-> latest + 1, count |-> count, expires |-> storeClock + ttl]
  <1>1. latest' = latest + 1 /\ items' = [Repository!Kept EXCEPT ![k] = item]
    BY DEF Repository!Stored
  <1>2. item \in Item /\ item \in Slot /\ item # Repository!NoItem /\ latest' \in Nat
    BY <1>1, NoItemIsNone DEF RepositoryInv, RepositoryTypes, Item, Slot
  <1> HIDE DEF item
  <1>3. /\ items' \in [Key -> Slot] /\ items'[k] = item
        /\ \A j \in Key \ {k} : items'[j] = items[j] \/ items'[j] = Repository!NoItem
    BY <1>1, <1>2, KeptFacts
  <1>4. RepositoryTypes'
    BY <1>2, <1>3 DEF RepositoryInv, RepositoryTypes
  <1>5. item.etag = latest + 1 /\ item.count = count /\ item.expires = storeClock + ttl
    BY DEF item
  <1>6. \A j \in Key, c \in Client : read[c][j].etag \in Nat /\ items[j].etag \in Nat
    BY NoItemIsNone DEF RepositoryInv, RepositoryTypes, Slot, Item
  <1>7. EtagsTell'
    <2>1. ASSUME NEW j \in Key, NEW c \in Client
          PROVE  /\ items'[j].etag <= latest' /\ read'[c][j].etag <= latest'
                 /\ items'[j] # Repository!NoItem /\ read'[c][j].etag = items'[j].etag =>
                       read'[c][j] # Repository!NoItem /\ read'[c][j].count = items'[j].count
      <3>1. items[j].etag <= latest /\ read[c][j].etag <= latest /\ latest \in Nat
        BY DEF RepositoryInv, EtagsTell, RepositoryTypes
      <3>2. CASE j = k
        BY <1>1, <1>3, <1>5, <1>6, <3>1, <3>2
      <3>3. CASE j # k
        BY <1>1, <1>3, <1>6, <3>1, <3>3, NoItemIsNone DEF RepositoryInv, EtagsTell
      <3>4. QED
        BY <3>2, <3>3
    <2>2. ASSUME NEW j \in Key
          PROVE  items'[j].etag <= latest'
      <3>1. items[j].etag <= latest /\ latest \in Nat /\ items[j].etag \in Nat
        BY NoItemIsNone DEF RepositoryInv, EtagsTell, RepositoryTypes, Slot, Item
      <3>2. QED
        BY <1>1, <1>3, <1>5, <3>1, NoItemIsNone
    <2>3. QED
      BY <2>1, <2>2 DEF EtagsTell
  <1>8. ItemMatchesHistory'
    BY <1>3, <1>5 DEF RepositoryInv, ItemMatchesHistory, Repository!ItemMatchesHistory
  <1>9. QED
    BY <1>4, <1>7, <1>8 DEF RepositoryInv

LEMMA RepositoryStep ==
    ASSUME RepositoryInv, [Repository!Next]_repositoryVars
    PROVE  RepositoryInv'
  <1>1. ASSUME NEW k \in Key, NEW ttl \in Ttl \union {DefaultTtl}, Repository!Create(k, ttl)
        PROVE  RepositoryInv'
    <2>1. CASE Repository!Kept[k] = Repository!NoItem
      <3>1. /\ Repository!Stored(k, 0, ttl) /\ read' = read /\ storeClock' = storeClock
            /\ fate' = [fate EXCEPT ![k] = [increments |-> 0, expires |-> storeClock + ttl]]
        BY <1>1, <2>1 DEF Repository!Create
      <3>2. storeClock + ttl \in Nat /\ 0 \in Nat
        BY TimeAssumption DEF RepositoryInv, RepositoryTypes
      <3>3. /\ fate' \in [Key -> [increments : Nat, expires : Nat]]
            /\ \A j \in Key \ {k} : fate'[j] = fate[j]
            /\ fate'[k] = [increments |-> 0, expires |-> storeClock + ttl]
        BY <3>1, <3>2 DEF RepositoryInv, RepositoryTypes
      <3>4. QED
        BY <3>1, <3>2, <3>3, StoreKeeps
    <2>2. CASE Repository!Kept[k] # Repository!NoItem
      BY <1>1, <2>2, PurgeKeeps DEF Repository!Create
    <2>3. QED
      BY <2>1, <2>2
  <1>2. ASSUME NEW c \in Client, NEW k \in Key, Repository!Get(c, k)
        PROVE  RepositoryInv'
    <2>1. CASE Repository!Kept[k] = Repository!NoItem
      BY <1>2, <2>1, PurgeKeeps DEF Repository!Get
    <2>2. CASE Repository!Kept[k] # Repository!NoItem
      <3>1. /\ items' = Repository!Kept
            /\ read' = [read EXCEPT ![c][k] = Repository!Kept[k]]
            /\ latest' = latest /\ fate' = fate /\ storeClock' = storeClock
        BY <1>2, <2>2 DEF Repository!Get
      <3>2. /\ \A j \in Key : items'[j] = items[j] \/ items'[j] = Repository!NoItem
            /\ items' \in [Key -> Slot]
            /\ items'[k] = items[k] /\ Repository!Kept[k] = items[k]
        BY <2>2, <3>1, KeptFacts
      <3>3. /\ read' \in [Client -> [Key -> Slot]]
            /\ \A d \in Client, j \in Key :
                  read'[d][j] = IF d = c /\ j = k THEN items[k] ELSE read[d][j]
        BY <3>1, <3>2 DEF RepositoryInv, RepositoryTypes
      <3>4. RepositoryTypes'
        BY <3>1, <3>2, <3>3 DEF RepositoryInv, RepositoryTypes
      <3>5. EtagsTell'
        BY <3>1, <3>2, <3>3, NoItemIsNone DEF RepositoryInv, RepositoryTypes, EtagsTell
      <3>6. ItemMatchesHistory'
        BY <3>1, <3>2 DEF RepositoryInv, ItemMatchesHistory, Repository!ItemMatchesHistory
      <3>7. QED
        BY <3>4, <3>5, <3>6 DEF RepositoryInv
    <2>3. QED
      BY <2>1, <2>2
  <1>3. ASSUME NEW c \in Client, NEW k \in Key, Repository!Patch(c, k)
        PROVE  RepositoryInv'
    <2>1. CASE Repository!Matches(k, read[c][k].etag)
      <3> DEFINE ttl == Repository!Remaining(items[k])
                 count == read[c][k].count + 1
      <3>1. /\ Repository!Kept[k] = items[k] /\ items[k] # Repository!NoItem
            /\ read[c][k].etag = items[k].etag
        BY <2>1, KeptFacts DEF Repository!Matches
      <3>2. /\ Repository!Stored(k, count, ttl) /\ read' = read /\ storeClock' = storeClock
            /\ fate' = [fate EXCEPT ![k].increments = @ + 1]
        BY <1>3, <2>1, <3>1 DEF Repository!Patch
      <3>3. /\ items[k] \in Item /\ read[c][k].count = items[k].count
            /\ fate[k] = [increments |-> items[k].count, expires |-> items[k].expires]
        BY <3>1 DEF RepositoryInv, RepositoryTypes, EtagsTell, Slot, ItemMatchesHistory,
           Repository!ItemMatchesHistory
      <3>4. storeClock + ttl = items[k].expires /\ items[k].expires \in Nat
            /\ items[k].count \in Nat
        BY <3>3 DEF Repository!Remaining, Item, RepositoryInv, RepositoryTypes
      <3>5. count = items[k].count + 1 /\ count \in Nat
        BY <3>3, <3>4
      <3> HIDE DEF ttl, count
      <3>6. [fate[k] EXCEPT !.increments = @ + 1] = [increments |-> count, expires |-> storeClock + ttl]
        BY <3>3, <3>4, <3>5
      <3>7. /\ fate' \in [Key -> [increments : Nat, expires : Nat]]
            /\ \A j \in Key \ {k} : fate'[j] = fate[j]
            /\ fate'[k] = [increments |-> count, expires |-> storeClock + ttl]
        BY <3>2, <3>4, <3>5, <3>6 DEF RepositoryInv, RepositoryTypes
      <3>8. QED
        BY <3>2, <3>4, <3>5, <3>7, StoreKeeps
    <2>2. CASE ~Repository!Matches(k, read[c][k].etag)
      BY <1>3, <2>2, PurgeKeeps DEF Repository!Patch
    <2>3. QED
      BY <2>1, <2>2
  <1>4. CASE Repository!Query
    BY <1>4, PurgeKeeps DEF Repository!Query
  <1>5. CASE Repository!Advance
    BY <1>5 DEF Repository!Advance, RepositoryInv, RepositoryTypes, EtagsTell,
       ItemMatchesHistory, Repository!ItemMatchesHistory
  <1>6. CASE UNCHANGED repositoryVars
    BY <1>6 DEF repositoryVars, RepositoryInv, RepositoryTypes, EtagsTell,
       ItemMatchesHistory, Repository!ItemMatchesHistory
  <1>7. QED
    BY <1>1, <1>2, <1>3, <1>4, <1>5, <1>6 DEF Repository!Next

\* An item is what its creation and the acknowledged patches made of it: no increment is
\* lost or repeated and no patch moves the expiry, for any clients, keys and times to live.
THEOREM ItemsAlwaysMatchHistory == Repository!Spec => []ItemMatchesHistory
  <1>1. Repository!Init => RepositoryInv
    BY NoItemIsNone DEF Repository!Init, RepositoryInv, RepositoryTypes, EtagsTell, Slot,
       ItemMatchesHistory, Repository!ItemMatchesHistory
  <1>2. RepositoryInv /\ [Repository!Next]_repositoryVars => RepositoryInv'
    BY RepositoryStep
  <1>3. RepositoryInv => ItemMatchesHistory
    BY DEF RepositoryInv
  <1>4. QED
    BY <1>1, <1>2, <1>3, PTL DEF Repository!Spec, Repository!vars, repositoryVars

-----------------------------------------------------------------------------
(* Versions of the stateless service *)

Stage == {"idle", "sent", "checked", "started", "done"}

CallKind == {"", "drain", "livez", "list", "create", "get", "patch"}

CallState ==
    [stage : Stage, instance : Pool \union {0}, kind : CallKind, key : ServiceKey \union {0},
     ifMatch : Nat, fields : SUBSET {"title", "status"}, seen : SUBSET (ServiceKey \X Nat)]

Version == [etag : Nat, title : Nat, status : Nat]

Written == [key : ServiceKey, basis : Nat, fields : SUBSET {"title", "status"}, made : CallKind]

ServiceTypes ==
    /\ stored \in [ServiceKey -> Version]
    /\ counter \in Nat /\ counter = Len(history)
    /\ history \in Seq(Written)
    /\ request \in [Task -> CallState]
    /\ known \in [Task -> [ServiceKey -> Nat]]
    /\ inFlight \in [Pool -> Int]
    /\ \A c \in Task : request[c].stage # "idle" =>
          /\ request[c].instance \in Pool
          /\ request[c].kind \in {"create", "get", "patch"} => request[c].key \in ServiceKey

\* e is the version of its key on which the n-th write came.
IsBefore(n, e) ==
    /\ e \in 0..(n - 1)
    /\ e # 0 => history[e].key = history[n].key
    /\ \A later \in (e + 1)..(n - 1) : history[later].key # history[n].key

Chained ==
    \A n \in DOMAIN history :
        IF history[n].made = "create" THEN IsBefore(n, 0)
        ELSE history[n].basis # 0 /\ IsBefore(n, history[n].basis)

\* The last write of a key, or of a field of it, is what the repository shows.
LastWrite(S, e) == e \in S /\ \A n \in S : n <= e
WritesOf(k) == {n \in DOMAIN history : history[n].key = k}
Carrying(k, field) ==
    {n \in WritesOf(k) : history[n].made = "create" \/ field \in history[n].fields}

Current ==
    \A k \in ServiceKey :
        \/ stored[k] = Service!NoTask /\ WritesOf(k) = {}
        \/ /\ stored[k].etag # 0
           /\ LastWrite(WritesOf(k), stored[k].etag)
           /\ LastWrite(Carrying(k, "title"), stored[k].title)
           /\ LastWrite(Carrying(k, "status"), stored[k].status)

Working(i) ==
    {c \in Task : request[c].instance = i /\ request[c].stage \in {"started", "done"}}

Counted ==
    \A i \in Pool : IsFiniteSet(Working(i)) /\ inFlight[i] = Cardinality(Working(i))

ServiceInv == ServiceTypes /\ Chained /\ Current /\ Counted

LEMMA NoTaskFacts ==
    /\ Service!NoTask \in Version /\ Service!NoTask.etag = 0
    /\ Service!NoCall \in CallState /\ Service!NoCall.stage = "idle"
    /\ \A i \in Pool :
          /\ Service!Request(i) \in CallState /\ Service!Request(i).stage = "sent"
          /\ Service!Request(i).instance = i /\ Service!Request(i).kind = ""
  BY DEF Service!NoTask, Version, Service!NoCall, CallState, Stage, CallKind, Service!Request

\* What a step of a request that writes nothing keeps.
LEMMA NothingWritten ==
    ASSUME ServiceInv, UNCHANGED <<stored, counter, history>>
    PROVE  Chained' /\ Current'
  BY DEF ServiceInv, Chained, Current, IsBefore, LastWrite, WritesOf, Carrying

LEMMA CallMoves ==
    ASSUME ServiceInv, UNCHANGED <<stored, counter, history>>, NEW c \in Task, NEW r \in CallState,
           request' = [request EXCEPT ![c] = r],
           r.stage # "idle" =>
              /\ r.instance \in Pool
              /\ r.kind \in {"create", "get", "patch"} => r.key \in ServiceKey,
           known' \in [Task -> [ServiceKey -> Nat]],
           inFlight' \in [Pool -> Int], Counted'
    PROVE  ServiceInv'
  <1>1. Chained' /\ Current'
    BY NothingWritten
  <1>2. ServiceTypes'
    BY DEF ServiceInv, ServiceTypes
  <1>3. QED
    BY <1>1, <1>2 DEF ServiceInv

\* Requests that neither begin nor end work leave the counts right.
LEMMA CountsStay ==
    ASSUME ServiceInv, NEW c \in Task, NEW r \in CallState,
           request' = [request EXCEPT ![c] = r], UNCHANGED inFlight,
           \/ r.stage \notin {"started", "done"} /\ request[c].stage \notin {"started", "done"}
           \/ /\ r.stage \in {"started", "done"} /\ request[c].stage \in {"started", "done"}
              /\ r.instance = request[c].instance
    PROVE  Counted'
  <1>1. \A v \in Task : request'[v] = IF v = c THEN r ELSE request[v]
    BY DEF ServiceInv, ServiceTypes
  <1>2. \A i \in Pool : Working(i)' = Working(i)
    BY <1>1 DEF Working
  <1>3. QED
    BY <1>2 DEF ServiceInv, Counted

\* A write that came on the version its client had seen, or on none, is the next in its
\* key's chain.
LEMMA WriteKeeps ==
    ASSUME ServiceInv, NEW c \in Task, NEW task \in Version, Service!Write(c, task),
           request[c].stage # "idle", request[c].kind \in {"create", "patch"},
           request[c].kind = "create" => stored[request[c].key] = Service!NoTask
                                          /\ task.title = counter + 1 /\ task.status = counter + 1,
           request[c].kind = "patch" =>
              /\ request[c].ifMatch # 0 /\ stored[request[c].key].etag = request[c].ifMatch
              /\ task.title = IF "title" \in request[c].fields THEN counter + 1
                              ELSE stored[request[c].key].title
              /\ task.status = IF "status" \in request[c].fields THEN counter + 1
                               ELSE stored[request[c].key].status
    PROVE  /\ stored' \in [ServiceKey -> Version]
           /\ counter' \in Nat /\ counter' = Len(history')
           /\ history' \in Seq(Written)
           /\ Chained' /\ Current'
  <1>1. PICK k, N, new, version :
            /\ k = request[c].key /\ N = counter + 1
            /\ new = [key |-> k, basis |-> request[c].ifMatch, fields |-> request[c].fields,
                      made |-> request[c].kind]
            /\ version = [task EXCEPT !.etag = N]
    OBVIOUS
  <1>2. request[c] \in CallState /\ k \in ServiceKey
    BY <1>1 DEF ServiceInv, ServiceTypes
  <1>3. /\ new \in Written /\ new.key = k /\ new.basis = request[c].ifMatch
        /\ new.fields = request[c].fields /\ new.made = request[c].kind
    BY <1>1, <1>2 DEF Written, CallState
  <1>4. counter \in Nat /\ counter = Len(history) /\ history \in Seq(Written)
    BY DEF ServiceInv, ServiceTypes
  <1>5. /\ version \in Version /\ version.etag = N /\ version.title = task.title
        /\ version.status = task.status
    BY <1>1, <1>4 DEF Version
  <1>6. /\ counter' = N
        /\ stored' = [stored EXCEPT ![k] = version]
        /\ history' = Append(history, new)
    BY <1>1 DEF Service!Write
  <1>7. /\ history' \in Seq(Written) /\ Len(history') = N
        /\ DOMAIN history = 1..counter /\ DOMAIN history' = 1..N
        /\ \A n \in 1..counter : history'[n] = history[n]
        /\ history'[N] = new
        /\ stored' \in [ServiceKey -> Version] /\ stored'[k] = version
        /\ \A j \in ServiceKey \ {k} : stored'[j] = stored[j]
    <2>1. /\ history' \in Seq(Written) /\ Len(history') = N
          /\ DOMAIN history = 1..counter /\ DOMAIN history' = 1..N
          /\ \A n \in 1..counter : history'[n] = history[n]
          /\ history'[N] = new
      BY <1>1, <1>3, <1>4, <1>6
    <2>2. /\ stored' \in [ServiceKey -> Version] /\ stored'[k] = version
          /\ \A j \in ServiceKey \ {k} : stored'[j] = stored[j]
      BY <1>2, <1>5, <1>6 DEF ServiceInv, ServiceTypes
    <2>3. QED
      BY <2>1, <2>2
  <1>8. N \in Nat /\ N \in 1..N /\ 1..N = (1..counter) \union {N} /\ N \notin 1..counter
    BY <1>1, <1>4
  <1>9. /\ \A j \in ServiceKey \ {k} : WritesOf(j)' = WritesOf(j)
        /\ WritesOf(k)' = WritesOf(k) \union {N}
    BY <1>3, <1>7, <1>8 DEF WritesOf
  <1>10. \A j \in ServiceKey \ {k}, f \in {"title", "status"} : Carrying(j, f)' = Carrying(j, f)
    BY <1>3, <1>7, <1>8, <1>9 DEF Carrying, WritesOf
  <1>11. \A f \in {"title", "status"} :
            Carrying(k, f)' = IF new.made = "create" \/ f \in new.fields
                              THEN Carrying(k, f) \union {N} ELSE Carrying(k, f)
    BY <1>3, <1>7, <1>8, <1>9 DEF Carrying, WritesOf
  <1>12. \A n \in 1..counter : n < N /\ n <= N
    BY <1>1, <1>4
  <1>13. \A f \in {"title", "status"} : Carrying(k, f) \subseteq 1..counter
    BY <1>7 DEF Carrying, WritesOf
  <1>14. WritesOf(k) \subseteq 1..counter
    BY <1>7 DEF WritesOf
  <1>15. LastWrite(WritesOf(k), stored[k].etag) \/ new.made = "create"
    BY <1>1, <1>2, <1>3, NoTaskFacts DEF ServiceInv, Current
  <1>16. Current'
    <2>1. ASSUME NEW j \in ServiceKey \ {k}
          PROVE  \/ stored'[j] = Service!NoTask /\ WritesOf(j)' = {}
                 \/ /\ stored'[j].etag # 0
                    /\ LastWrite(WritesOf(j)', stored'[j].etag)
                    /\ LastWrite(Carrying(j, "title")', stored'[j].title)
                    /\ LastWrite(Carrying(j, "status")', stored'[j].status)
      BY <1>7, <1>9, <1>10 DEF ServiceInv, Current
    <2>2. stored'[k].etag # 0 /\ LastWrite(WritesOf(k)', stored'[k].etag)
      <3>1. N # 0
        BY <1>8
      <3>2. QED
        BY <1>5, <1>7, <1>8, <1>9, <1>12, <1>14, <3>1 DEF LastWrite
    <2>3. LastWrite(Carrying(k, "title")', stored'[k].title)
      <3>1. CASE new.made = "create" \/ "title" \in new.fields
        <4>1. stored'[k].title = N
          BY <1>1, <1>3, <1>5, <1>7, <3>1
        <4>2. QED
          BY <1>8, <1>11, <1>12, <1>13, <3>1, <4>1 DEF LastWrite
      <3>2. CASE ~(new.made = "create" \/ "title" \in new.fields)
        <4>1. stored'[k].title = stored[k].title /\ stored[k].etag # 0
          BY <1>1, <1>3, <1>5, <1>7, <3>2
        <4>2. LastWrite(Carrying(k, "title"), stored[k].title)
          BY <1>2, <4>1, NoTaskFacts DEF ServiceInv, Current
        <4>3. QED
          BY <1>11, <3>2, <4>1, <4>2
      <3>3. QED
        BY <3>1, <3>2
    <2>4. LastWrite(Carrying(k, "status")', stored'[k].status)
      <3>1. CASE new.made = "create" \/ "status" \in new.fields
        <4>1. stored'[k].status = N
          BY <1>1, <1>3, <1>5, <1>7, <3>1
        <4>2. QED
          BY <1>8, <1>11, <1>12, <1>13, <3>1, <4>1 DEF LastWrite
      <3>2. CASE ~(new.made = "create" \/ "status" \in new.fields)
        <4>1. stored'[k].status = stored[k].status /\ stored[k].etag # 0
          BY <1>1, <1>3, <1>5, <1>7, <3>2
        <4>2. LastWrite(Carrying(k, "status"), stored[k].status)
          BY <1>2, <4>1, NoTaskFacts DEF ServiceInv, Current
        <4>3. QED
          BY <1>11, <3>2, <4>1, <4>2
      <3>3. QED
        BY <3>1, <3>2
    <2>5. QED
      BY <2>1, <2>2, <2>3, <2>4 DEF Current, LastWrite, WritesOf, Carrying
  <1>17. Chained'
    <2>1. ASSUME NEW n \in 1..counter, NEW e
          PROVE  IsBefore(n, e) => IsBefore(n, e)'
      <3>1. \A m \in 0..(n - 1) : m # 0 => m \in 1..counter
        BY <1>4
      <3>2. ASSUME e \in 0..(n - 1)
            PROVE  \A m \in (e + 1)..(n - 1) : m \in 1..counter
        BY <1>4, <3>2
      <3>3. QED
        BY <1>7, <3>1, <3>2 DEF IsBefore
    <2>2. ASSUME NEW n \in 1..counter
          PROVE  (IF history[n].made = "create" THEN IsBefore(n, 0)
                  ELSE history[n].basis # 0 /\ IsBefore(n, history[n].basis))'
      <3>1. IF history[n].made = "create" THEN IsBefore(n, 0)
            ELSE history[n].basis # 0 /\ IsBefore(n, history[n].basis)
        BY <1>7 DEF ServiceInv, Chained
      <3>2. PICK b : b = history[n].basis
        OBVIOUS
      <3>3. history'[n] = history[n]
        BY <1>7
      <3>4. CASE history[n].made = "create"
        BY <2>1, <3>1, <3>3, <3>4
      <3>5. CASE history[n].made # "create"
        <4>1. b # 0 /\ IsBefore(n, b)'
          BY <2>1, <3>1, <3>2, <3>5
        <4>2. QED
          BY <3>2, <3>3, <3>5, <4>1 DEF IsBefore
      <3>6. QED
        BY <3>4, <3>5
    <2>3. CASE new.made = "create"
      <3>1. WritesOf(k) = {}
        BY <1>1, <1>2, <1>3, <2>3, NoTaskFacts DEF ServiceInv, Current
      <3>2. \A m \in 1..counter : history[m].key # k
        BY <1>7, <3>1 DEF WritesOf
      <3>3. 1..(N - 1) = 1..counter /\ 0 \in 0..(N - 1)
        BY <1>1, <1>4
      <3>4. \A m \in (0 + 1)..(N - 1) : m \in 1..counter
        BY <1>1, <1>4
      <3>5. \A m \in (0 + 1)..(N - 1) : history'[m].key # history'[N].key
        BY <1>3, <1>7, <3>2, <3>4
      <3>6. IsBefore(N, 0)'
        BY <3>3, <3>5 DEF IsBefore
      <3>7. QED
        BY <1>7, <1>8, <2>2, <2>3, <3>6 DEF Chained
    <2>4. CASE new.made # "create"
      <3> DEFINE e == new.basis
      <3>1. e # 0 /\ e = stored[k].etag
        BY <1>1, <1>3, <2>4
      <3>2. LastWrite(WritesOf(k), e)
        BY <1>15, <2>4, <3>1
      <3>3. e \in 1..counter /\ history[e].key = k
        BY <1>7, <3>2 DEF LastWrite, WritesOf
      <3>4. \A m \in (e + 1)..(N - 1) : m \in 1..counter /\ history[m].key # k
        <4>1. ASSUME NEW m \in (e + 1)..(N - 1)
              PROVE  m \in 1..counter /\ history[m].key # k
          <5>1. m \in 1..counter /\ ~(m <= e)
            BY <1>1, <1>4, <3>3
          <5>2. QED
            BY <1>7, <3>2, <5>1 DEF LastWrite, WritesOf
        <4>2. QED
          BY <4>1
      <3>5. e \in 0..(N - 1)
        BY <1>1, <1>4, <3>3
      <3>6. IsBefore(N, e)'
        <4>1. history'[N].key = k /\ history'[e].key = k
          BY <1>3, <1>7, <3>3
        <4>2. \A m \in (e + 1)..(N - 1) : history'[m].key # k
          BY <1>7, <3>4
        <4>3. QED
          BY <3>5, <4>1, <4>2 DEF IsBefore
      <3>7. history'[N].basis = e /\ history'[N].made # "create"
        BY <1>7, <2>4
      <3>8. QED
        BY <1>7, <1>8, <2>2, <3>1, <3>6, <3>7 DEF Chained
    <2>5. QED
      BY <2>3, <2>4
  <1>18. QED
    BY <1>6, <1>7, <1>8, <1>16, <1>17

\* The answer on its way says nothing but what was seen.
LEMMA AnswerFacts ==
    ASSUME ServiceInv, NEW c \in Task, request[c].stage # "idle",
           NEW seen, seen \subseteq ServiceKey \X Nat, Service!Answer(c, seen)
    PROVE  \E r \in CallState :
              /\ request' = [request EXCEPT ![c] = r]
              /\ r.stage = "done" /\ r.kind = "" /\ r.instance = request[c].instance
              /\ r.instance \in Pool
  <1>1. request[c].instance \in Pool /\ request \in [Task -> CallState]
    BY DEF ServiceInv, ServiceTypes
  <1>2. PICK r : r = [Service!Request(request[c].instance) EXCEPT !.stage = "done", !.seen = seen]
    OBVIOUS
  <1>3. /\ r \in CallState
        /\ r.stage = "done" /\ r.kind = "" /\ r.instance = request[c].instance
    <2>1. PICK q \in CallState : /\ q = Service!Request(request[c].instance)
                                /\ q.kind = "" /\ q.instance = request[c].instance
      BY <1>1, NoTaskFacts
    <2>2. r = [q EXCEPT !.stage = "done", !.seen = seen]
      BY <1>2, <2>1
    <2>3. QED
      BY <2>1, <2>2 DEF CallState, Stage
  <1>4. request' = [request EXCEPT ![c] = r]
    BY <1>1, <1>2 DEF Service!Answer
  <1>5. QED
    BY <1>1, <1>3, <1>4

\* Work that begins or ends is counted at its instance.
LEMMA CountsMove ==
    ASSUME ServiceInv, NEW c \in Task, NEW r \in CallState,
           request' = [request EXCEPT ![c] = r], NEW j \in Pool, request[c].instance = j,
           \/ /\ request[c].stage \notin {"started", "done"} /\ r.stage \in {"started", "done"}
              /\ r.instance = j /\ inFlight' = [inFlight EXCEPT ![j] = @ + 1]
           \/ /\ request[c].stage \in {"started", "done"} /\ r.stage \notin {"started", "done"}
              /\ inFlight' = [inFlight EXCEPT ![j] = @ - 1]
    PROVE  Counted' /\ inFlight' \in [Pool -> Int]
  <1>1. \A v \in Task : request'[v] = IF v = c THEN r ELSE request[v]
    BY DEF ServiceInv, ServiceTypes
  <1>2. inFlight \in [Pool -> Int]
    BY DEF ServiceInv, ServiceTypes
  <1>3. \A i \in Pool : IsFiniteSet(Working(i)) /\ inFlight[i] = Cardinality(Working(i))
    BY DEF ServiceInv, Counted
  <1>4. \A i \in Pool \ {j} : Working(i)' = Working(i)
    BY <1>1 DEF Working
  <1>5. CASE request[c].stage \notin {"started", "done"} /\ r.stage \in {"started", "done"}
    <2>1. r.instance = j /\ inFlight' = [inFlight EXCEPT ![j] = @ + 1]
      BY <1>5
    <2>2. Working(j)' = Working(j) \union {c} /\ c \notin Working(j)
      BY <1>1, <1>5, <2>1 DEF Working
    <2>3. /\ IsFiniteSet(Working(j) \union {c})
          /\ Cardinality(Working(j) \union {c}) = Cardinality(Working(j)) + 1
      BY <1>3, <2>2, FS_AddElement
    <2>4. /\ inFlight'[j] = inFlight[j] + 1 /\ \A i \in Pool \ {j} : inFlight'[i] = inFlight[i]
          /\ inFlight' \in [Pool -> Int]
      BY <1>2, <2>1
    <2>5. ASSUME NEW i \in Pool
          PROVE  IsFiniteSet(Working(i)') /\ inFlight'[i] = Cardinality(Working(i)')
      <3>1. CASE i = j
        BY <1>3, <2>2, <2>3, <2>4, <3>1
      <3>2. CASE i # j
        BY <1>3, <1>4, <2>4, <3>2
      <3>3. QED
        BY <3>1, <3>2
    <2>6. QED
      BY <2>4, <2>5 DEF Counted
  <1>6. CASE request[c].stage \in {"started", "done"} /\ r.stage \notin {"started", "done"}
    <2>1. inFlight' = [inFlight EXCEPT ![j] = @ - 1]
      BY <1>6
    <2>2. Working(j)' = Working(j) \ {c} /\ c \in Working(j)
      BY <1>1, <1>6 DEF Working
    <2>3. /\ IsFiniteSet(Working(j) \ {c})
          /\ Cardinality(Working(j) \ {c}) = Cardinality(Working(j)) - 1
      BY <1>3, <2>2, FS_RemoveElement
    <2>4. /\ inFlight'[j] = inFlight[j] - 1 /\ \A i \in Pool \ {j} : inFlight'[i] = inFlight[i]
          /\ inFlight' \in [Pool -> Int]
      BY <1>2, <2>1
    <2>5. ASSUME NEW i \in Pool
          PROVE  IsFiniteSet(Working(i)') /\ inFlight'[i] = Cardinality(Working(i)')
      <3>1. CASE i = j
        BY <1>3, <2>2, <2>3, <2>4, <3>1
      <3>2. CASE i # j
        BY <1>3, <1>4, <2>4, <3>2
      <3>3. QED
        BY <3>1, <3>2
    <2>6. QED
      BY <2>4, <2>5 DEF Counted
  <1>7. QED
    BY <1>5, <1>6

\* The codes that let a write through.
LEMMA CodesOfWrites ==
    ASSUME NEW c \in Task
    PROVE  /\ request[c].kind = "create" /\ Service!CodeOf(c) = 201 =>
                 stored[request[c].key] = Service!NoTask
           /\ request[c].kind = "patch" /\ Service!CodeOf(c) = 200 =>
                 /\ request[c].ifMatch # 0
                 /\ stored[request[c].key].etag = request[c].ifMatch
  BY DEF Service!CodeOf, Service!StillCurrent

\* A handler that only answers.
LEMMA AnswerKeeps ==
    ASSUME ServiceInv, NEW c \in Task, request[c].stage = "started",
           NEW seen, seen \subseteq ServiceKey \X Nat, Service!Answer(c, seen),
           UNCHANGED <<stored, counter, history, inFlight, known>>
    PROVE  ServiceInv'
  <1>1. PICK r \in CallState :
              /\ request' = [request EXCEPT ![c] = r]
              /\ r.stage = "done" /\ r.kind = "" /\ r.instance = request[c].instance
              /\ r.instance \in Pool
    BY AnswerFacts
  <1>2. Counted'
    BY <1>1, CountsStay
  <1>3. known' \in [Task -> [ServiceKey -> Nat]] /\ inFlight' \in [Pool -> Int]
    BY DEF ServiceInv, ServiceTypes
  <1>4. QED
    BY <1>1, <1>2, <1>3, CallMoves

\* A handler that writes.
LEMMA WriteAnswerKeeps ==
    ASSUME ServiceInv, NEW c \in Task, request[c].stage = "started",
           Service!Answer(c, {<<request[c].key, counter + 1>>}),
           UNCHANGED <<inFlight, known>>,
           \/ /\ request[c].kind = "create" /\ Service!CodeOf(c) = 201
              /\ Service!Write(c, [Service!NoTask EXCEPT !.title = counter + 1, !.status = counter + 1])
           \/ /\ request[c].kind = "patch" /\ Service!CodeOf(c) = 200
              /\ Service!Write(c, Service!Patched(stored[request[c].key], request[c].fields))
    PROVE  ServiceInv'
  <1>1. /\ counter \in Nat /\ request[c].key \in ServiceKey
        /\ stored[request[c].key] \in Version
    BY DEF ServiceInv, ServiceTypes
  <1>2. {<<request[c].key, counter + 1>>} \subseteq ServiceKey \X Nat
    BY <1>1
  <1>3. PICK r \in CallState :
              /\ request' = [request EXCEPT ![c] = r]
              /\ r.stage = "done" /\ r.kind = "" /\ r.instance = request[c].instance
              /\ r.instance \in Pool
    BY <1>2, AnswerFacts
  <1>4. Counted'
    BY <1>3, CountsStay
  <1>5. /\ stored' \in [ServiceKey -> Version]
        /\ counter' \in Nat /\ counter' = Len(history')
        /\ history' \in Seq(Written)
        /\ Chained' /\ Current'
    <2>1. CASE request[c].kind = "create"
      <3> DEFINE task == [Service!NoTask EXCEPT !.title = counter + 1, !.status = counter + 1]
      <3>1. task \in Version /\ task.title = counter + 1 /\ task.status = counter + 1
        <4>1. PICK none \in Version : none = Service!NoTask
          BY NoTaskFacts
        <4>2. task = [none EXCEPT !.title = counter + 1, !.status = counter + 1]
          BY <4>1
        <4>3. counter + 1 \in Nat
          BY <1>1
        <4> HIDE DEF task
        <4>4. QED
          BY <4>1, <4>2, <4>3 DEF Version
      <3>2. Service!Write(c, task) /\ stored[request[c].key] = Service!NoTask
        BY <2>1, CodesOfWrites
      <3> HIDE DEF task
      <3>3. QED
        BY <2>1, <3>1, <3>2, WriteKeeps
    <2>2. CASE request[c].kind = "patch"
      <3> DEFINE task == Service!Patched(stored[request[c].key], request[c].fields)
      <3>1. /\ task \in Version
            /\ task.title = IF "title" \in request[c].fields THEN counter + 1
                            ELSE stored[request[c].key].title
            /\ task.status = IF "status" \in request[c].fields THEN counter + 1
                             ELSE stored[request[c].key].status
        <4>1. PICK old \in Version : old = stored[request[c].key]
          BY <1>1
        <4>2. PICK t, u : /\ t = (IF "title" \in request[c].fields THEN counter + 1 ELSE old.title)
                          /\ u = (IF "status" \in request[c].fields THEN counter + 1 ELSE old.status)
          OBVIOUS
        <4>3. task = [old EXCEPT !.title = t, !.status = u]
          BY <4>1, <4>2 DEF Service!Patched
        <4>4. t \in Nat /\ u \in Nat
          BY <1>1, <4>1, <4>2 DEF Version
        <4> HIDE DEF task
        <4>5. QED
          BY <4>1, <4>2, <4>3, <4>4 DEF Version
      <3>2. /\ Service!Write(c, task)
            /\ request[c].ifMatch # 0 /\ stored[request[c].key].etag = request[c].ifMatch
        BY <2>2, CodesOfWrites
      <3> HIDE DEF task
      <3>3. QED
        BY <2>2, <3>1, <3>2, WriteKeeps
    <2>3. QED
      BY <2>1, <2>2
  <1>6. /\ known' \in [Task -> [ServiceKey -> Nat]] /\ inFlight' \in [Pool -> Int]
        /\ request \in [Task -> CallState]
        /\ \A v \in Task : request[v].stage # "idle" =>
              /\ request[v].instance \in Pool
              /\ request[v].kind \in {"create", "get", "patch"} => request[v].key \in ServiceKey
    BY DEF ServiceInv, ServiceTypes
  <1>7. /\ request' \in [Task -> CallState]
        /\ \A v \in Task : request'[v] = IF v = c THEN r ELSE request[v]
    BY <1>3, <1>6
  <1>8. \A v \in Task : request'[v].stage # "idle" =>
              /\ request'[v].instance \in Pool
              /\ request'[v].kind \in {"create", "get", "patch"} => request'[v].key \in ServiceKey
    BY <1>3, <1>6, <1>7
  <1>9. QED
    BY <1>4, <1>5, <1>6, <1>7, <1>8 DEF ServiceInv, ServiceTypes

LEMMA HandleKeeps ==
    ASSUME ServiceInv, NEW c \in Task, Service!Handle(c)
    PROVE  ServiceInv'
  <1>1. request[c].stage = "started" /\ UNCHANGED <<inFlight, known>>
    BY DEF Service!Handle
  <1>2. CASE \E seen \in SUBSET (ServiceKey \X Nat) :
                Service!Answer(c, seen) /\ UNCHANGED <<stored, counter, history>>
    BY <1>1, <1>2, AnswerKeeps
  <1>3. CASE /\ Service!Answer(c, {<<request[c].key, counter + 1>>})
             /\ \/ /\ request[c].kind = "create" /\ Service!CodeOf(c) = 201
                   /\ Service!Write(c, [Service!NoTask EXCEPT !.title = counter + 1,
                                                             !.status = counter + 1])
                \/ /\ request[c].kind = "patch" /\ Service!CodeOf(c) = 200
                   /\ Service!Write(c, Service!Patched(stored[request[c].key], request[c].fields))
    BY <1>1, <1>3, WriteAnswerKeeps
  <1>4. CASE /\ request[c].kind \in {"get", "list"}
             /\ Service!Answer(c, {<<k, stored[k].etag>> :
                    k \in IF request[c].kind = "list"
                          THEN {k \in ServiceKey : stored[k] # Service!NoTask}
                          ELSE {request[c].key}})
             /\ UNCHANGED <<stored, counter, history>>
    <2> DEFINE K == IF request[c].kind = "list"
                    THEN {k \in ServiceKey : stored[k] # Service!NoTask}
                    ELSE {request[c].key}
               seen == {<<k, stored[k].etag>> : k \in K}
    <2>1. K \subseteq ServiceKey
      BY <1>1, <1>4 DEF ServiceInv, ServiceTypes
    <2>2. \A k \in ServiceKey : stored[k].etag \in Nat
      BY DEF ServiceInv, ServiceTypes, Version
    <2>3. Service!Answer(c, seen)
      BY <1>4
    <2> HIDE DEF K
    <2>4. seen \subseteq ServiceKey \X Nat
      BY <2>1, <2>2
    <2> HIDE DEF seen
    <2>5. QED
      BY <1>1, <1>4, <2>3, <2>4, AnswerKeeps
  <1>5. {} \in SUBSET (ServiceKey \X Nat)
    OBVIOUS
  <1>6. QED
    BY <1>2, <1>3, <1>4, <1>5 DEF Service!Handle

LEMMA SendKeeps ==
    ASSUME ServiceInv, NEW c \in Task, Service!Send(c)
    PROVE  ServiceInv'
  <1>1. /\ request[c].stage = "idle"
        /\ UNCHANGED <<draining, inFlight, ready, stored, counter, known, history>>
    BY DEF Service!Send
  <1>2. /\ known \in [Task -> [ServiceKey -> Nat]] /\ inFlight \in [Pool -> Int]
        /\ request \in [Task -> CallState]
    BY DEF ServiceInv, ServiceTypes
  <1>3. PICK r \in CallState :
           /\ request' = [request EXCEPT ![c] = r]
           /\ r.stage = "sent" /\ r.instance \in Pool
           /\ r.kind \in {"create", "get", "patch"} => r.key \in ServiceKey
    <2>1. CASE \E i \in Pool, kind \in Service!Health \union {"list"} :
              request' = [request EXCEPT ![c] = [Service!Request(i) EXCEPT !.kind = kind]]
      <3>1. PICK i \in Pool, kind \in Service!Health \union {"list"} :
              request' = [request EXCEPT ![c] = [Service!Request(i) EXCEPT !.kind = kind]]
        BY <2>1
      <3>2. PICK q \in CallState : q = Service!Request(i) /\ q.stage = "sent" /\ q.instance = i
        BY NoTaskFacts
      <3>3. PICK r : r = [q EXCEPT !.kind = kind]
        OBVIOUS
      <3>4. kind \in CallKind
        BY DEF Service!Health, CallKind
      <3>5. r \in CallState /\ r.stage = "sent" /\ r.instance \in Pool /\ r.kind = kind
        BY <3>2, <3>3, <3>4 DEF CallState
      <3>6. kind \notin {"create", "get", "patch"}
        BY <3>2, <3>3, <3>4 DEF CallState, CallKind, Service!Health
      <3>7. request' = [request EXCEPT ![c] = r]
        BY <3>1, <3>2, <3>3
      <3>8. QED
        BY <3>5, <3>6, <3>7
    <2>2. CASE \E i \in Pool, kind \in {"create", "get"}, k \in ServiceKey :
              request' = [request EXCEPT ![c] = [Service!Request(i) EXCEPT !.kind = kind, !.key = k]]
      <3>1. PICK i \in Pool, kind \in {"create", "get"}, k \in ServiceKey :
              request' = [request EXCEPT ![c] = [Service!Request(i) EXCEPT !.kind = kind, !.key = k]]
        BY <2>2
      <3>2. PICK q \in CallState : q = Service!Request(i) /\ q.stage = "sent" /\ q.instance = i
        BY NoTaskFacts
      <3>3. PICK r : r = [q EXCEPT !.kind = kind, !.key = k]
        OBVIOUS
      <3>4. kind \in CallKind /\ k \in ServiceKey \union {0}
        BY DEF CallKind
      <3>5. r \in CallState /\ r.stage = "sent" /\ r.instance \in Pool /\ r.kind = kind
        BY <3>2, <3>3, <3>4 DEF CallState
      <3>6. r.key = k
        BY <3>2, <3>3, <3>4 DEF CallState
      <3>7. request' = [request EXCEPT ![c] = r]
        BY <3>1, <3>2, <3>3
      <3>8. QED
        BY <3>5, <3>6, <3>7
    <2>3. CASE \E i \in Pool, k \in ServiceKey, fields \in SUBSET {"title", "status"} \ {{}} :
                \E e \in {0, known[c][k]} :
                  request' = [request EXCEPT ![c] =
                     [Service!Request(i) EXCEPT !.kind = "patch", !.key = k,
                                                !.fields = fields, !.ifMatch = e]]
      <3>1. PICK i \in Pool, k \in ServiceKey, fields \in SUBSET {"title", "status"} \ {{}} :
                \E e \in {0, known[c][k]} :
                  request' = [request EXCEPT ![c] =
                     [Service!Request(i) EXCEPT !.kind = "patch", !.key = k,
                                                !.fields = fields, !.ifMatch = e]]
        BY <2>3
      <3>2. PICK e \in {0, known[c][k]} :
                  request' = [request EXCEPT ![c] =
                     [Service!Request(i) EXCEPT !.kind = "patch", !.key = k,
                                                !.fields = fields, !.ifMatch = e]]
        BY <3>1
      <3>3. PICK q \in CallState : q = Service!Request(i) /\ q.stage = "sent" /\ q.instance = i
        BY NoTaskFacts
      <3>4. PICK r : r = [q EXCEPT !.kind = "patch", !.key = k, !.fields = fields, !.ifMatch = e]
        OBVIOUS
      <3>5. /\ e \in Nat /\ "patch" \in CallKind /\ k \in ServiceKey \union {0}
            /\ fields \in SUBSET {"title", "status"}
        BY <1>2 DEF CallKind
      <3>6. r \in CallState /\ r.stage = "sent" /\ r.instance \in Pool /\ r.key = k
        BY <3>3, <3>4, <3>5 DEF CallState
      <3>7. request' = [request EXCEPT ![c] = r]
        BY <3>2, <3>3, <3>4
      <3>8. QED
        BY <3>6, <3>7
    <2>4. QED
      BY <2>1, <2>2, <2>3 DEF Service!Send
  <1>4. Counted'
    BY <1>1, <1>3, CountsStay
  <1>5. known' \in [Task -> [ServiceKey -> Nat]] /\ inFlight' \in [Pool -> Int]
    BY <1>1, <1>2
  <1>6. QED
    BY <1>1, <1>3, <1>4, <1>5, CallMoves

LEMMA CheckKeeps ==
    ASSUME ServiceInv, NEW c \in Task, Service!Check(c)
    PROVE  ServiceInv'
  <1>1. /\ request[c].stage = "sent"
        /\ UNCHANGED <<inFlight, stored, counter, known, history>>
    BY DEF Service!Check
  <1>2. /\ known \in [Task -> [ServiceKey -> Nat]] /\ inFlight \in [Pool -> Int]
        /\ request \in [Task -> CallState] /\ request[c] \in CallState
        /\ request[c].instance \in Pool
        /\ request[c].kind \in {"create", "get", "patch"} => request[c].key \in ServiceKey
    BY <1>1 DEF ServiceInv, ServiceTypes
  <1>3. PICK r : r = (IF Service!TurnedAway(c) THEN Service!NoCall
                      ELSE [request[c] EXCEPT !.stage = "checked"])
    OBVIOUS
  <1>4. /\ r \in CallState /\ r.stage \notin {"started", "done"}
        /\ r.stage # "idle" =>
              /\ r.instance \in Pool
              /\ r.kind \in {"create", "get", "patch"} => r.key \in ServiceKey
    <2>1. CASE Service!TurnedAway(c)
      BY <1>3, <2>1, NoTaskFacts
    <2>2. CASE ~Service!TurnedAway(c)
      <3>1. r = [request[c] EXCEPT !.stage = "checked"]
        BY <1>3, <2>2
      <3>2. QED
        BY <1>2, <3>1 DEF CallState, Stage
    <2>3. QED
      BY <2>1, <2>2
  <1>5. request' = [request EXCEPT ![c] = r]
    BY <1>2, <1>3 DEF Service!Check
  <1>6. Counted'
    BY <1>1, <1>4, <1>5, CountsStay
  <1>7. QED
    BY <1>1, <1>2, <1>4, <1>5, <1>6, CallMoves

LEMMA StartKeeps ==
    ASSUME ServiceInv, NEW c \in Task, Service!Start(c)
    PROVE  ServiceInv'
  <1>1. /\ request[c].stage = "checked"
        /\ inFlight' = [inFlight EXCEPT ![request[c].instance] = @ + 1]
        /\ UNCHANGED <<stored, counter, known, history>>
    BY DEF Service!Start
  <1>2. /\ known \in [Task -> [ServiceKey -> Nat]]
        /\ request \in [Task -> CallState] /\ request[c] \in CallState
        /\ request[c].instance \in Pool
        /\ request[c].kind \in {"create", "get", "patch"} => request[c].key \in ServiceKey
    BY <1>1 DEF ServiceInv, ServiceTypes
  <1>3. PICK r : r = [request[c] EXCEPT !.stage = "started"]
    OBVIOUS
  <1>4. /\ r \in CallState /\ r.stage = "started" /\ r.instance = request[c].instance
        /\ r.kind = request[c].kind /\ r.key = request[c].key
    BY <1>2, <1>3 DEF CallState, Stage
  <1>5. request' = [request EXCEPT ![c] = r]
    BY <1>2, <1>3 DEF Service!Start
  <1>6. Counted' /\ inFlight' \in [Pool -> Int]
    BY <1>1, <1>2, <1>4, <1>5, CountsMove
  <1>7. QED
    BY <1>1, <1>2, <1>4, <1>5, <1>6, CallMoves

LEMMA FinishKeeps ==
    ASSUME ServiceInv, NEW c \in Task, Service!Finish(c)
    PROVE  ServiceInv'
  <1>1. /\ request[c].stage = "done"
        /\ inFlight' = [inFlight EXCEPT ![request[c].instance] = @ - 1]
        /\ request' = [request EXCEPT ![c] = Service!NoCall]
        /\ UNCHANGED <<stored, counter, history>>
    BY DEF Service!Finish
  <1>2. /\ known \in [Task -> [ServiceKey -> Nat]] /\ request[c] \in CallState
        /\ request[c].instance \in Pool
    BY <1>1 DEF ServiceInv, ServiceTypes
  <1>3. known' \in [Task -> [ServiceKey -> Nat]]
    <2> DEFINE seenOf(k) == IF \E e \in 1..MaxVersion : <<k, e>> \in request[c].seen
                            THEN CHOOSE e \in 1..MaxVersion : <<k, e>> \in request[c].seen
                            ELSE known[c][k]
    <2>1. request[c].seen \subseteq ServiceKey \X Nat
      BY <1>2 DEF CallState
    <2>2. ASSUME NEW k \in ServiceKey PROVE seenOf(k) \in Nat
      <3>1. CASE \E e \in 1..MaxVersion : <<k, e>> \in request[c].seen
        <4>1. <<k, seenOf(k)>> \in request[c].seen
          BY <3>1
        <4> HIDE DEF seenOf
        <4>2. QED
          BY <2>1, <4>1
      <3>2. CASE ~ \E e \in 1..MaxVersion : <<k, e>> \in request[c].seen
        BY <1>2, <3>2
      <3>3. QED
        BY <3>1, <3>2
    <2>3. known' = [known EXCEPT ![c] = [k \in ServiceKey |-> seenOf(k)]]
      BY <1>2 DEF Service!Finish
    <2> HIDE DEF seenOf
    <2>4. [k \in ServiceKey |-> seenOf(k)] \in [ServiceKey -> Nat]
      BY <2>2
    <2>5. QED
      BY <1>2, <2>3, <2>4
  <1>4. Service!NoCall \in CallState /\ Service!NoCall.stage = "idle"
    BY NoTaskFacts
  <1>5. Counted' /\ inFlight' \in [Pool -> Int]
    BY <1>1, <1>2, <1>4, CountsMove
  <1>6. QED
    BY <1>1, <1>3, <1>4, <1>5, CallMoves

LEMMA ServiceStep == ServiceInv /\ [Service!Next]_(Service!vars) => ServiceInv'
  <1> SUFFICES ASSUME ServiceInv, [Service!Next]_(Service!vars) PROVE ServiceInv'
    OBVIOUS
  <1>1. CASE UNCHANGED <<inFlight, stored, counter, request, known, history>>
    <2>1. Chained' /\ Current'
      BY <1>1, NothingWritten
    <2>2. ServiceTypes'
      BY <1>1 DEF ServiceInv, ServiceTypes
    <2>3. Counted'
      BY <1>1 DEF ServiceInv, Counted, Working
    <2>4. QED
      BY <2>1, <2>2, <2>3 DEF ServiceInv
  <1>2. CASE Service!SetReady
    BY <1>1, <1>2 DEF Service!SetReady
  <1>3. ASSUME NEW c \in Task,
               Service!Send(c) \/ Service!Check(c) \/ Service!Start(c)
                 \/ Service!Handle(c) \/ Service!Finish(c)
        PROVE  ServiceInv'
    BY <1>3, SendKeeps, CheckKeeps, StartKeeps, HandleKeeps, FinishKeeps
  <1>4. CASE UNCHANGED Service!vars
    BY <1>1, <1>4 DEF Service!vars
  <1>5. QED
    BY <1>2, <1>3, <1>4 DEF Service!Next

LEMMA ServiceInit == Service!Init => ServiceInv
  <1> SUFFICES ASSUME Service!Init PROVE ServiceInv
    OBVIOUS
  <1>1. /\ inFlight = [i \in Pool |-> 0] /\ stored = [k \in ServiceKey |-> Service!NoTask]
        /\ counter = 0 /\ history = <<>>
        /\ request = [c \in Task |-> Service!NoCall]
        /\ known = [c \in Task |-> [k \in ServiceKey |-> 0]]
    BY DEF Service!Init
  <1>2. \A c \in Task : request[c].stage = "idle"
    BY <1>1, NoTaskFacts
  <1>3. ServiceTypes
    <2>1. stored \in [ServiceKey -> Version] /\ request \in [Task -> CallState]
      BY <1>1, NoTaskFacts
    <2>2. counter \in Nat /\ counter = Len(history) /\ history \in Seq(Written)
      BY <1>1
    <2>3. known \in [Task -> [ServiceKey -> Nat]] /\ inFlight \in [Pool -> Int]
      BY <1>1
    <2>4. QED
      BY <1>2, <2>1, <2>2, <2>3 DEF ServiceTypes
  <1>4. DOMAIN history = {}
    BY <1>1
  <1>5. Chained
    BY <1>4 DEF Chained
  <1>6. Current
    BY <1>1, <1>4 DEF Current, WritesOf
  <1>7. Counted
    <2>1. ASSUME NEW i \in Pool PROVE Working(i) = {}
      BY <1>2 DEF Working
    <2>2. IsFiniteSet({}) /\ Cardinality({}) = 0
      BY FS_EmptySet
    <2>3. QED
      BY <1>1, <2>1, <2>2 DEF Counted
  <1>8. QED
    BY <1>3, <1>5, <1>6, <1>7 DEF ServiceInv

\* A write comes on one version.
LEMMA BeforeIsUnique ==
    ASSUME ServiceInv, NEW n \in DOMAIN history, NEW e, IsBefore(n, e)
    PROVE  Service!Before(n) = e
  <1> DEFINE P(x) == /\ x = 0 \/ history[x].key = history[n].key
                     /\ \A later \in (x + 1)..(n - 1) : history[later].key # history[n].key
  <1>1. n \in Nat \ {0}
    BY DEF ServiceInv, ServiceTypes
  <1>2. e \in 0..(n - 1) /\ P(e)
    BY DEF IsBefore
  <1>3. ASSUME NEW x \in 0..(n - 1), NEW y \in 0..(n - 1), P(x), P(y), x < y PROVE FALSE
    <2>1. y \in (x + 1)..(n - 1) /\ y # 0
      BY <1>1, <1>3
    <2>2. QED
      BY <1>3, <2>1
  <1>4. ASSUME NEW x \in 0..(n - 1), P(x) PROVE x = e
    <2>1. ~(x < e) /\ ~(e < x)
      BY <1>2, <1>3, <1>4
    <2>2. QED
      BY <1>1, <1>2, <2>1
  <1>5. Service!Before(n) = CHOOSE x \in 0..(n - 1) : P(x)
    BY DEF Service!Before
  <1> HIDE DEF P
  <1>6. QED
    BY <1>2, <1>4, <1>5

\* Cardinality of the instance is Cardinality.
LEMMA ServiceCounts == \A S : Service!Cardinality(S) = Cardinality(S)
  BY DEF Service!Cardinality, Cardinality

LEMMA ServiceInvChains == ServiceInv => Service!UpdatesChain
  <1> SUFFICES ASSUME ServiceInv PROVE Service!UpdatesChain
    OBVIOUS
  <1>1. ASSUME NEW n \in DOMAIN history
        PROVE  IF history[n].made = "create" THEN Service!Before(n) = 0
               ELSE history[n].basis # 0 /\ history[n].basis = Service!Before(n)
    <2>1. CASE history[n].made = "create"
      BY <2>1, BeforeIsUnique DEF ServiceInv, Chained
    <2>2. CASE history[n].made # "create"
      BY <2>2, BeforeIsUnique DEF ServiceInv, Chained
    <2>3. QED
      BY <2>1, <2>2
  <1>2. ASSUME NEW k \in ServiceKey, NEW field \in {"title", "status"}, stored[k] # Service!NoTask
        PROVE  LastWrite(Carrying(k, field), stored[k][field])
    BY <1>2 DEF ServiceInv, Current
  <1>3. ASSUME NEW k \in ServiceKey, NEW field \in {"title", "status"}, stored[k] # Service!NoTask
        PROVE  LET version == stored[k][field]
                   carries(n) == history[n].key = k
                                  /\ (history[n].made = "create" \/ field \in history[n].fields)
               IN carries(version) /\ \A n \in DOMAIN history : carries(n) => n <= version
    BY <1>2, <1>3 DEF LastWrite, Carrying, WritesOf
  <1>4. ASSUME NEW i \in Pool
        PROVE  inFlight[i] = Service!Cardinality({c \in Task :
                  request[c].instance = i /\ request[c].stage \in {"started", "done"}})
    BY ServiceCounts DEF ServiceInv, Counted, Working
  <1>5. QED
    BY <1>1, <1>3, <1>4 DEF Service!UpdatesChain

\* UpdatesChain of the stateless service (labs/27-stateless-service): however the requests
\* of any clients overlap on any instances, a patch is applied to the version its client
\* had seen and to no other, every field is what its last version wrote, and an instance
\* counts the requests it works on.
THEOREM UpdatesAlwaysChain == Service!Spec => []Service!UpdatesChain
  <1>1. QED
    BY ServiceInit, ServiceStep, ServiceInvChains, PTL DEF Service!Spec

-----------------------------------------------------------------------------
(* Repeated calls *)

AppliedEffect == [key : STRING, what : STRING \X STRING, by : Client \X Nat]

Word == STRING \union {"deadline", "failure", "conflict", "not found"}

Underway == [at : {"calling"}, start : Int, attempts : 0..ClientRetries]

CallTypes ==
    /\ callClock \in Int
    /\ rpc \in [Client -> {Calls!Ready} \union Underway]
    /\ outcomes \in [Client -> Seq([outcome : Word, at : Int, start : Int])]
    /\ effects \in [Pool -> Seq(AppliedEffect)]
    /\ \A c \in Client : /\ Len(outcomes[c]) <= Len(Script[c])
                         /\ rpc[c] # Calls!Ready => Len(outcomes[c]) < Len(Script[c])
    /\ cache = [s \in Pool |-> cache[s]]
    /\ tasks = [s \in Pool |-> tasks[s]]
    /\ \A s \in Pool : /\ cache[s] \in [DOMAIN cache[s] -> STRING \X STRING]
                       /\ tasks[s] \in [DOMAIN tasks[s] -> STRING]

\* A server's replay cache knows the keys of what it has applied, once each.
CacheTells(recalled, acts) ==
    /\ \A i \in DOMAIN acts : acts[i].key # Calls!NoKey =>
          acts[i].key \in DOMAIN recalled /\ recalled[acts[i].key] = acts[i].what
    /\ \A k \in DOMAIN recalled : k # Calls!NoKey /\ \E i \in DOMAIN acts : acts[i].key = k
    /\ \A i, j \in DOMAIN acts :
          i # j /\ acts[i].key # Calls!NoKey => acts[i].key # acts[j].key

\* What was applied without a key is of a call that has ended.
KeylessEnded ==
    \A s \in Pool : \A i \in DOMAIN effects[s] : effects[s][i].key = Calls!NoKey =>
        effects[s][i].by[2] <= Len(outcomes[effects[s][i].by[1]])

\* What a finished submission was told still shows.
AnswerStands(c, n) ==
    LET r == Script[c][n]
    IN /\ outcomes[c][n].outcome = r.body => \E s \in Pool : Calls!AppliedBy(s, c, n) # {}
       /\ outcomes[c][n].outcome = "conflict" =>
             /\ r.key # Calls!NoKey
             /\ \E s \in Pool : /\ r.key \in DOMAIN cache[s]
                                /\ cache[s][r.key] # Calls!RequestFingerprint(r)
       /\ r.key = Calls!NoKey => \A s \in Pool : Cardinality(Calls!AppliedBy(s, c, n)) <= 2

CallInv ==
    /\ CallTypes
    /\ \A s \in Pool : CacheTells(cache[s], effects[s])
    /\ KeylessEnded
    /\ \A c \in Client : \A n \in Calls!Finished(c) : AnswerStands(c, n)
    /\ Calls!DeadlineKept


\* From state st a server replies as in state seen and is left in state after.
ArrivesAs(st, r, by, seen, after) ==
    /\ after.tasks \in [DOMAIN after.tasks -> STRING]
    /\ seen.tasks \in [DOMAIN seen.tasks -> STRING]
    /\ \/ /\ after.cache = st.cache /\ after.effects = st.effects /\ seen = st
          /\ r.method # "POST" \/ Calls!Replayed(st, r)
       \/ /\ r.method = "POST" /\ r.key # Calls!NoKey /\ r.key \notin DOMAIN st.cache
          /\ after.cache = Calls!With(st.cache, r.key, Calls!RequestFingerprint(r))
          /\ after.effects = Append(st.effects, Calls!Effect(r, by))
          /\ ~Calls!Conflicts(seen, r)
       \/ /\ r.method = "POST" /\ r.key = Calls!NoKey
          /\ after.cache = st.cache /\ ~Calls!Conflicts(seen, r)
          /\ after.effects \in {Append(st.effects, Calls!Effect(r, by)),
                                Append(Append(st.effects, Calls!Effect(r, by)),
                                       Calls!Effect(r, by))}

\* What a request does to a server, arriving once or twice: nothing, if it is read only or
\* replayed; or it is applied, under a key once.
LEMMA Arrivals ==
    ASSUME NEW st, NEW r \in CallRequest, NEW by, NEW twice \in BOOLEAN,
           st = [cache |-> st.cache, tasks |-> st.tasks, effects |-> st.effects],
           st.cache \in [DOMAIN st.cache -> STRING \X STRING],
           st.tasks \in [DOMAIN st.tasks -> STRING],
           NEW once, once = Calls!Handled(st, r, by),
           NEW seen, seen = IF twice THEN once ELSE st,
           NEW after, after = IF twice THEN Calls!Handled(once, r, by) ELSE once
    PROVE  ArrivesAs(st, r, by, seen, after)
  <1> DEFINE e == Calls!Effect(r, by)
             fp == Calls!RequestFingerprint(r)
  <1> HIDE DEF e, fp
  <1>0. r.body \in STRING /\ r.method \in {"GET", "POST"} /\ fp \in STRING \X STRING
    BY DEF CallRequest, Calls!RequestFingerprint, fp
  <1>1. CASE r.method # "POST" \/ Calls!Replayed(st, r)
    <2>1. once = st
      BY <1>1 DEF Calls!Handled, Calls!Submitted
    <2>2. after = st /\ seen = st
      BY <2>1
    <2>3. QED
      BY <2>2, <1>1 DEF ArrivesAs
  <1>2. CASE r.method = "POST" /\ r.key # Calls!NoKey /\ r.key \notin DOMAIN st.cache
    <2>1. /\ once.cache = Calls!With(st.cache, r.key, fp)
          /\ once.effects = Append(st.effects, e)
          /\ once.tasks = Calls!With(st.tasks, r.id, r.body)
      BY <1>2 DEF Calls!Handled, Calls!Submitted, Calls!Replayed, e, fp
    <2>2. DOMAIN once.cache = DOMAIN st.cache \union {r.key} /\ once.cache[r.key] = fp
      BY <2>1, <1>0 DEF Calls!With
    <2>3. Calls!Replayed(once, r) /\ ~Calls!Conflicts(once, r)
      BY <2>2, <1>2 DEF Calls!Replayed, Calls!Conflicts, fp
    <2>4. after = once
      BY <2>3 DEF Calls!Handled, Calls!Submitted
    <2>5. once.tasks \in [DOMAIN once.tasks -> STRING]
      BY <2>1, <1>0 DEF Calls!With
    <2>6. ~Calls!Conflicts(st, r)
      BY <1>2 DEF Calls!Conflicts, Calls!Replayed
    <2>7. ~Calls!Conflicts(seen, r) /\ seen.tasks \in [DOMAIN seen.tasks -> STRING]
      BY <2>3, <2>5, <2>6
    <2>8. QED
      BY <2>1, <2>4, <2>5, <2>7, <1>2 DEF e, fp, ArrivesAs
  <1>3. CASE r.method = "POST" /\ r.key = Calls!NoKey
    <2>1. /\ once.cache = st.cache
          /\ once.effects = Append(st.effects, e)
          /\ once.tasks = Calls!With(st.tasks, r.id, r.body)
      BY <1>3 DEF Calls!Handled, Calls!Submitted, Calls!Replayed, e
    <2>2. once.tasks \in [DOMAIN once.tasks -> STRING]
      BY <2>1, <1>0 DEF Calls!With
    <2> DEFINE more == Calls!Handled(once, r, by)
    <2>3. /\ more.cache = once.cache
          /\ more.effects = Append(once.effects, e)
          /\ more.tasks = Calls!With(once.tasks, r.id, r.body)
      BY <1>3 DEF Calls!Handled, Calls!Submitted, Calls!Replayed, e
    <2>4. more.tasks \in [DOMAIN more.tasks -> STRING]
      BY <2>2, <2>3, <1>0 DEF Calls!With
    <2>5. ~Calls!Conflicts(seen, r)
      BY <1>3 DEF Calls!Conflicts, Calls!Replayed
    <2> HIDE DEF more
    <2>6. CASE twice
      BY <2>1, <2>2, <2>3, <2>4, <2>5, <2>6, <1>3 DEF more, e, ArrivesAs
    <2>7. CASE ~twice
      BY <2>1, <2>2, <2>5, <2>7, <1>3 DEF e, ArrivesAs
    <2>8. QED
      BY <2>6, <2>7
  <1>4. QED
    BY <1>1, <1>2, <1>3 DEF Calls!Replayed

\* A call under way has a request in its script.
LEMMA CallsHaveRequests ==
    ASSUME CallTypes, NEW c \in Client, rpc[c] # Calls!Ready
    PROVE  /\ rpc[c] \in Underway
           /\ Calls!Position(c) \in 1..Len(Script[c])
           /\ Calls!Position(c) = Len(outcomes[c]) + 1 /\ Len(outcomes[c]) \in Nat
           /\ Calls!Current(c) = Script[c][Calls!Position(c)]
           /\ Calls!Current(c) \in CallRequest
  <1>1. Script[c] \in Seq(CallRequest)
    BY ScriptAssumption
  <1>2. Len(outcomes[c]) \in Nat /\ Len(outcomes[c]) < Len(Script[c])
    BY DEF CallTypes
  <1>3. Calls!Position(c) \in 1..Len(Script[c])
    BY <1>1, <1>2 DEF Calls!Position
  <1>4. Script[c][Calls!Position(c)] \in CallRequest
    BY <1>1, <1>3
  <1>5. QED
    BY <1>2, <1>3, <1>4 DEF CallTypes, Calls!Position, Calls!Current

\* What an attempt of a call may do to the servers' books: leave its effect once or twice
\* and forget nothing.
Grown(c) ==
    \A s \in Pool :
        /\ \A i \in DOMAIN effects[s] :
              i \in DOMAIN effects'[s] /\ effects'[s][i] = effects[s][i]
        /\ \A i \in DOMAIN effects'[s] \ DOMAIN effects[s] :
              /\ i \in {Len(effects[s]) + 1, Len(effects[s]) + 2}
              /\ effects'[s][i] = Calls!Effect(Calls!Current(c), <<c, Calls!Position(c)>>)
              /\ Calls!Current(c).method = "POST"
        /\ \A k \in DOMAIN cache[s] : k \in DOMAIN cache'[s] /\ cache'[s][k] = cache[s][k]

\* A call ends with an outcome that the books confirm.
Answered(c, o) ==
    LET r == Calls!Current(c)
    IN /\ outcomes' = [outcomes EXCEPT ![c] =
              Append(@, [outcome |-> o, at |-> callClock', start |-> rpc[c].start])]
       /\ r.method = "POST" /\ o = r.body =>
             \A n \in Nat : n = Calls!Position(c) => \E s \in Pool : Calls!AppliedBy(s, c, n)' # {}
       /\ r.method = "POST" /\ o = "conflict" =>
             /\ r.key # Calls!NoKey
             /\ \E s \in Pool : /\ r.key \in DOMAIN cache'[s]
                                /\ cache'[s][r.key] # Calls!RequestFingerprint(r)
       /\ o \notin {"deadline", "failure"} => callClock' < rpc[c].start + r.budget

Attempted(c) ==
    /\ Grown(c)
    /\ \/ outcomes' = outcomes /\ Calls!SafeToRetry(Calls!Current(c))
       \/ \E o : Answered(c, o)

LEMMA AttemptKeepsAnswers ==
    ASSUME CallInv, CallTypes', NEW c \in Client, rpc[c] # Calls!Ready, Attempted(c)
    PROVE  /\ KeylessEnded'
           /\ (\A d \in Client : \A n \in Calls!Finished(d) : AnswerStands(d, n))'
           /\ \A d \in Client : \A n \in (DOMAIN outcomes[d])' :
                 outcomes'[d][n].outcome \notin {"deadline", "failure"} =>
                    outcomes'[d][n].at < outcomes'[d][n].start + Script[d][n].budget
  <1>0. PICK p : p = Calls!Position(c)
    OBVIOUS
  <1> DEFINE r == Calls!Current(c)
             ends == outcomes' # outcomes
             Answer(o) == [outcome |-> o, at |-> callClock', start |-> rpc[c].start]
  <1>1. /\ p = Len(outcomes[c]) + 1 /\ Len(outcomes[c]) \in Nat
        /\ r = Script[c][p] /\ r \in CallRequest
    BY <1>0, CallsHaveRequests DEF CallInv
  <1>2. PICK o : \/ ~ends /\ Calls!SafeToRetry(r)
                 \/ ends /\ Answered(c, o)
    <2>1. ASSUME NEW o, Answered(c, o)
          PROVE  ends
      <3>1. outcomes[c] \in Seq([outcome : Word, at : Int, start : Int])
        BY DEF CallInv, CallTypes
      <3>2. outcomes'[c] = Append(outcomes[c], Answer(o))
        BY <2>1 DEF CallInv, CallTypes, Answered
      <3>3. Len(outcomes'[c]) = Len(outcomes[c]) + 1
        BY <3>1, <3>2
      <3>4. QED
        BY <3>1, <3>3
    <2>2. QED
      BY <2>1 DEF Attempted
  <1>3. \A d \in Client :
           /\ Len(outcomes[d]) \in Nat /\ Len(outcomes'[d]) \in Nat
           /\ \A n \in 1..Len(outcomes[d]) :
                 n \in 1..Len(outcomes'[d]) /\ outcomes'[d][n] = outcomes[d][n]
           /\ \A n \in 1..Len(outcomes'[d]) \ 1..Len(outcomes[d]) :
                 ends /\ d = c /\ n = p /\ outcomes'[d][n] = Answer(o)
           /\ ends => Len(outcomes'[c]) = p
    <2>1. outcomes' \in [Client -> Seq([outcome : Word, at : Int, start : Int])]
      BY DEF CallTypes
    <2>0. PICK a : a = Answer(o)
      OBVIOUS
    <2>2. outcomes' = outcomes \/ outcomes' = [outcomes EXCEPT ![c] = Append(@, a)]
      BY <1>2, <2>0 DEF Answered
    <2>3. QED
      <3>1. CallTypes
        BY DEF CallInv
      <3>2. ASSUME NEW d \in Client
            PROVE  /\ Len(outcomes[d]) \in Nat /\ Len(outcomes'[d]) \in Nat
                   /\ \A n \in 1..Len(outcomes[d]) :
                         n \in 1..Len(outcomes'[d]) /\ outcomes'[d][n] = outcomes[d][n]
                   /\ \A n \in 1..Len(outcomes'[d]) \ 1..Len(outcomes[d]) :
                         outcomes' # outcomes /\ d = c /\ n = p /\ outcomes'[d][n] = a
                   /\ outcomes' # outcomes => Len(outcomes'[c]) = p
        <4>1. /\ outcomes[d] \in Seq([outcome : Word, at : Int, start : Int])
              /\ outcomes'[d] \in Seq([outcome : Word, at : Int, start : Int])
              /\ outcomes[c] \in Seq([outcome : Word, at : Int, start : Int])
          BY <2>1, <3>1 DEF CallTypes
        <4>2. CASE outcomes' = outcomes
          BY <4>1, <4>2
        <4>3. CASE outcomes' = [outcomes EXCEPT ![c] = Append(@, a)] /\ outcomes' # outcomes
          <5>1. outcomes'[c] = Append(outcomes[c], a)
            BY <3>1, <4>3 DEF CallTypes
          <5>2. d # c => outcomes'[d] = outcomes[d]
            BY <3>1, <4>3 DEF CallTypes
          <5>3. CASE d = c
            BY <1>1, <4>1, <4>3, <5>1, <5>3
          <5>4. CASE d # c
            <6>1. Len(outcomes'[c]) = p
              BY <1>1, <4>1, <5>1
            <6>2. QED
              BY <4>1, <5>2, <5>4, <6>1
          <5>5. QED
            BY <5>3, <5>4
        <4>4. QED
          BY <2>2, <4>2, <4>3
      <3>3. QED
        BY <2>0, <3>2
  <1> HIDE DEF r, ends
  <1>4. \A d \in Client, s \in Pool : \A n :
           Calls!AppliedBy(s, d, n) \subseteq Calls!AppliedBy(s, d, n)'
    BY DEF Attempted, Grown, Calls!AppliedBy
  <1>5. ASSUME NEW s \in Pool, NEW i \in DOMAIN effects'[s], i \notin DOMAIN effects[s]
        PROVE  /\ i \in {Len(effects[s]) + 1, Len(effects[s]) + 2}
               /\ effects'[s][i].by = <<c, p>> /\ effects'[s][i].key = r.key
               /\ r.key = Calls!NoKey => ends
    <2>1. /\ i \in {Len(effects[s]) + 1, Len(effects[s]) + 2}
          /\ effects'[s][i] = Calls!Effect(r, <<c, p>>) /\ r.method = "POST"
      BY <1>0, <1>5 DEF Attempted, Grown, r
    <2>2. r.key = Calls!NoKey => ~Calls!SafeToRetry(r)
      BY <2>1 DEF Calls!SafeToRetry
    <2>3. QED
      BY <2>1, <2>2, <1>2 DEF Calls!Effect
  <1>6. KeylessEnded'
    <2> SUFFICES ASSUME NEW s \in Pool, NEW i \in DOMAIN effects'[s],
                        effects'[s][i].key = Calls!NoKey
                 PROVE  effects'[s][i].by[2] <= Len(outcomes'[effects'[s][i].by[1]])
      BY DEF KeylessEnded
    <2>1. CASE i \in DOMAIN effects[s]
      <3>1. effects'[s][i] = effects[s][i]
        BY <2>1 DEF Attempted, Grown
      <3>2. effects[s][i] \in AppliedEffect
        BY <2>1 DEF CallInv, CallTypes
      <3>3. PICK d \in Client, n \in Nat : effects[s][i].by = <<d, n>>
        BY <3>2 DEF AppliedEffect
      <3>4. n <= Len(outcomes[d])
        BY <2>1, <3>1, <3>3 DEF CallInv, KeylessEnded
      <3>5. Len(outcomes[d]) <= Len(outcomes'[d])
        <4>1. CASE Len(outcomes[d]) = 0
          BY <4>1, <1>3
        <4>2. CASE Len(outcomes[d]) # 0
          <5>1. Len(outcomes[d]) \in 1..Len(outcomes[d])
            BY <1>3, <4>2
          <5>2. QED
            BY <1>3, <5>1
        <4>3. QED
          BY <4>1, <4>2
      <3>6. QED
        BY <1>3, <3>1, <3>3, <3>4, <3>5
    <2>2. CASE i \notin DOMAIN effects[s]
      BY <1>1, <1>3, <1>5, <2>2
    <2>3. QED
      BY <2>1, <2>2
  <1>7. ASSUME NEW d \in Client, NEW n \in 1..Len(outcomes'[d]), Script[d][n].method = "POST"
        PROVE  AnswerStands(d, n)'
    <2> DEFINE q == Script[d][n]
    <2>1. CASE n \in 1..Len(outcomes[d])
      <3>1. outcomes'[d][n] = outcomes[d][n]
        BY <1>3, <2>1
      <3>2. AnswerStands(d, n)
        BY <1>7, <2>1 DEF CallInv, Calls!Finished
      <3>3. q.key = Calls!NoKey =>
               \A s \in Pool : Calls!AppliedBy(s, d, n)' = Calls!AppliedBy(s, d, n)
        <4> SUFFICES ASSUME q.key = Calls!NoKey, NEW s \in Pool,
                            NEW i \in Calls!AppliedBy(s, d, n)'
                     PROVE  i \in Calls!AppliedBy(s, d, n)
          BY <1>4
        <4>1. /\ i \in DOMAIN effects'[s] /\ effects'[s][i].by = <<d, n>>
              /\ effects'[s][i].key = q.key /\ effects'[s][i].what = Calls!RequestFingerprint(q)
          BY DEF Calls!AppliedBy
        <4>2. i \in DOMAIN effects[s]
          <5> SUFFICES ASSUME i \notin DOMAIN effects[s]
                       PROVE  FALSE
            OBVIOUS
          <5>1. <<d, n>> = <<c, p>>
            BY <1>5, <4>1
          <5>2. QED
            BY <1>1, <2>1, <5>1
        <4>3. effects'[s][i] = effects[s][i]
          BY <4>2 DEF Attempted, Grown
        <4>4. QED
          BY <4>1, <4>2, <4>3 DEF Calls!AppliedBy
      <3>4. outcomes'[d][n].outcome = q.body => \E s \in Pool : Calls!AppliedBy(s, d, n)' # {}
        BY <3>1, <3>2, <1>4 DEF AnswerStands
      <3>5. outcomes'[d][n].outcome = "conflict" =>
               /\ q.key # Calls!NoKey
               /\ \E s \in Pool : /\ q.key \in DOMAIN cache'[s]
                                  /\ cache'[s][q.key] # Calls!RequestFingerprint(q)
        BY <3>1, <3>2 DEF AnswerStands, Attempted, Grown
      <3>6. q.key = Calls!NoKey => \A s \in Pool : Cardinality(Calls!AppliedBy(s, d, n)') <= 2
        BY <3>2, <3>3 DEF AnswerStands
      <3>7. QED
        BY <3>4, <3>5, <3>6 DEF AnswerStands
    <2>2. CASE n \notin 1..Len(outcomes[d])
      <3>1. ends /\ d = c /\ n = p /\ outcomes'[d][n] = Answer(o)
        BY <1>3, <2>2
      <3>2. Answered(c, o) /\ q = r
        BY <1>1, <1>2, <3>1
      <3>3. q.key = Calls!NoKey => \A s \in Pool : Cardinality(Calls!AppliedBy(s, c, p)') <= 2
        <4> SUFFICES ASSUME q.key = Calls!NoKey, NEW s \in Pool
                     PROVE  Cardinality(Calls!AppliedBy(s, c, p)') <= 2
          OBVIOUS
        <4> DEFINE new == {Len(effects[s]) + 1, Len(effects[s]) + 2}
        <4>1. Calls!AppliedBy(s, c, p)' \subseteq new
          <5> SUFFICES ASSUME NEW i \in Calls!AppliedBy(s, c, p)', i \notin new
                       PROVE  FALSE
            OBVIOUS
          <5>1. /\ i \in DOMAIN effects'[s] /\ effects'[s][i].by = <<c, p>>
                /\ effects'[s][i].key = Calls!NoKey
            BY <3>1 DEF Calls!AppliedBy
          <5>2. i \in DOMAIN effects[s]
            BY <1>5, <5>1
          <5>3. effects'[s][i] = effects[s][i]
            BY <5>2 DEF Attempted, Grown
          <5>4. effects[s][i].by[2] <= Len(outcomes[effects[s][i].by[1]])
            BY <5>1, <5>2, <5>3 DEF CallInv, KeylessEnded
          <5>5. p <= Len(outcomes[c])
            BY <5>1, <5>3, <5>4
          <5>6. QED
            BY <1>1, <5>5
        <4>2. IsFiniteSet(new) /\ Cardinality(new) <= 2
          <5>1. IsFiniteSet({Len(effects[s]) + 1}) /\ Cardinality({Len(effects[s]) + 1}) = 1
            BY FS_Singleton
          <5>2. new = {Len(effects[s]) + 1} \union {Len(effects[s]) + 2}
            OBVIOUS
          <5> HIDE DEF new
          <5>3. /\ IsFiniteSet(new)
                /\ \/ Cardinality(new) = Cardinality({Len(effects[s]) + 1})
                   \/ Cardinality(new) = Cardinality({Len(effects[s]) + 1}) + 1
            BY <5>1, <5>2, FS_AddElement
          <5>4. QED
            BY <5>1, <5>3
        <4> HIDE DEF new
        <4>3. Cardinality(Calls!AppliedBy(s, c, p)') <= Cardinality(new)
          BY <4>1, <4>2, FS_Subset
        <4>4. Cardinality(Calls!AppliedBy(s, c, p)') \in Nat /\ Cardinality(new) \in Nat
          BY <4>1, <4>2, FS_Subset, FS_CardinalityType
        <4>5. QED
          BY <4>2, <4>3, <4>4
      <3>4. outcomes'[d][n].outcome = o
        BY <3>1
      <3>5. o = q.body => \E s \in Pool : Calls!AppliedBy(s, c, p)' # {}
        BY <1>0, <1>1, <1>7, <3>2 DEF Answered, r
      <3>6. o = "conflict" =>
               /\ q.key # Calls!NoKey
               /\ \E s \in Pool : /\ q.key \in DOMAIN cache'[s]
                                  /\ cache'[s][q.key] # Calls!RequestFingerprint(q)
        BY <1>7, <3>2 DEF Answered, r
      <3>7. QED
        BY <3>1, <3>3, <3>4, <3>5, <3>6 DEF AnswerStands
    <2>3. QED
      BY <2>1, <2>2
  <1>8. ASSUME NEW d \in Client, NEW n \in 1..Len(outcomes'[d]),
               outcomes'[d][n].outcome \notin {"deadline", "failure"}
        PROVE  outcomes'[d][n].at < outcomes'[d][n].start + Script[d][n].budget
    <2>1. CASE n \in 1..Len(outcomes[d])
      <3>0. outcomes[d] \in Seq([outcome : Word, at : Int, start : Int])
        BY DEF CallInv, CallTypes
      <3> HIDE DEF ends, r, Answer
      <3>1. outcomes'[d][n] = outcomes[d][n]
        BY <1>3, <2>1
      <3>3. n \in DOMAIN outcomes[d]
        BY <3>0, <2>1
      <3>2. QED
        BY <1>8, <3>1, <3>3 DEF CallInv, Calls!DeadlineKept
    <2>2. CASE n \notin 1..Len(outcomes[d])
      <3>1. ends /\ d = c /\ n = p /\ outcomes'[d][n] = Answer(o)
        BY <1>3, <2>2
      <3>2. Answered(c, o)
        BY <1>2, <3>1
      <3>3. callClock' < rpc[c].start + r.budget
        BY <1>8, <3>1, <3>2 DEF Answered, r
      <3>4. QED
        BY <1>1, <3>1, <3>3
    <2>3. QED
      BY <2>1, <2>2
  <1>9. \A d \in Client : (DOMAIN outcomes[d])' = 1..Len(outcomes'[d])
    BY DEF CallTypes
  <1>10. QED
    BY <1>6, <1>7, <1>8, <1>9 DEF Calls!Finished

\* A call goes on, within its attempts, or ends.
LEMMA CallsMoveOn ==
    ASSUME CallTypes, NEW c \in Client, rpc[c] # Calls!Ready, callClock' \in Int,
           \/ Calls!RetryOrEnd(c)
           \/ \E o \in Word : Calls!Ends(c, o)
    PROVE  /\ rpc' \in [Client -> {Calls!Ready} \union Underway]
           /\ outcomes' \in [Client -> Seq([outcome : Word, at : Int, start : Int])]
           /\ \A d \in Client : /\ Len(outcomes'[d]) <= Len(Script[d])
                                /\ rpc'[d] # Calls!Ready => Len(outcomes'[d]) < Len(Script[d])
  <1>1. /\ rpc[c] \in Underway /\ rpc[c].start \in Int
        /\ Len(outcomes[c]) \in Nat /\ Len(outcomes[c]) < Len(Script[c])
        /\ outcomes[c] \in Seq([outcome : Word, at : Int, start : Int])
        /\ Len(Script[c]) \in Nat
    <2>1. rpc[c] \in Underway
      BY DEF CallTypes
    <2>2. rpc[c].start \in Int
      BY <2>1 DEF Underway
    <2>3. Script[c] \in Seq(CallRequest)
      BY ScriptAssumption
    <2>4. outcomes[c] \in Seq([outcome : Word, at : Int, start : Int])
      BY DEF CallTypes
    <2>5. Len(outcomes[c]) < Len(Script[c])
      BY DEF CallTypes
    <2>6. QED
      BY <2>1, <2>2, <2>3, <2>4, <2>5
  <1>2. ASSUME NEW o \in Word, Calls!Ends(c, o)
        PROVE  /\ rpc' \in [Client -> {Calls!Ready} \union Underway]
               /\ outcomes' \in [Client -> Seq([outcome : Word, at : Int, start : Int])]
               /\ \A d \in Client : /\ Len(outcomes'[d]) <= Len(Script[d])
                                    /\ rpc'[d] # Calls!Ready => Len(outcomes'[d]) < Len(Script[d])
    <2> DEFINE answer == [outcome |-> o, at |-> callClock', start |-> rpc[c].start]
    <2>1. /\ outcomes' = [outcomes EXCEPT ![c] = Append(@, answer)]
          /\ rpc' = [rpc EXCEPT ![c] = Calls!Ready]
      BY <1>2 DEF Calls!Ends
    <2>2. answer \in [outcome : Word, at : Int, start : Int]
      BY <1>1
    <2> HIDE DEF answer
    <2>3. /\ Append(outcomes[c], answer) \in Seq([outcome : Word, at : Int, start : Int])
          /\ Len(Append(outcomes[c], answer)) = Len(outcomes[c]) + 1
      BY <1>1, <2>2
    <2>4. outcomes' \in [Client -> Seq([outcome : Word, at : Int, start : Int])]
      BY <2>1, <2>3 DEF CallTypes
    <2>5. rpc' \in [Client -> {Calls!Ready} \union Underway]
      BY <2>1 DEF CallTypes
    <2>6. /\ outcomes'[c] = Append(outcomes[c], answer) /\ rpc'[c] = Calls!Ready
          /\ \A d \in Client : d # c => outcomes'[d] = outcomes[d] /\ rpc'[d] = rpc[d]
      BY <2>1 DEF CallTypes
    <2>7. ASSUME NEW d \in Client
          PROVE  /\ Len(outcomes'[d]) <= Len(Script[d])
                 /\ rpc'[d] # Calls!Ready => Len(outcomes'[d]) < Len(Script[d])
      <3>1. CASE d = c
        BY <1>1, <2>3, <2>6, <3>1
      <3>2. CASE d # c
        BY <2>6, <3>2 DEF CallTypes
      <3>3. QED
        BY <3>1, <3>2
    <2>8. QED
      BY <2>4, <2>5, <2>7
  <1>3. CASE /\ rpc[c].attempts < ClientRetries
             /\ rpc' = [rpc EXCEPT ![c].attempts = @ + 1] /\ outcomes' = outcomes
    <2>1. [rpc[c] EXCEPT !.attempts = @ + 1] \in Underway
      <3>1. PICK u \in Underway : u = rpc[c]
        BY <1>1
      <3>2. u.attempts + 1 \in 0..ClientRetries
        BY <1>3, <3>1, ScriptAssumption DEF Underway
      <3>3. [u EXCEPT !.attempts = u.attempts + 1] \in Underway
        BY <3>2 DEF Underway
      <3>4. QED
        BY <3>1, <3>3
    <2>2. rpc' = [rpc EXCEPT ![c] = [rpc[c] EXCEPT !.attempts = @ + 1]]
      BY <1>3 DEF CallTypes
    <2>3. rpc' \in [Client -> {Calls!Ready} \union Underway]
      BY <2>1, <2>2 DEF CallTypes
    <2>4. \A d \in Client : d # c => rpc'[d] = rpc[d]
      BY <2>2 DEF CallTypes
    <2>5. QED
      BY <1>1, <1>3, <2>3, <2>4 DEF CallTypes
  <1>4. QED
    <2>1. CASE Calls!RetryOrEnd(c)
      <3>1. \/ /\ rpc[c].attempts < ClientRetries
               /\ rpc' = [rpc EXCEPT ![c].attempts = @ + 1] /\ outcomes' = outcomes
            \/ Calls!Ends(c, "failure")
        BY <2>1 DEF Calls!RetryOrEnd
      <3>2. "failure" \in Word
        BY DEF Word
      <3>3. QED
        BY <1>2, <1>3, <3>1, <3>2
    <2>2. QED
      BY <1>2, <2>1

LEMMA Appended ==
    ASSUME NEW S, NEW q \in Seq(S), NEW e \in S
    PROVE  /\ Append(q, e) \in Seq(S) /\ Len(q) \in Nat /\ Len(Append(q, e)) = Len(q) + 1
           /\ DOMAIN q = 1..Len(q) /\ DOMAIN Append(q, e) = 1..(Len(q) + 1)
           /\ Append(q, e)[Len(q) + 1] = e
           /\ \A i \in 1..Len(q) : Append(q, e)[i] = q[i]
  OBVIOUS

\* The books of a server after a request that leaves effect e.
Followed(ca, ef, r, e, ca2, ef2) ==
    \/ ca2 = ca /\ ef2 = ef
    \/ /\ r.key # Calls!NoKey /\ r.key \notin DOMAIN ca
       /\ ca2 = Calls!With(ca, r.key, Calls!RequestFingerprint(r)) /\ ef2 = Append(ef, e)
    \/ /\ r.key = Calls!NoKey /\ ca2 = ca
       /\ ef2 \in {Append(ef, e), Append(Append(ef, e), e)}

\* What a request leaves in the books of a server agrees with its replay cache.
LEMMA BooksAgree ==
    ASSUME NEW ca, NEW ef \in Seq(AppliedEffect), CacheTells(ca, ef),
           ca \in [DOMAIN ca -> STRING \X STRING],
           NEW r \in CallRequest, NEW e \in AppliedEffect,
           e.key = r.key, e.what = Calls!RequestFingerprint(r), NEW ca2, NEW ef2,
           Followed(ca, ef, r, e, ca2, ef2)
    PROVE  /\ ef2 \in Seq(AppliedEffect) /\ ca2 \in [DOMAIN ca2 -> STRING \X STRING]
           /\ CacheTells(ca2, ef2)
           /\ \A i \in DOMAIN ef : i \in DOMAIN ef2 /\ ef2[i] = ef[i]
           /\ \A i \in DOMAIN ef2 \ DOMAIN ef : i \in {Len(ef) + 1, Len(ef) + 2} /\ ef2[i] = e
           /\ \A k \in DOMAIN ca : k \in DOMAIN ca2 /\ ca2[k] = ca[k]
  <1> DEFINE fp == Calls!RequestFingerprint(r)
  <1>0. DOMAIN ef = 1..Len(ef) /\ Len(ef) \in Nat
    OBVIOUS
  <1>5. fp \in STRING \X STRING
    BY DEF CallRequest, Calls!RequestFingerprint
  <1> HIDE DEF fp
  <1>1. CASE ca2 = ca /\ ef2 = ef
    BY <1>1
  <1>2. CASE /\ r.key # Calls!NoKey /\ r.key \notin DOMAIN ca
             /\ ca2 = Calls!With(ca, r.key, fp) /\ ef2 = Append(ef, e)
    <2>1. /\ DOMAIN ca2 = DOMAIN ca \union {r.key} /\ ca2[r.key] = fp
          /\ \A k \in DOMAIN ca : ca2[k] = ca[k]
          /\ ca2 \in [DOMAIN ca2 -> STRING \X STRING]
      BY <1>5, <1>2 DEF Calls!With
    <2>2. /\ ef2 \in Seq(AppliedEffect) /\ DOMAIN ef2 = 1..(Len(ef) + 1)
          /\ ef2[Len(ef) + 1] = e /\ \A i \in DOMAIN ef : ef2[i] = ef[i]
      BY <1>0, <1>2, Appended
    <2>3. \A i \in DOMAIN ef2 : i \in DOMAIN ef \/ i = Len(ef) + 1
      BY <1>0, <2>2
    <2>4. \A i \in DOMAIN ef2 : ef2[i].key # Calls!NoKey =>
             ef2[i].key \in DOMAIN ca2 /\ ca2[ef2[i].key] = ef2[i].what
      BY <2>1, <2>2, <2>3 DEF CacheTells, fp
    <2>5. \A k \in DOMAIN ca2 : k # Calls!NoKey /\ \E i \in DOMAIN ef2 : ef2[i].key = k
      <3>1. ASSUME NEW k \in DOMAIN ca2, k \in DOMAIN ca
            PROVE  k # Calls!NoKey /\ \E i \in DOMAIN ef2 : ef2[i].key = k
        <4>1. k # Calls!NoKey /\ \E i \in DOMAIN ef : ef[i].key = k
          BY <3>1 DEF CacheTells
        <4>2. QED
          BY <1>0, <2>2, <4>1
      <3>2. Len(ef) + 1 \in DOMAIN ef2
        BY <1>0, <2>2
      <3>3. QED
        BY <1>2, <2>1, <2>2, <3>1, <3>2
    <2>6. \A i \in DOMAIN ef : ef[i].key # r.key
      BY <1>2 DEF CacheTells
    <2>7. \A i, j \in DOMAIN ef2 :
             i # j /\ ef2[i].key # Calls!NoKey => ef2[i].key # ef2[j].key
      BY <2>2, <2>3, <2>6 DEF CacheTells
    <2>8. CacheTells(ca2, ef2)
      BY <2>4, <2>5, <2>7 DEF CacheTells
    <2>9. QED
      BY <1>0, <2>1, <2>2, <2>3, <2>8
  <1>3. CASE /\ r.key = Calls!NoKey /\ ca2 = ca
             /\ ef2 \in {Append(ef, e), Append(Append(ef, e), e)}
    <2>1. /\ ef2 \in Seq(AppliedEffect) /\ \A i \in DOMAIN ef : i \in DOMAIN ef2 /\ ef2[i] = ef[i]
          /\ \A i \in DOMAIN ef2 \ DOMAIN ef : i \in {Len(ef) + 1, Len(ef) + 2} /\ ef2[i] = e
      <3>1. CASE ef2 = Append(ef, e)
        <4>1. /\ ef2 \in Seq(AppliedEffect) /\ DOMAIN ef2 = 1..(Len(ef) + 1)
              /\ ef2[Len(ef) + 1] = e /\ \A i \in DOMAIN ef : ef2[i] = ef[i]
          BY <1>0, <3>1, Appended
        <4>2. QED
          BY <1>0, <4>1
      <3>2. CASE ef2 = Append(Append(ef, e), e)
        <4>0. PICK one : one = Append(ef, e)
          OBVIOUS
        <4>1. /\ one \in Seq(AppliedEffect) /\ Len(one) = Len(ef) + 1 /\ one[Len(ef) + 1] = e
              /\ \A i \in DOMAIN ef : one[i] = ef[i]
          BY <1>0, <4>0, Appended
        <4>2. ef2 = Append(one, e)
          BY <3>2, <4>0
        <4>3. /\ ef2 \in Seq(AppliedEffect) /\ DOMAIN ef2 = 1..(Len(ef) + 2)
              /\ ef2[Len(ef) + 2] = e /\ ef2[Len(ef) + 1] = e
              /\ \A i \in DOMAIN ef : ef2[i] = ef[i]
          <5>1. /\ ef2 \in Seq(AppliedEffect) /\ DOMAIN ef2 = 1..(Len(one) + 1)
                /\ ef2[Len(one) + 1] = e /\ \A i \in 1..Len(one) : ef2[i] = one[i]
            BY <4>1, <4>2, Appended
          <5>2. QED
            BY <1>0, <4>1, <5>1
        <4>4. QED
          BY <1>0, <4>3
      <3>3. QED
        BY <1>3, <3>1, <3>2
    <2>2. CacheTells(ca2, ef2)
      <3>1. \A i \in DOMAIN ef2 : ef2[i].key # Calls!NoKey => i \in DOMAIN ef /\ ef2[i] = ef[i]
        BY <1>3, <2>1
      <3>2. /\ \A i \in DOMAIN ef : ef[i].key # Calls!NoKey =>
                  ef[i].key \in DOMAIN ca /\ ca[ef[i].key] = ef[i].what
            /\ \A k \in DOMAIN ca : k # Calls!NoKey /\ \E i \in DOMAIN ef : ef[i].key = k
            /\ \A i, j \in DOMAIN ef :
                  i # j /\ ef[i].key # Calls!NoKey => ef[i].key # ef[j].key
        BY DEF CacheTells
      <3>3. \A i \in DOMAIN ef2 : ef2[i].key # Calls!NoKey =>
               ef2[i].key \in DOMAIN ca2 /\ ca2[ef2[i].key] = ef2[i].what
        BY <1>3, <3>1, <3>2
      <3>4. \A k \in DOMAIN ca2 : k # Calls!NoKey /\ \E i \in DOMAIN ef2 : ef2[i].key = k
        BY <1>3, <2>1, <3>2
      <3>5. ASSUME NEW i \in DOMAIN ef2, NEW j \in DOMAIN ef2, i # j, ef2[i].key # Calls!NoKey,
                   ef2[i].key = ef2[j].key
            PROVE  FALSE
        BY <3>1, <3>2, <3>5
      <3>6. QED
        BY <3>3, <3>4, <3>5 DEF CacheTells
    <2>3. QED
      BY <1>3, <2>1, <2>2
  <1>4. QED
    BY <1>1, <1>2, <1>3 DEF Followed, fp

\* A delivery leaves its effect, if any, in the books of its server.
LEMMA DeliveryBooks ==
    ASSUME CallInv, NEW c \in Client, rpc[c] # Calls!Ready, NEW s \in Pool, NEW delay \in Int,
           NEW twice \in BOOLEAN, NEW dropReply \in BOOLEAN,
           Calls!Deliver(c, s, delay, twice, dropReply)
    PROVE  /\ effects' \in [Pool -> Seq(AppliedEffect)]
           /\ cache' = [t \in Pool |-> cache'[t]] /\ tasks' = [t \in Pool |-> tasks'[t]]
           /\ \A t \in Pool : /\ cache'[t] \in [DOMAIN cache'[t] -> STRING \X STRING]
                              /\ tasks'[t] \in [DOMAIN tasks'[t] -> STRING]
                              /\ CacheTells(cache'[t], effects'[t])
           /\ Grown(c)
           /\ dropReply => Calls!RetryOrEnd(c)
           /\ ~dropReply => \E o \in Word : Answered(c, o) /\ Calls!Ends(c, o)
  <1>1. PICK p, r, by, e :
           /\ p = Calls!Position(c) /\ r = Calls!Current(c) /\ by = <<c, p>>
           /\ e = Calls!Effect(r, by)
    OBVIOUS
  <1>2. PICK st, once : st = Calls!State(s) /\ once = Calls!Handled(st, r, by)
    OBVIOUS
  <1>3. PICK seen, after : /\ seen = IF twice THEN once ELSE st
                           /\ after = IF twice THEN Calls!Handled(once, r, by) ELSE once
    OBVIOUS
  <1>4. /\ p \in Nat /\ r = Script[c][p] /\ r \in CallRequest /\ CallTypes
    BY <1>1, CallsHaveRequests DEF CallInv
  <1>5. /\ e.key = r.key /\ e.what = Calls!RequestFingerprint(r) /\ e.by = <<c, p>>
        /\ e \in AppliedEffect
    BY <1>1, <1>4 DEF Calls!Effect, AppliedEffect, CallRequest, Calls!RequestFingerprint
  <1>6. /\ st = [cache |-> st.cache, tasks |-> st.tasks, effects |-> st.effects]
        /\ st.cache = cache[s] /\ st.tasks = tasks[s] /\ st.effects = effects[s]
    BY <1>2 DEF Calls!State
  <1>7. /\ cache[s] \in [DOMAIN cache[s] -> STRING \X STRING]
        /\ tasks[s] \in [DOMAIN tasks[s] -> STRING]
        /\ effects[s] \in Seq(AppliedEffect) /\ CacheTells(cache[s], effects[s])
    BY <1>4 DEF CallTypes, CallInv
  <1>8. /\ after.tasks \in [DOMAIN after.tasks -> STRING]
        /\ seen.tasks \in [DOMAIN seen.tasks -> STRING]
        /\ \/ /\ after.cache = cache[s] /\ after.effects = effects[s] /\ seen = st
              /\ r.method # "POST" \/ Calls!Replayed(st, r)
           \/ /\ r.method = "POST" /\ r.key # Calls!NoKey /\ r.key \notin DOMAIN cache[s]
              /\ after.cache = Calls!With(cache[s], r.key, Calls!RequestFingerprint(r))
              /\ after.effects = Append(effects[s], e)
              /\ ~Calls!Conflicts(seen, r)
           \/ /\ r.method = "POST" /\ r.key = Calls!NoKey
              /\ after.cache = cache[s] /\ ~Calls!Conflicts(seen, r)
              /\ after.effects \in {Append(effects[s], e), Append(Append(effects[s], e), e)}
    <2>1. /\ st.cache \in [DOMAIN st.cache -> STRING \X STRING]
          /\ st.tasks \in [DOMAIN st.tasks -> STRING]
      BY <1>6, <1>7
    <2>2. ArrivesAs(st, r, by, seen, after)
      <3>1. st = [cache |-> st.cache, tasks |-> st.tasks, effects |-> st.effects]
        BY <1>6
      <3>2. r \in CallRequest
        BY <1>4
      <3>3. once = Calls!Handled(st, r, by)
        BY <1>2
      <3>4. QED
        BY <1>3, <2>1, <3>1, <3>2, <3>3, Arrivals
    <2>3. QED
      BY <1>1, <1>6, <2>2 DEF ArrivesAs
  <1>9. Followed(cache[s], effects[s], r, e, after.cache, after.effects)
    BY <1>8 DEF Followed
  <1>10. /\ after.effects \in Seq(AppliedEffect)
         /\ after.cache \in [DOMAIN after.cache -> STRING \X STRING]
         /\ CacheTells(after.cache, after.effects)
         /\ \A i \in DOMAIN effects[s] :
               i \in DOMAIN after.effects /\ after.effects[i] = effects[s][i]
         /\ \A i \in DOMAIN after.effects \ DOMAIN effects[s] :
               i \in {Len(effects[s]) + 1, Len(effects[s]) + 2} /\ after.effects[i] = e
         /\ \A k \in DOMAIN cache[s] : k \in DOMAIN after.cache /\ after.cache[k] = cache[s][k]
    <2>1. PICK ca, ef : ca = cache[s] /\ ef = effects[s]
      OBVIOUS
    <2>2. PICK ca2, ef2 : ca2 = after.cache /\ ef2 = after.effects
      OBVIOUS
    <2>3. /\ ef \in Seq(AppliedEffect) /\ CacheTells(ca, ef)
          /\ ca \in [DOMAIN ca -> STRING \X STRING] /\ Followed(ca, ef, r, e, ca2, ef2)
      BY <1>7, <1>9, <2>1, <2>2
    <2>4. /\ ef2 \in Seq(AppliedEffect) /\ ca2 \in [DOMAIN ca2 -> STRING \X STRING]
          /\ CacheTells(ca2, ef2)
          /\ \A i \in DOMAIN ef : i \in DOMAIN ef2 /\ ef2[i] = ef[i]
          /\ \A i \in DOMAIN ef2 \ DOMAIN ef : i \in {Len(ef) + 1, Len(ef) + 2} /\ ef2[i] = e
          /\ \A k \in DOMAIN ca : k \in DOMAIN ca2 /\ ca2[k] = ca[k]
      BY <1>4, <1>5, <2>3, BooksAgree
    <2>5. QED
      BY <2>1, <2>2, <2>4
  <1>11. /\ cache' = [cache EXCEPT ![s] = after.cache]
         /\ tasks' = [tasks EXCEPT ![s] = after.tasks]
         /\ effects' = [effects EXCEPT ![s] = after.effects]
    BY <1>1, <1>2, <1>3 DEF Calls!Deliver
  <1>12. /\ cache'[s] = after.cache /\ tasks'[s] = after.tasks /\ effects'[s] = after.effects
         /\ \A t \in Pool : t # s => /\ cache'[t] = cache[t] /\ tasks'[t] = tasks[t]
                                     /\ effects'[t] = effects[t]
         /\ cache' = [t \in Pool |-> cache'[t]] /\ tasks' = [t \in Pool |-> tasks'[t]]
         /\ effects' \in [Pool -> Seq(AppliedEffect)]
    BY <1>4, <1>10, <1>11 DEF CallTypes
  <1>13. ASSUME NEW t \in Pool
         PROVE  /\ cache'[t] \in [DOMAIN cache'[t] -> STRING \X STRING]
                /\ tasks'[t] \in [DOMAIN tasks'[t] -> STRING]
                /\ CacheTells(cache'[t], effects'[t])
    <2>1. CASE t = s
      BY <1>8, <1>10, <1>12, <2>1
    <2>2. CASE t # s
      BY <1>4, <1>12, <2>2 DEF CallTypes, CallInv
    <2>3. QED
      BY <2>1, <2>2
  <1>14. Grown(c)
    <2> SUFFICES ASSUME NEW t \in Pool
                 PROVE  /\ \A i \in DOMAIN effects[t] :
                              i \in DOMAIN effects'[t] /\ effects'[t][i] = effects[t][i]
                        /\ \A i \in DOMAIN effects'[t] \ DOMAIN effects[t] :
                              /\ i \in {Len(effects[t]) + 1, Len(effects[t]) + 2}
                              /\ effects'[t][i] = e /\ r.method = "POST"
                        /\ \A k \in DOMAIN cache[t] :
                              k \in DOMAIN cache'[t] /\ cache'[t][k] = cache[t][k]
      BY <1>1 DEF Grown
    <2>1. CASE t # s
      BY <1>12, <2>1
    <2>2. CASE t = s
      <3>1. (\E i \in DOMAIN after.effects : i \notin DOMAIN effects[s]) => r.method = "POST"
        BY <1>8
      <3>2. QED
        BY <1>10, <1>12, <2>2, <3>1
    <2>3. QED
      BY <2>1, <2>2
  <1>15. dropReply => Calls!RetryOrEnd(c)
    BY DEF Calls!Deliver
  <1>16. ASSUME ~dropReply
         PROVE  \E o \in Word : Answered(c, o) /\ Calls!Ends(c, o)
    <2>1. PICK reply : reply = Calls!Reply(seen, r)
      OBVIOUS
    <2>2. PICK o : o = IF Calls!InTime(c, delay) THEN Calls!Seen(reply) ELSE "deadline"
      OBVIOUS
    <2>3. Calls!Ends(c, o) /\ callClock' = callClock + delay
      BY <1>16, <1>1, <1>2, <1>3, <2>1, <2>2 DEF Calls!Deliver
    <2>4. CASE ~Calls!InTime(c, delay)
      <3>1. o = "deadline"
        BY <2>2, <2>4
      <3>2. r.body # "deadline" /\ o \in Word
        BY <1>4, <3>1 DEF CallRequest, Word
      <3>3. Answered(c, o)
        BY <1>1, <2>3, <3>1, <3>2 DEF Answered, Calls!Ends
      <3>4. QED
        BY <2>3, <3>2, <3>3
    <2>5. CASE Calls!InTime(c, delay)
      <3>1. o = Calls!Seen(reply)
        BY <2>2, <2>5
      <3>2. callClock' < rpc[c].start + r.budget
        <4>1. rpc[c].start \in Int /\ r.budget \in Int /\ callClock \in Int
          <5>1. rpc[c] \in Underway
            BY <1>4, CallsHaveRequests
          <5>2. rpc[c].start \in Int
            BY <5>1 DEF Underway
          <5>3. r.budget \in Int
            <6>1. PICK q \in CallRequest : q = r
              BY <1>4
            <6>2. q.budget \in Nat
              BY DEF CallRequest
            <6>3. QED
              BY <6>1, <6>2
          <5>4. QED
            BY <1>4, <5>2, <5>3 DEF CallTypes
        <4>2. rpc[c].start + r.budget - callClock - delay > 0
          <5>1. r = Calls!Current(c)
            BY <1>1
          <5>2. QED
            BY <2>5, <4>1, <5>1 DEF Calls!InTime, Calls!RemainingAfter, Calls!Remaining
        <4>3. QED
          BY <2>3, <4>1, <4>2
      <3>3. r.method = "POST" =>
               IF Calls!Conflicts(seen, r) THEN o = "conflict" ELSE o = r.body
        <4>1. ASSUME r.method = "POST", Calls!Conflicts(seen, r)
              PROVE  o = "conflict"
          <5>1. reply = [status |-> 409]
            BY <2>1, <4>1 DEF Calls!Reply
          <5>2. QED
            BY <3>1, <5>1 DEF Calls!Seen
        <4>2. ASSUME r.method = "POST", ~Calls!Conflicts(seen, r)
              PROVE  o = r.body
          <5>1. reply = [status |-> 202, body |-> r.body]
            BY <2>1, <4>2 DEF Calls!Reply
          <5>2. QED
            BY <3>1, <5>1 DEF Calls!Seen
        <4>3. QED
          BY <4>1, <4>2
      <3>4. r.method # "POST" =>
               o = "not found" \/ (r.id \in DOMAIN seen.tasks /\ o = seen.tasks[r.id])
        <4>1. ASSUME r.method = "GET", r.id \in DOMAIN seen.tasks
              PROVE  o = seen.tasks[r.id]
          <5>1. reply = [status |-> 200, body |-> seen.tasks[r.id]]
            BY <2>1, <4>1 DEF Calls!Reply
          <5>2. QED
            BY <3>1, <5>1 DEF Calls!Seen
        <4>2. ASSUME r.method = "GET", r.id \notin DOMAIN seen.tasks
              PROVE  o = "not found"
          <5>0. reply = [status |-> 404]
            BY <2>1, <4>2 DEF Calls!Reply
          <5>1. reply.status = 404 /\ reply.status \notin {200, 202}
            BY <5>0
          <5>2. QED
            BY <3>1, <5>1 DEF Calls!Seen
        <4>3. r.method \in {"GET", "POST"}
          BY <1>4 DEF CallRequest
        <4>4. QED
          BY <4>1, <4>2, <4>3
      <3>5. o \in Word
        <4>1. r.body \in STRING /\ "conflict" \in Word /\ "not found" \in Word
          BY <1>4 DEF CallRequest, Word
        <4>2. r.method # "POST" => o = "not found" \/ o \in STRING
          BY <1>8, <3>4
        <4>3. QED
          BY <3>3, <4>1, <4>2 DEF Word
      <3>6. ASSUME r.method = "POST", o = r.body, NEW n \in Nat, n = Calls!Position(c)
            PROVE  \E t \in Pool : Calls!AppliedBy(t, c, n)' # {}
        <4>1. ~Calls!Conflicts(seen, r) /\ n = p
          BY <1>1, <1>4, <3>3, <3>6 DEF CallRequest
        <4>2. PICK i \in DOMAIN after.effects :
                 /\ after.effects[i].key = r.key
                 /\ after.effects[i].what = Calls!RequestFingerprint(r)
                 /\ r.key = Calls!NoKey => after.effects[i].by = <<c, p>>
          <5>1. CASE /\ after.cache = cache[s] /\ after.effects = effects[s] /\ seen = st
                     /\ Calls!Replayed(st, r)
            <6>1. /\ r.key # Calls!NoKey /\ r.key \in DOMAIN cache[s]
                  /\ cache[s][r.key] = Calls!RequestFingerprint(r)
              BY <1>6, <4>1, <5>1 DEF Calls!Replayed, Calls!Conflicts
            <6>2. PICK i \in DOMAIN effects[s] : effects[s][i].key = r.key
              BY <1>7, <6>1 DEF CacheTells
            <6>3. effects[s][i].what = Calls!RequestFingerprint(r)
              BY <1>7, <6>1, <6>2 DEF CacheTells
            <6>4. QED
              BY <5>1, <6>1, <6>2, <6>3
          <5>2. CASE after.effects \in {Append(effects[s], e), Append(Append(effects[s], e), e)}
            <6>1. /\ Append(effects[s], e) \in Seq(AppliedEffect)
                  /\ Len(effects[s]) \in Nat
                  /\ Len(effects[s]) + 1 \in DOMAIN Append(effects[s], e)
                  /\ Append(effects[s], e)[Len(effects[s]) + 1] = e
              BY <1>5, <1>7, Appended
            <6>2. PICK one : one = Append(effects[s], e)
              OBVIOUS
            <6>3. /\ Len(effects[s]) + 1 \in DOMAIN Append(one, e)
                  /\ Append(one, e)[Len(effects[s]) + 1] = e
              BY <1>5, <6>1, <6>2, Appended
            <6>4. Len(effects[s]) + 1 \in DOMAIN after.effects
                  /\ after.effects[Len(effects[s]) + 1] = e
              BY <5>2, <6>1, <6>2, <6>3
            <6>5. QED
              BY <1>5, <6>4
          <5>3. QED
            BY <1>8, <3>6, <5>1, <5>2
        <4>3. i \in Calls!AppliedBy(s, c, n)'
          BY <1>4, <1>12, <4>1, <4>2 DEF Calls!AppliedBy
        <4>4. QED
          BY <4>3
      <3>7. ASSUME r.method = "POST", o = "conflict"
            PROVE  /\ r.key # Calls!NoKey
                   /\ r.key \in DOMAIN cache'[s]
                   /\ cache'[s][r.key] # Calls!RequestFingerprint(r)
        <4>1. Calls!Conflicts(seen, r)
          BY <1>4, <3>3, <3>7 DEF CallRequest
        <4>2. after.cache = cache[s] /\ seen = st
          BY <1>8, <4>1
        <4>3. QED
          BY <1>6, <1>12, <4>1, <4>2 DEF Calls!Conflicts, Calls!Replayed
      <3>8. Answered(c, o)
        BY <1>1, <2>3, <3>2, <3>6, <3>7 DEF Answered, Calls!Ends
      <3>9. QED
        BY <2>3, <3>5, <3>8
    <2>6. QED
      BY <2>4, <2>5
  <1>17. QED
    BY <1>12, <1>13, <1>14, <1>15, <1>16

\* What was answered stands while neither the books nor the outcomes change.
LEMMA AnswersStay ==
    ASSUME CallInv, CallTypes', UNCHANGED <<outcomes, cache, effects>>
    PROVE  CallInv'
  <1>1. \A s \in Pool : CacheTells(cache'[s], effects'[s])
    BY DEF CallInv
  <1>2. KeylessEnded'
    BY DEF CallInv, KeylessEnded
  <1>3. (\A c \in Client : \A n \in Calls!Finished(c) : AnswerStands(c, n))'
    <2> SUFFICES ASSUME NEW c \in Client, NEW n \in 1..Len(outcomes'[c]), Script[c][n].method = "POST"
                 PROVE  AnswerStands(c, n)'
      BY DEF Calls!Finished
    <2>1. AnswerStands(c, n)
      BY DEF CallInv, Calls!Finished
    <2>2. \A s \in Pool : Calls!AppliedBy(s, c, n)' = Calls!AppliedBy(s, c, n)
      BY DEF Calls!AppliedBy
    <2>3. QED
      BY <2>1, <2>2 DEF AnswerStands
  <1>4. \A c \in Client : rpc'[c] # Calls!Ready => rpc'[c].attempts <= ClientRetries
    <2> SUFFICES ASSUME NEW c \in Client, rpc'[c] # Calls!Ready
                 PROVE  rpc'[c].attempts <= ClientRetries
      OBVIOUS
    <2>1. rpc'[c] \in Underway
      BY DEF CallTypes
    <2>2. QED
      BY <2>1, ScriptAssumption DEF Underway
  <1>5. Calls!DeadlineKept'
    BY <1>4 DEF CallInv, Calls!DeadlineKept
  <1>6. QED
    BY <1>1, <1>2, <1>3, <1>5 DEF CallInv

\* A step of a call under way: what it does to the books and to the call.
LEMMA AttemptKeeps ==
    ASSUME CallInv, NEW c \in Client, rpc[c] # Calls!Ready, callClock' \in Int, Attempted(c),
           \/ Calls!RetryOrEnd(c)
           \/ \E o \in Word : Calls!Ends(c, o),
           effects' \in [Pool -> Seq(AppliedEffect)],
           cache' = [t \in Pool |-> cache'[t]], tasks' = [t \in Pool |-> tasks'[t]],
           \A t \in Pool : /\ cache'[t] \in [DOMAIN cache'[t] -> STRING \X STRING]
                           /\ tasks'[t] \in [DOMAIN tasks'[t] -> STRING]
                           /\ CacheTells(cache'[t], effects'[t])
    PROVE  CallInv'
  <1>1. CallTypes
    BY DEF CallInv
  <1>2. /\ rpc' \in [Client -> {Calls!Ready} \union Underway]
        /\ outcomes' \in [Client -> Seq([outcome : Word, at : Int, start : Int])]
        /\ \A d \in Client : /\ Len(outcomes'[d]) <= Len(Script[d])
                             /\ rpc'[d] # Calls!Ready => Len(outcomes'[d]) < Len(Script[d])
    BY <1>1, CallsMoveOn
  <1>3. CallTypes'
    BY <1>2 DEF CallTypes
  <1>4. /\ KeylessEnded'
        /\ (\A d \in Client : \A n \in Calls!Finished(d) : AnswerStands(d, n))'
        /\ \A d \in Client : \A n \in (DOMAIN outcomes[d])' :
              outcomes'[d][n].outcome \notin {"deadline", "failure"} =>
                 outcomes'[d][n].at < outcomes'[d][n].start + Script[d][n].budget
    BY <1>3, AttemptKeepsAnswers
  <1>5. ASSUME NEW d \in Client, rpc'[d] # Calls!Ready
        PROVE  rpc'[d].attempts <= ClientRetries
    <2>1. rpc'[d] \in Underway
      BY <1>2, <1>5
    <2>2. QED
      BY <2>1, ScriptAssumption DEF Underway
  <1>6. Calls!DeadlineKept'
    BY <1>4, <1>5 DEF Calls!DeadlineKept
  <1>7. QED
    BY <1>3, <1>4, <1>6 DEF CallInv

\* A step that does not reach a server ends the call without an answer, or tries again.
LEMMA UnansweredKeeps ==
    ASSUME CallInv, NEW c \in Client, rpc[c] # Calls!Ready, callClock' \in Int,
           UNCHANGED <<cache, tasks, effects>>,
           Calls!RetryOrEnd(c) \/ Calls!Ends(c, "deadline")
    PROVE  CallInv'
  <1>1. CallTypes
    BY DEF CallInv
  <1>2. Grown(c)
    BY DEF Grown
  <1>3. Calls!Current(c).body \notin {"deadline", "failure"}
    <2>1. Calls!Current(c) \in CallRequest
      BY <1>1, CallsHaveRequests
    <2>2. QED
      BY <2>1 DEF CallRequest
  <1>4. ASSUME NEW o \in {"deadline", "failure"}, Calls!Ends(c, o)
        PROVE  Answered(c, o)
    BY <1>3, <1>4 DEF Answered, Calls!Ends
  <1>5. Attempted(c)
    BY <1>2, <1>4 DEF Attempted, Calls!RetryOrEnd
  <1>6. \/ Calls!RetryOrEnd(c)
        \/ \E o \in Word : Calls!Ends(c, o)
    BY DEF Word
  <1>7. /\ effects' \in [Pool -> Seq(AppliedEffect)]
        /\ cache' = [t \in Pool |-> cache'[t]] /\ tasks' = [t \in Pool |-> tasks'[t]]
        /\ \A t \in Pool : /\ cache'[t] \in [DOMAIN cache'[t] -> STRING \X STRING]
                           /\ tasks'[t] \in [DOMAIN tasks'[t] -> STRING]
                           /\ CacheTells(cache'[t], effects'[t])
    BY <1>1 DEF CallTypes, CallInv
  <1>8. QED
    BY <1>5, <1>6, <1>7, AttemptKeeps

LEMMA BeginKeeps ==
    ASSUME CallInv, NEW c \in Client, Calls!Begin(c)
    PROVE  CallInv'
  <1> DEFINE begun == [at |-> "calling", start |-> callClock, attempts |-> 0]
  <1>1. begun \in Underway
    BY ScriptAssumption DEF CallInv, CallTypes, Underway
  <1>2. /\ rpc' = [rpc EXCEPT ![c] = begun] /\ Len(outcomes[c]) < Len(Script[c])
        /\ UNCHANGED <<callClock, outcomes, cache, tasks, effects>>
    BY DEF Calls!Begin
  <1> HIDE DEF begun
  <1>3. rpc' \in [Client -> {Calls!Ready} \union Underway]
    BY <1>1, <1>2 DEF CallInv, CallTypes
  <1>4. \A d \in Client : d # c => rpc'[d] = rpc[d]
    BY <1>2 DEF CallInv, CallTypes
  <1>5. CallTypes'
    BY <1>2, <1>3, <1>4 DEF CallInv, CallTypes
  <1>6. QED
    BY <1>2, <1>5, AnswersStay

LEMMA CallStep ==
    ASSUME CallInv, [Calls!Next]_callVars
    PROVE  CallInv'
  <1>1. CASE UNCHANGED callVars
    <2>1. UNCHANGED <<callClock, rpc, outcomes, cache, tasks, effects>>
      BY <1>1 DEF callVars
    <2>2. CallTypes'
      BY <2>1 DEF CallInv, CallTypes
    <2>3. QED
      BY <2>1, <2>2, AnswersStay
  <1>2. ASSUME NEW c \in Client, Calls!Begin(c)
        PROVE  CallInv'
    BY <1>2, BeginKeeps
  <1>3. callClock \in Int /\ \A delay \in CallDelay : delay \in Int /\ callClock + delay \in Int
    BY ScriptAssumption DEF CallInv, CallTypes
  <1>4. ASSUME NEW c \in Client, Calls!Expire(c)
        PROVE  CallInv'
    <2>1. /\ rpc[c] # Calls!Ready /\ callClock' \in Int /\ Calls!Ends(c, "deadline")
          /\ UNCHANGED <<cache, tasks, effects>>
      BY <1>3, <1>4 DEF Calls!Expire
    <2>2. QED
      BY <2>1, UnansweredKeeps
  <1>5. ASSUME NEW c \in Client, NEW delay \in CallDelay,
               Calls!LoseRequest(c, delay) \/ Calls!TurnAway(c, delay)
        PROVE  CallInv'
    <2>1. /\ rpc[c] # Calls!Ready /\ callClock' \in Int
          /\ Calls!RetryOrEnd(c) \/ Calls!Ends(c, "deadline")
          /\ UNCHANGED <<cache, tasks, effects>>
      BY <1>3, <1>5 DEF Calls!LoseRequest, Calls!TurnAway
    <2>2. QED
      BY <2>1, UnansweredKeeps
  <1>6. ASSUME NEW c \in Client, NEW delay \in CallDelay, NEW s \in Pool,
               NEW twice \in BOOLEAN, NEW dropReply \in BOOLEAN,
               Calls!Deliver(c, s, delay, twice, dropReply)
        PROVE  CallInv'
    <2>1. rpc[c] # Calls!Ready /\ callClock' \in Int /\ delay \in Int
      BY <1>3, <1>6 DEF Calls!Deliver
    <2>2. /\ effects' \in [Pool -> Seq(AppliedEffect)]
          /\ cache' = [t \in Pool |-> cache'[t]] /\ tasks' = [t \in Pool |-> tasks'[t]]
          /\ \A t \in Pool : /\ cache'[t] \in [DOMAIN cache'[t] -> STRING \X STRING]
                             /\ tasks'[t] \in [DOMAIN tasks'[t] -> STRING]
                             /\ CacheTells(cache'[t], effects'[t])
          /\ Grown(c)
          /\ dropReply => Calls!RetryOrEnd(c)
          /\ ~dropReply => \E o \in Word : Answered(c, o) /\ Calls!Ends(c, o)
      BY <1>6, <2>1, DeliveryBooks
    <2>3. Attempted(c)
      <3>1. CASE dropReply
        <4>1. Calls!Current(c).body \notin {"deadline", "failure"}
          <5>1. Calls!Current(c) \in CallRequest
            BY <2>1, CallsHaveRequests DEF CallInv
          <5>2. QED
            BY <5>1 DEF CallRequest
        <4>2. Calls!Ends(c, "failure") => Answered(c, "failure")
          BY <4>1 DEF Answered, Calls!Ends
        <4>3. QED
          BY <2>2, <3>1, <4>2 DEF Attempted, Calls!RetryOrEnd
      <3>2. CASE ~dropReply
        BY <2>2, <3>2 DEF Attempted
      <3>3. QED
        BY <3>1, <3>2
    <2>4. Calls!RetryOrEnd(c) \/ \E o \in Word : Calls!Ends(c, o)
      BY <2>2
    <2>5. QED
      BY <2>1, <2>2, <2>3, <2>4, AttemptKeeps
  <1>7. QED
    BY <1>1, <1>2, <1>4, <1>5, <1>6 DEF Calls!Next

\* The answers that stand, with the replay caches, are what the property asks for.
LEMMA CallInvHolds ==
    ASSUME CallInv
    PROVE  Calls!TakesEffectOnce /\ Calls!DeadlineKept
  <1>1. Calls!AppliedOnceByKey
    BY DEF CallInv, CacheTells, Calls!AppliedOnceByKey
  <1>2. ASSUME NEW c \in Client, NEW n \in Calls!Finished(c)
        PROVE  Calls!OutcomeTrue(c, n)
    <2> DEFINE r == Script[c][n]
    <2>1. AnswerStands(c, n)
      BY DEF CallInv
    <2>2. ASSUME outcomes[c][n].outcome = "conflict"
          PROVE  \E s \in Pool : Calls!AppliedBy(s, c, n) = {}
      <3>1. PICK s \in Pool : /\ r.key \in DOMAIN cache[s]
                              /\ cache[s][r.key] # Calls!RequestFingerprint(r)
        BY <2>1, <2>2 DEF AnswerStands
      <3>2. \A i \in DOMAIN effects[s] : effects[s][i].key = r.key =>
               effects[s][i].key # Calls!NoKey /\ effects[s][i].what = cache[s][r.key]
        BY <3>1 DEF CallInv, CacheTells
      <3>3. Calls!AppliedBy(s, c, n) = {}
        BY <3>1, <3>2 DEF Calls!AppliedBy
      <3>4. QED
        BY <3>3
    <2>3. outcomes[c][n].outcome = r.body => \E s \in Pool : Calls!AppliedBy(s, c, n) # {}
      BY <2>1 DEF AnswerStands
    <2>4. r.key = Calls!NoKey => \A s \in Pool : Cardinality(Calls!AppliedBy(s, c, n)) <= 2
      BY <2>1 DEF AnswerStands
    <2>5. \A S : Calls!Cardinality(S) = Cardinality(S)
      BY DEF Calls!Cardinality, Cardinality
    <2>6. QED
      BY <2>2, <2>3, <2>4, <2>5 DEF Calls!OutcomeTrue
  <1>3. QED
    BY <1>1, <1>2 DEF CallInv, Calls!TakesEffectOnce

\* However requests of lab 19 are lost, delayed, doubled and retried, a server applies one
\* request at most under a key, what a call was told agrees with what the servers applied,
\* and nobody takes an answer after the deadline: a part of WorkDoneOnce.
THEOREM CallsTakeEffectOnce == Calls!Spec => [](Calls!TakesEffectOnce /\ Calls!DeadlineKept)
  <1>1. Calls!Init => CallInv
    <2> SUFFICES ASSUME Calls!Init PROVE CallInv
      OBVIOUS
    <2>1. /\ callClock = 0 /\ rpc = [c \in Client |-> Calls!Ready]
          /\ outcomes = [c \in Client |-> <<>>]
          /\ cache = [s \in Pool |-> Calls!Empty] /\ tasks = [s \in Pool |-> Calls!Empty]
          /\ effects = [s \in Pool |-> <<>>]
      BY DEF Calls!Init
    <2>2. DOMAIN Calls!Empty = {} /\ \A S : Calls!Empty \in [DOMAIN Calls!Empty -> S]
      BY DEF Calls!Empty
    <2>3. ASSUME NEW c \in Client
          PROVE  Len(outcomes[c]) <= Len(Script[c]) /\ Len(outcomes[c]) = 0
      <3>1. Script[c] \in Seq(CallRequest)
        BY ScriptAssumption
      <3>2. QED
        BY <2>1, <3>1
    <2>4. CallTypes
      BY <2>1, <2>2, <2>3 DEF CallTypes
    <2>5. \A s \in Pool : CacheTells(cache[s], effects[s])
      BY <2>1, <2>2 DEF CacheTells
    <2>6. KeylessEnded
      BY <2>1 DEF KeylessEnded
    <2>7. \A c \in Client : Calls!Finished(c) = {}
      BY <2>3 DEF Calls!Finished
    <2>8. Calls!DeadlineKept
      BY <2>1 DEF Calls!DeadlineKept
    <2>9. QED
      BY <2>4, <2>5, <2>6, <2>7, <2>8 DEF CallInv
  <1>2. CallInv /\ [Calls!Next]_callVars => CallInv'
    BY CallStep
  <1>3. QED
    BY <1>1, <1>2, CallInvHolds, PTL DEF Calls!Spec, Calls!vars, callVars

-----------------------------------------------------------------------------
(* Processes of lab 11 *)

Process == Processes!Child
Total == Len(Deliveries)

ProcessAt ==
    {"waiting", "receiving", "working", "counting", "reading", "writing", "releasing",
     "ended", "killed", "stopped"}

ProcessTypes ==
    /\ job \in {"queue", "count"}
    /\ parent \in [at : {"putting", "collecting", "joining", "done", "raised"}, n : Nat]
    /\ input \in Seq(Nat) /\ output \in Seq(1..Total)
    /\ child \in [Process -> [at : ProcessAt, item : Nat, todo : SUBSET (1..Total)]]
    /\ counts \in [Processes!Range(Deliveries) -> Nat]
    /\ killed \subseteq Process

At(state) == {c \in Process : child[c].at = state}

\* What the parent has put, and what of it the children took: items in their order, and
\* then one None for each child.
PutSoFar == IF parent.at = "putting" THEN parent.n ELSE Total + Processes!Sentinels
Taken == PutSoFar - Len(input)
TakenItems == IF Taken <= Total THEN Taken ELSE Total

QueueHolds ==
    /\ parent.at = "putting" => parent.n < Total + Processes!Sentinels
    /\ Len(input) <= PutSoFar
    /\ \A j \in 1..Len(input) :
          input[j] = IF Taken + j <= Total THEN Taken + j ELSE Processes!None

ChildrenHold ==
    \A c \in Process :
        /\ child[c].at \in {"waiting", "receiving", "working", "ended", "killed"}
        /\ child[c].at = "working" => child[c].item \in 1..Total
        /\ child[c].at = "killed" <=> c \in killed

\* Each None ends one child; unless a child was killed, each item that was taken is in the
\* hands of one child or has one result.
NoneEndsOne == Cardinality(At("ended")) = Taken - TakenItems
InHand == {child[c].item : c \in At("working")}
NothingLost ==
    /\ Cardinality(At("working")) + Len(output) = TakenItems
    /\ InHand \union Processes!Range(output) = 1..TakenItems

QueueInv ==
    job = "queue" =>
        /\ QueueHolds /\ ChildrenHold /\ NoneEndsOne
        /\ killed = {} => NothingLost
        /\ parent.at = "collecting" => parent.n < Total

\* A delivery is counted when it is nobody's any more.
CountedOf(t) ==
    {i \in DOMAIN Deliveries :
        Deliveries[i] = t /\ \A c \in Process : i \notin child[c].todo}

Counter(c) ==
    /\ child[c].at \in {"counting", "reading", "writing", "releasing", "ended", "killed"}
    /\ child[c].todo \subseteq Processes!Chunk(c)
    /\ child[c].at \in {"reading", "writing"} => child[c].todo # {}
    /\ child[c].at \in {"reading", "writing", "releasing"} => holder = c
    /\ child[c].at = "writing" => child[c].item = counts[Deliveries[Processes!Delivered(c)]]
    /\ child[c].at = "ended" => child[c].todo = {}

CountInv ==
    job = "count" =>
        /\ parent.at \in {"joining", "done"}
        /\ \A c \in Process : Counter(c)
        /\ \A t \in Processes!Range(Deliveries) : counts[t] = Cardinality(CountedOf(t))

ProcessInv ==
    /\ ProcessTypes /\ QueueInv /\ CountInv
    /\ parent.at = "done" => At("ended") = Process

\* A run that has raised promises nothing more.
ProcessHolds == parent.at = "raised" \/ ProcessInv

LEMMA ProcessFacts ==
    /\ Total \in Nat \ {0} /\ DOMAIN Deliveries = 1..Total
    /\ \E n \in Nat \ {0} : /\ Process = 1..n /\ n <= Total
                            /\ Cardinality(Process) = n /\ Processes!Sentinels = n
    /\ IsFiniteSet(Process)
    /\ \A S : Processes!Cardinality(S) = Cardinality(S)
    /\ Processes!None = 0 /\ Processes!None \notin Process
    /\ \A f : Processes!Range(f) = {f[x] : x \in DOMAIN f}
  <1>1. Total \in Nat \ {0} /\ DOMAIN Deliveries = 1..Total
    BY ProcessAssumption DEF Total
  <1>2. \A S : Processes!Cardinality(S) = Cardinality(S)
    BY DEF Processes!Cardinality, Cardinality
  <1>3. PICK n \in Nat \ {0} : Process = 1..n /\ n <= Total
    <2>1. Processes!Smaller(ProcessWorkers, Len(Deliveries)) \in Nat \ {0}
          /\ Processes!Smaller(ProcessWorkers, Len(Deliveries)) <= Total
      BY <1>1, ProcessAssumption DEF Processes!Smaller, Total
    <2>2. QED
      BY <2>1 DEF Process, Processes!Child
  <1>4. IsFiniteSet(Process) /\ Cardinality(Process) = n
    BY <1>3, FS_Interval
  <1>5. Processes!Sentinels = n
    BY <1>2, <1>4 DEF Processes!Sentinels, Process
  <1>6. Processes!None = 0 /\ Processes!None \notin Process
    BY <1>3 DEF Processes!None
  <1>7. \A f : Processes!Range(f) = {f[x] : x \in DOMAIN f}
    BY DEF Processes!Range
  <1>8. QED
    BY <1>1, <1>2, <1>3, <1>4, <1>5, <1>6, <1>7

LEMMA Remainders ==
    ASSUME NEW m \in Nat \ {0}
    PROVE  /\ m % m = 0
           /\ \A x \in 0..(m - 1) : x % m = x
  <1>1. m % m = 0
    BY SMT
  <1>2. \A x \in 0..(m - 1) : x % m = x
    BY SMT
  <1>3. QED
    BY <1>1, <1>2

\* How the sets of children in a state change when one of them moves.
LEMMA ChildMoves ==
    ASSUME ProcessTypes, NEW c \in Process, NEW from, NEW to, from # to,
           child[c].at = from, child'[c].at = to,
           \A d \in Process \ {c} : child'[d] = child[d]
    PROVE  /\ At(to)' = At(to) \union {c} /\ Cardinality(At(to)') = Cardinality(At(to)) + 1
           /\ At(from)' = At(from) \ {c} /\ Cardinality(At(from)') = Cardinality(At(from)) - 1
           /\ c \in At(from) /\ c \notin At(to)
           /\ \A s : s \notin {from, to} => At(s)' = At(s)
           /\ \A s : Cardinality(At(s)) \in Nat
  <1>1. /\ At(to)' = At(to) \union {c} /\ At(from)' = At(from) \ {c}
        /\ c \in At(from) /\ c \notin At(to)
        /\ \A s : s \notin {from, to} => At(s)' = At(s)
    BY DEF At
  <1>2. \A s : IsFiniteSet(At(s)) /\ Cardinality(At(s)) \in Nat
    <2>1. \A s : At(s) \subseteq Process
      BY DEF At
    <2>2. QED
      BY <2>1, ProcessFacts, FS_Subset, FS_CardinalityType
  <1>3. Cardinality(At(to)') = Cardinality(At(to)) + 1
    <2>1. Cardinality(At(to) \union {c}) = Cardinality(At(to)) + 1
      BY <1>1, <1>2, FS_AddElement, Zenon
    <2>2. QED
      BY <1>1, <2>1, Zenon
  <1>4. Cardinality(At(from)') = Cardinality(At(from)) - 1
    <2>1. Cardinality(At(from) \ {c}) = Cardinality(At(from)) - 1
      BY <1>1, <1>2, FS_RemoveElement, Zenon
    <2>2. QED
      BY <1>1, <2>1, Zenon
  <1>5. QED
    BY <1>1, <1>2, <1>3, <1>4

-----------------------------------------------------------------------------
(* The parent *)

LEMMA PutKeeps == ASSUME ProcessInv, Processes!Put PROVE ProcessInv'
  <1> DEFINE n == parent.n + 1
             value == IF n <= Len(Deliveries) THEN n ELSE Processes!None
  <1>1. /\ parent.at = "putting" /\ input' = Append(input, value)
        /\ parent' = IF n = Len(Deliveries) + Processes!Sentinels
                     THEN [at |-> "collecting", n |-> 0] ELSE [parent EXCEPT !.n = n]
        /\ UNCHANGED <<job, output, child, counts, holder, killed>>
    BY DEF Processes!Put
  <1>2. PICK m \in Nat \ {0} : m <= Total /\ Processes!Sentinels = m
    BY ProcessFacts
  <1>3. Total \in Nat \ {0} /\ Processes!None = 0 /\ Total = Len(Deliveries)
    BY ProcessFacts DEF Total
  <1>4. /\ job \in {"queue", "count"} /\ input \in Seq(Nat) /\ parent.n \in Nat
        /\ parent \in [at : {"putting", "collecting", "joining", "done", "raised"}, n : Nat]
    BY DEF ProcessInv, ProcessTypes
  <1>5. job = "queue" /\ parent.n < Total + m /\ Len(input) <= parent.n
    BY <1>1, <1>2, <1>4 DEF ProcessInv, QueueInv, QueueHolds, CountInv, PutSoFar
  <1>6. Len(input) \in Nat /\ PutSoFar = parent.n
        /\ PutSoFar' = parent.n + 1 /\ Len(input') = Len(input) + 1
    BY <1>1, <1>2, <1>3, <1>4, <1>5 DEF PutSoFar, Processes!Sentinels
  <1>7. Taken' = Taken /\ TakenItems' = TakenItems /\ Taken = parent.n - Len(input)
    BY <1>4, <1>6 DEF Taken, TakenItems
  <1>8. ProcessTypes'
    <2>1. value \in Nat
      BY <1>3, <1>4
    <2>2. input' \in Seq(Nat)
      BY <1>1, <1>4, <2>1
    <2>3. parent' \in [at : {"putting", "collecting", "joining", "done", "raised"}, n : Nat]
      BY <1>1, <1>4
    <2>4. QED
      BY <1>1, <2>2, <2>3 DEF ProcessInv, ProcessTypes
  <1>9. QueueHolds'
    <2>1. parent'.at = "putting" => parent'.n < Total + Processes!Sentinels
      <3>1. parent'.at = "putting" => n # Total + m /\ parent' = [parent EXCEPT !.n = n]
        BY <1>1, <1>2, <1>3
      <3>2. parent'.at = "putting" => parent'.n = n
        BY <3>1, <1>4
      <3>3. \A a, b \in Nat : a < b => a + 1 < b \/ a + 1 = b
        OBVIOUS
      <3>4. parent.n + 1 < Total + m \/ parent.n + 1 = Total + m
        <4>1. parent.n \in Nat /\ Total + m \in Nat /\ parent.n < Total + m
          BY <1>2, <1>3, <1>4, <1>5
        <4>2. QED
          BY <4>1, <3>3, Zenon
      <3>5. QED
        BY <3>1, <3>2, <3>4, <1>1, <1>2
    <2>2. Len(input') <= PutSoFar'
      BY <1>5, <1>6, <1>4
    <2>3. ASSUME NEW j \in 1..Len(input')
          PROVE  input'[j] = IF Taken + j <= Total THEN Taken + j ELSE Processes!None
      <3>1. CASE j <= Len(input)
        <4>1. input'[j] = input[j] /\ j \in 1..Len(input)
          BY <1>1, <1>4, <1>6, <2>3, <3>1
        <4>2. QED
          BY <4>1, <1>5 DEF ProcessInv, QueueInv, QueueHolds
      <3>2. CASE j = Len(input) + 1
        <4>1. input'[j] = value
          BY <1>1, <1>4, <3>2
        <4>2. Taken + j = n
          BY <1>4, <1>6, <1>7, <3>2
        <4>3. QED
          BY <4>1, <4>2, <1>3
      <3>3. QED
        BY <1>6, <2>3, <3>1, <3>2
    <2>4. QED
      BY <2>1, <2>2, <2>3, <1>7 DEF QueueHolds
  <1>10. At("ended")' = At("ended") /\ At("working")' = At("working") /\ InHand' = InHand
    BY <1>1 DEF At, InHand
  <1>11. ChildrenHold' /\ NoneEndsOne' /\ (killed' = {} => NothingLost')
    <2>1. ChildrenHold /\ NoneEndsOne /\ (killed = {} => NothingLost)
      BY <1>5 DEF ProcessInv, QueueInv
    <2>2. ChildrenHold'
      BY <2>1, <1>1 DEF ChildrenHold
    <2>3. NoneEndsOne'
      BY <2>1, <1>7, <1>10 DEF NoneEndsOne
    <2>4. killed' = {} => NothingLost'
      BY <2>1, <1>1, <1>7, <1>10 DEF NothingLost
    <2>5. QED
      BY <2>2, <2>3, <2>4
  <1>12. parent'.at \in {"putting", "collecting"}
         /\ (parent'.at = "collecting" => parent'.n < Total)
    BY <1>1, <1>3, <1>4
  <1>13. job' = "queue"
    BY <1>1, <1>5
  <1>14. QED
    BY <1>8, <1>9, <1>11, <1>12, <1>13 DEF ProcessInv, QueueInv, CountInv

\* What the parent does without the queue keeps what holds of the queue and the children.
LEMMA ParentMoves ==
    ASSUME ProcessInv, parent.at # "putting", parent'.at # "putting",
           parent' \in [at : {"collecting", "joining", "done", "raised"}, n : Nat],
           UNCHANGED <<job, input, output, child, counts, holder, killed>>
    PROVE  /\ ProcessTypes'
           /\ job = "queue" => /\ QueueHolds' /\ ChildrenHold' /\ NoneEndsOne'
                               /\ (killed' = {} => NothingLost')
           /\ At("ended")' = At("ended")
           /\ job = "count" => /\ \A c \in Process : Counter(c)'
                               /\ \A t \in Processes!Range(Deliveries) :
                                     counts'[t] = Cardinality(CountedOf(t))'
  <1>1. ProcessTypes'
    BY DEF ProcessInv, ProcessTypes
  <1>2. /\ PutSoFar' = PutSoFar /\ Taken' = Taken /\ TakenItems' = TakenItems
        /\ \A s : At(s)' = At(s)
        /\ InHand' = InHand
    BY DEF PutSoFar, Taken, TakenItems, At, InHand
  <1>3. ASSUME job = "queue"
        PROVE  QueueHolds' /\ ChildrenHold' /\ NoneEndsOne' /\ (killed' = {} => NothingLost')
    <2>1. QueueHolds /\ ChildrenHold /\ NoneEndsOne /\ (killed = {} => NothingLost)
      BY <1>3 DEF ProcessInv, QueueInv
    <2>2. QueueHolds'
      BY <2>1, <1>2 DEF QueueHolds
    <2>3. ChildrenHold'
      BY <2>1 DEF ChildrenHold
    <2>4. NoneEndsOne'
      BY <2>1, <1>2 DEF NoneEndsOne
    <2>5. killed' = {} => NothingLost'
      BY <2>1, <1>2 DEF NothingLost
    <2>6. QED
      BY <2>2, <2>3, <2>4, <2>5
  <1>4. ASSUME job = "count"
        PROVE  /\ \A c \in Process : Counter(c)'
               /\ \A t \in Processes!Range(Deliveries) :
                     counts'[t] = Cardinality(CountedOf(t))'
    <2>1. /\ \A c \in Process : Counter(c)
          /\ \A t \in Processes!Range(Deliveries) : counts[t] = Cardinality(CountedOf(t))
      BY <1>4 DEF ProcessInv, CountInv
    <2>2. \A t : CountedOf(t)' = CountedOf(t)
      BY DEF CountedOf
    <2>3. \A c \in Process : Counter(c)'
      BY <2>1 DEF Counter, Processes!Delivered
    <2>4. QED
      BY <2>1, <2>2, <2>3
  <1>5. QED
    BY <1>1, <1>2, <1>3, <1>4

\* When no child is left but by its None, the parent has every result.
LEMMA AllEnded ==
    ASSUME ProcessInv, job = "queue", killed = {}, At("ended") = Process
    PROVE  /\ Len(output) = Total /\ Processes!Range(output) = 1..Total
           /\ input = <<>>
  <1>1. PICK m \in Nat \ {0} : /\ m <= Total /\ Processes!Sentinels = m
                               /\ Cardinality(Process) = m
    BY ProcessFacts
  <1>2. Total \in Nat \ {0} /\ Len(input) \in Nat /\ Len(output) \in Nat
        /\ parent.n \in Nat /\ input \in Seq(Nat)
    BY ProcessFacts DEF ProcessInv, ProcessTypes
  <1>3. QueueHolds /\ NoneEndsOne /\ NothingLost
    BY DEF ProcessInv, QueueInv
  <1>4. PutSoFar \in Nat /\ PutSoFar <= Total + m
    BY <1>1, <1>2, <1>3 DEF PutSoFar, QueueHolds
  <1>5. Taken - TakenItems = m /\ Taken = PutSoFar - Len(input)
    BY <1>1, <1>3 DEF NoneEndsOne, Taken
  <1>6. TakenItems = Total /\ Len(input) = 0
    BY <1>1, <1>2, <1>4, <1>5 DEF TakenItems
  <1>7. At("working") = {}
    BY DEF At
  <1>8. Cardinality(At("working")) = 0 /\ InHand = {}
    BY <1>7, FS_EmptySet DEF InHand
  <1>9. Len(output) = Total /\ Processes!Range(output) = 1..Total
    BY <1>2, <1>3, <1>6, <1>8 DEF NothingLost
  <1>10. QED
    BY <1>2, <1>6, <1>9

LEMMA CollectKeeps == ASSUME ProcessInv, Processes!Collect PROVE ProcessInv'
  <1>1. /\ parent.at = "collecting" /\ parent.n < Len(output)
        /\ parent' = [at |-> IF parent.n + 1 = Len(Deliveries) THEN "joining" ELSE "collecting",
                      n |-> parent.n + 1]
        /\ UNCHANGED <<job, input, output, child, counts, holder, killed>>
    BY DEF Processes!Collect
  <1>2. parent.n \in Nat /\ job \in {"queue", "count"} /\ Total \in Nat
        /\ Total = Len(Deliveries)
    BY ProcessFacts DEF ProcessInv, ProcessTypes, Total
  <1>3. job = "queue" /\ parent.n < Total
    BY <1>1, <1>2 DEF ProcessInv, QueueInv, CountInv
  <1>4. /\ parent' \in [at : {"collecting", "joining", "done", "raised"}, n : Nat]
        /\ parent'.at \in {"collecting", "joining"}
        /\ parent'.at = "collecting" => parent'.n < Total
    BY <1>1, <1>2, <1>3
  <1>5. QED
    BY <1>1, <1>3, <1>4, ParentMoves DEF ProcessInv, QueueInv, CountInv

LEMMA JoinKeeps ==
    ASSUME ProcessInv, parent.at = "joining",
           \A c \in Process : child[c].at = "ended",
           parent' = [parent EXCEPT !.at = "done"],
           UNCHANGED <<job, input, output, child, counts, holder, killed>>
    PROVE  ProcessInv'
  <1>1. parent \in [at : {"putting", "collecting", "joining", "done", "raised"}, n : Nat]
        /\ job \in {"queue", "count"}
    BY DEF ProcessInv, ProcessTypes
  <1>2. parent' \in [at : {"collecting", "joining", "done", "raised"}, n : Nat]
        /\ parent'.at = "done"
    BY <1>1
  <1>3. ProcessTypes' /\ At("ended")' = At("ended")
    BY <1>2, ParentMoves
  <1>4. At("ended") = Process
    BY DEF At
  <1>5. QueueInv'
    BY <1>2, ParentMoves DEF QueueInv
  <1>6. CountInv'
    BY <1>2, ParentMoves DEF CountInv
  <1>7. QED
    BY <1>2, <1>3, <1>4, <1>5, <1>6 DEF ProcessInv

-----------------------------------------------------------------------------
(* The children of the queue *)

LEMMA LockKeeps == ASSUME ProcessInv, NEW c \in Process, Processes!Lock(c) PROVE ProcessInv'
  <1> DEFINE r == [child[c] EXCEPT !.at = "receiving", !.item = Processes!None]
  <1>1. /\ child[c].at = "waiting" /\ child' = [child EXCEPT ![c] = r]
        /\ UNCHANGED <<job, parent, input, output, counts, killed>>
    BY DEF Processes!Lock, Processes!Moves
  <1>2. child \in [Process -> [at : ProcessAt, item : Nat, todo : SUBSET (1..Total)]]
        /\ job \in {"queue", "count"}
    BY DEF ProcessInv, ProcessTypes
  <1>3. job = "queue"
    BY <1>1, <1>2 DEF ProcessInv, CountInv, Counter
  <1>4. r \in [at : ProcessAt, item : Nat, todo : SUBSET (1..Total)] /\ r.at = "receiving"
    BY <1>2, ProcessFacts DEF ProcessAt
  <1>5. /\ child' \in [Process -> [at : ProcessAt, item : Nat, todo : SUBSET (1..Total)]]
        /\ child'[c] = r /\ \A d \in Process \ {c} : child'[d] = child[d]
    BY <1>1, <1>2, <1>4
  <1>6. ProcessTypes'
    BY <1>1, <1>5 DEF ProcessInv, ProcessTypes
  <1>7. /\ QueueHolds /\ ChildrenHold /\ NoneEndsOne
        /\ killed = {} => NothingLost
    BY <1>3 DEF ProcessInv, QueueInv
  <1>8. Taken' = Taken /\ TakenItems' = TakenItems /\ PutSoFar' = PutSoFar
    BY <1>1 DEF PutSoFar, Taken, TakenItems
  <1>9. QueueHolds'
    BY <1>1, <1>7, <1>8 DEF QueueHolds
  <1>10. ChildrenHold'
    BY <1>1, <1>4, <1>5, <1>7 DEF ChildrenHold
  <1>11. /\ At("ended")' = At("ended") /\ At("working")' = At("working")
    <2>1. /\ child[c].at = "waiting" /\ child'[c].at = "receiving" /\ ProcessTypes
          /\ \A d \in Process \ {c} : child'[d] = child[d]
      BY <1>1, <1>4, <1>5 DEF ProcessInv
    <2> HIDE DEF r
    <2>2. QED
      BY <2>1, ChildMoves
  <1>12. InHand' = InHand
    <2>1. \A d \in At("working") : child'[d] = child[d]
      BY <1>1, <1>5 DEF At
    <2>2. QED
      BY <1>11, <2>1 DEF InHand
  <1>13. NoneEndsOne' /\ (killed' = {} => NothingLost')
    BY <1>1, <1>7, <1>8, <1>11, <1>12 DEF NoneEndsOne, NothingLost
  <1>14. parent.at # "done"
    BY <1>1 DEF ProcessInv, At
  <1>15. QED
    BY <1>1, <1>3, <1>6, <1>9, <1>10, <1>13, <1>14 DEF ProcessInv, QueueInv, CountInv

LEMMA ReceiveKeeps ==
    ASSUME ProcessInv, NEW c \in Process, Processes!Receive(c) PROVE ProcessInv'
  <1> DEFINE r == [child[c] EXCEPT !.at = IF Head(input) = Processes!None THEN "ended" ELSE "working",
                                   !.item = Head(input)]
  <1>1. /\ child[c].at = "receiving" /\ input # <<>>
        /\ input' = Tail(input)
        /\ child' = [child EXCEPT ![c] = r]
        /\ UNCHANGED <<job, parent, output, counts, killed>>
    BY DEF Processes!Receive, Processes!Moves
  <1>2. /\ job \in {"queue", "count"} /\ input \in Seq(Nat) /\ output \in Seq(1..Total)
        /\ parent.n \in Nat
        /\ child \in [Process -> [at : ProcessAt, item : Nat, todo : SUBSET (1..Total)]]
    BY DEF ProcessInv, ProcessTypes
  <1>3. job = "queue"
    BY <1>1, <1>2 DEF ProcessInv, CountInv, Counter
  <1>4. /\ QueueHolds /\ ChildrenHold /\ NoneEndsOne
        /\ killed = {} => NothingLost
    BY <1>3 DEF ProcessInv, QueueInv
  <1>5. PICK m \in Nat \ {0} : m <= Total /\ Processes!Sentinels = m
    BY ProcessFacts
  <1>6. Total \in Nat \ {0} /\ Processes!None = 0
    BY ProcessFacts
  <1>7. /\ Len(input) \in Nat \ {0} /\ Len(input') = Len(input) - 1
        /\ \A j \in 1..Len(input') : input'[j] = input[j + 1]
        /\ Head(input) = input[1] /\ input' \in Seq(Nat) /\ Head(input) \in Nat
    BY <1>1, <1>2
  <1>8. PutSoFar' = PutSoFar /\ PutSoFar \in Nat /\ Len(input) <= PutSoFar
    BY <1>1, <1>2, <1>4, <1>5, <1>6 DEF PutSoFar, QueueHolds
  <1>9. Taken \in Nat /\ Taken' = Taken + 1
    BY <1>7, <1>8 DEF Taken
  <1>10. Head(input) = IF Taken + 1 <= Total THEN Taken + 1 ELSE 0
    BY <1>4, <1>6, <1>7 DEF QueueHolds
  <1>11. r \in [at : ProcessAt, item : Nat, todo : SUBSET (1..Total)]
         /\ r.at = (IF Taken + 1 <= Total THEN "working" ELSE "ended")
         /\ r.item = Head(input)
    <2>1. child[c] \in [at : ProcessAt, item : Nat, todo : SUBSET (1..Total)]
      BY <1>2
    <2>2. (IF Head(input) = Processes!None THEN "ended" ELSE "working")
          = (IF Taken + 1 <= Total THEN "working" ELSE "ended")
      BY <1>6, <1>9, <1>10
    <2>3. QED
      BY <2>1, <2>2, <1>7 DEF ProcessAt
  <1>12. child' \in [Process -> [at : ProcessAt, item : Nat, todo : SUBSET (1..Total)]]
         /\ child'[c] = r /\ \A d \in Process \ {c} : child'[d] = child[d]
    BY <1>1, <1>2, <1>11
  <1>13. ProcessTypes'
    BY <1>1, <1>7, <1>12 DEF ProcessInv, ProcessTypes
  <1>14. QueueHolds'
    <2>1. ASSUME NEW j \in 1..Len(input')
          PROVE  input'[j] = IF Taken' + j <= Total THEN Taken' + j ELSE Processes!None
      <3>1. j + 1 \in 1..Len(input) /\ input'[j] = input[j + 1]
        BY <1>7, <2>1
      <3>2. input[j + 1] = IF Taken + (j + 1) <= Total THEN Taken + (j + 1) ELSE Processes!None
        BY <3>1, <1>4 DEF QueueHolds
      <3>3. Taken + (j + 1) = Taken' + j
        BY <1>9
      <3>4. QED
        BY <3>1, <3>2, <3>3
    <2>2. QED
      BY <2>1, <1>1, <1>4, <1>7, <1>8 DEF QueueHolds
  <1>15. ChildrenHold'
    <2>1. ASSUME NEW d \in Process
          PROVE  /\ child'[d].at \in {"waiting", "receiving", "working", "ended", "killed"}
                 /\ child'[d].at = "working" => child'[d].item \in 1..Total
                 /\ child'[d].at = "killed" <=> d \in killed
      <3>1. CASE d # c
        BY <3>1, <1>4, <1>12 DEF ChildrenHold
      <3>2. CASE d = c
        <4>1. c \notin killed
          BY <1>1, <1>4 DEF ChildrenHold
        <4>2. child'[d] = r
          BY <3>2, <1>12
        <4>3. QED
          BY <3>2, <4>1, <4>2, <1>9, <1>10, <1>11, <1>6
      <3>3. QED
        BY <3>1, <3>2
    <2>2. QED
      BY <2>1, <1>1 DEF ChildrenHold
  <1>16. /\ TakenItems' = (IF Taken + 1 <= Total THEN Taken + 1 ELSE Total)
         /\ TakenItems = (IF Taken <= Total THEN Taken ELSE Total)
    BY <1>9 DEF TakenItems
  <1>17. ProcessTypes /\ parent.at # "done"
    BY <1>1 DEF ProcessInv, At
  <1>18. CASE Taken + 1 <= Total
    <2>1. /\ child[c].at = "receiving" /\ child'[c].at = "working" /\ r.item = Taken + 1
          /\ \A d \in Process \ {c} : child'[d] = child[d]
      BY <1>1, <1>10, <1>11, <1>12, <1>18
    <2>2. /\ At("working")' = At("working") \union {c} /\ c \notin At("working")
          /\ Cardinality(At("working")') = Cardinality(At("working")) + 1
          /\ Cardinality(At("working")) \in Nat
      <3> HIDE DEF r
      <3>1. QED
        BY <1>17, <2>1, ChildMoves
    <2>3. At("ended")' = At("ended") /\ Cardinality(At("ended")) \in Nat
      BY <1>1, <1>12, <1>17, <2>1, ChildMoves
    <2>4. TakenItems' = TakenItems + 1 /\ TakenItems = Taken
      BY <1>6, <1>9, <1>16, <1>18
    <2>5. NoneEndsOne'
      BY <2>3, <2>4, <1>4, <1>9 DEF NoneEndsOne
    <2>6. ASSUME killed = {} PROVE NothingLost'
      <3>1. InHand' = InHand \union {Taken + 1}
        <4>1. \A d \in At("working") : child'[d] = child[d]
          BY <1>12, <2>2 DEF At
        <4>2. child'[c].item = Taken + 1
          BY <1>12, <2>1
        <4>3. QED
          BY <2>2, <4>1, <4>2 DEF InHand
      <3>2. InHand \union Processes!Range(output) = 1..Taken
            /\ Cardinality(At("working")) + Len(output) = Taken
        BY <1>4, <2>4, <2>6 DEF NothingLost
      <3>3. 1..(Taken + 1) = (1..Taken) \union {Taken + 1}
        BY <1>9
      <3>4. Cardinality(At("working")') + Len(output) = Taken + 1
        BY <2>2, <3>2, <1>2, <1>9
      <3>5. InHand' \union Processes!Range(output) = 1..(Taken + 1)
        BY <3>1, <3>2, <3>3
      <3>6. QED
        BY <1>1, <2>4, <3>4, <3>5 DEF NothingLost
    <2>7. QED
      BY <2>5, <2>6, <1>1, <1>3, <1>13, <1>14, <1>15, <1>17 DEF ProcessInv, QueueInv, CountInv
  <1>19. CASE ~(Taken + 1 <= Total)
    <2>1. child'[c].at = "ended"
      BY <1>11, <1>12, <1>19
    <2>2. At("working")' = At("working")
      BY <1>1, <1>12, <1>17, <2>1, ChildMoves
    <2>3. /\ Cardinality(At("ended")') = Cardinality(At("ended")) + 1
          /\ Cardinality(At("ended")) \in Nat
      BY <1>1, <1>12, <1>17, <2>1, ChildMoves
    <2>4. TakenItems' = TakenItems /\ TakenItems = Total
      BY <1>6, <1>9, <1>16, <1>19
    <2>5. NoneEndsOne'
      BY <2>3, <2>4, <1>4, <1>6, <1>9 DEF NoneEndsOne
    <2>6. ASSUME killed = {} PROVE NothingLost'
      <3>1. \A d \in At("working") : child'[d] = child[d]
        BY <1>1, <1>12 DEF At
      <3>2. InHand' = InHand
        BY <2>2, <3>1 DEF InHand
      <3>3. QED
        BY <1>1, <1>4, <2>2, <2>4, <2>6, <3>2 DEF NothingLost
    <2>7. QED
      BY <2>5, <2>6, <1>1, <1>3, <1>13, <1>14, <1>15, <1>17 DEF ProcessInv, QueueInv, CountInv
  <1>20. QED
    BY <1>18, <1>19

LEMMA TransformKeeps ==
    ASSUME ProcessInv, NEW c \in Process, Processes!Transform(c) PROVE ProcessInv'
  <1> DEFINE r == [child[c] EXCEPT !.at = "waiting", !.item = Processes!None]
  <1>1. /\ child[c].at = "working"
        /\ output' = Append(output, child[c].item)
        /\ child' = [child EXCEPT ![c] = r]
        /\ UNCHANGED <<job, parent, input, counts, holder, killed>>
    BY DEF Processes!Transform, Processes!Moves
  <1>2. /\ job \in {"queue", "count"} /\ output \in Seq(1..Total)
        /\ child \in [Process -> [at : ProcessAt, item : Nat, todo : SUBSET (1..Total)]]
    BY DEF ProcessInv, ProcessTypes
  <1>3. job = "queue"
    BY <1>1, <1>2 DEF ProcessInv, CountInv, Counter
  <1>4. /\ QueueHolds /\ ChildrenHold /\ NoneEndsOne
        /\ killed = {} => NothingLost
    BY <1>3 DEF ProcessInv, QueueInv
  <1>5. child[c].item \in 1..Total /\ c \notin killed
    BY <1>1, <1>4 DEF ChildrenHold
  <1>6. r \in [at : ProcessAt, item : Nat, todo : SUBSET (1..Total)] /\ r.at = "waiting"
    BY <1>2, ProcessFacts DEF ProcessAt
  <1>7. child' \in [Process -> [at : ProcessAt, item : Nat, todo : SUBSET (1..Total)]]
        /\ child'[c] = r /\ \A d \in Process \ {c} : child'[d] = child[d]
    BY <1>1, <1>2, <1>6
  <1>8. output' \in Seq(1..Total) /\ Len(output') = Len(output) + 1 /\ Len(output) \in Nat
    BY <1>1, <1>2, <1>5
  <1>9. ProcessTypes'
    BY <1>1, <1>7, <1>8 DEF ProcessInv, ProcessTypes
  <1>10. Taken' = Taken /\ TakenItems' = TakenItems /\ PutSoFar' = PutSoFar
    BY <1>1 DEF PutSoFar, Taken, TakenItems
  <1>11. QueueHolds'
    BY <1>1, <1>4, <1>10 DEF QueueHolds
  <1>12. ChildrenHold'
    BY <1>1, <1>4, <1>5, <1>6, <1>7 DEF ChildrenHold
  <1>13. ProcessTypes
    BY DEF ProcessInv
  <1>14. /\ At("ended")' = At("ended")
         /\ At("working")' = At("working") \ {c} /\ c \in At("working")
         /\ Cardinality(At("working")') = Cardinality(At("working")) - 1
         /\ Cardinality(At("working")) \in Nat
    <2>1. /\ child[c].at = "working" /\ child'[c].at = "waiting"
          /\ \A d \in Process \ {c} : child'[d] = child[d]
      BY <1>1, <1>6, <1>7
    <2> HIDE DEF r
    <2>2. QED
      BY <1>13, <2>1, ChildMoves
  <1>15. NoneEndsOne'
    BY <1>4, <1>10, <1>14 DEF NoneEndsOne
  <1>16. ASSUME killed = {} PROVE NothingLost'
    <2>1. InHand = InHand' \union {child[c].item}
      <3>1. \A d \in At("working") \ {c} : child'[d] = child[d]
        BY <1>7 DEF At
      <3>2. QED
        BY <3>1, <1>14 DEF InHand
    <2>2. Processes!Range(output') = Processes!Range(output) \union {child[c].item}
      <3>1. DOMAIN output' = DOMAIN output \union {Len(output) + 1}
        BY <1>1, <1>2
      <3>2. output'[Len(output) + 1] = child[c].item
            /\ \A i \in DOMAIN output : output'[i] = output[i]
        BY <1>1, <1>2
      <3>3. QED
        BY <3>1, <3>2, ProcessFacts
    <2>3. InHand' \union Processes!Range(output') = InHand \union Processes!Range(output)
      BY <2>1, <2>2
    <2>4. Cardinality(At("working")') + Len(output') = Cardinality(At("working")) + Len(output)
      BY <1>8, <1>14
    <2>6. QED
      BY <1>4, <1>10, <1>16, <2>3, <2>4 DEF NothingLost
  <1>17. At("ended") # Process
    BY <1>1 DEF At
  <1>18. QED
    BY <1>1, <1>3, <1>9, <1>11, <1>12, <1>15, <1>16, <1>17 DEF ProcessInv, QueueInv, CountInv

LEMMA KillKeepsQueue ==
    ASSUME ProcessInv, job = "queue", NEW c \in Process, Processes!Kill(c) PROVE ProcessInv'
  <1> DEFINE r == [child[c] EXCEPT !.at = "killed", !.item = Processes!None]
  <1>1. /\ child[c].at \notin {"ended", "killed", "stopped"}
        /\ killed' = killed \union {c}
        /\ child' = [child EXCEPT ![c] = r]
        /\ UNCHANGED <<job, parent, input, output, counts, holder>>
    BY DEF Processes!Kill, Processes!Moves
  <1>2. child \in [Process -> [at : ProcessAt, item : Nat, todo : SUBSET (1..Total)]]
    BY DEF ProcessInv, ProcessTypes
  <1>3. QueueHolds /\ ChildrenHold /\ NoneEndsOne
    BY <1>1 DEF ProcessInv, QueueInv
  <1>4. r \in [at : ProcessAt, item : Nat, todo : SUBSET (1..Total)] /\ r.at = "killed"
    BY <1>2, ProcessFacts DEF ProcessAt
  <1>5. child' \in [Process -> [at : ProcessAt, item : Nat, todo : SUBSET (1..Total)]]
        /\ child'[c] = r /\ \A d \in Process \ {c} : child'[d] = child[d]
    BY <1>1, <1>2, <1>4
  <1>6. ProcessTypes'
    BY <1>1, <1>5 DEF ProcessInv, ProcessTypes
  <1>7. Taken' = Taken /\ TakenItems' = TakenItems /\ PutSoFar' = PutSoFar
    BY <1>1 DEF PutSoFar, Taken, TakenItems
  <1>8. QueueHolds'
    BY <1>1, <1>3, <1>7 DEF QueueHolds
  <1>9. ChildrenHold'
    BY <1>1, <1>3, <1>4, <1>5 DEF ChildrenHold
  <1>10. At("ended")' = At("ended")
    <2>1. ProcessTypes /\ child'[c].at = "killed"
      BY <1>4, <1>5 DEF ProcessInv
    <2>2. QED
      BY <1>1, <1>5, <2>1, ChildMoves
  <1>11. NoneEndsOne'
    BY <1>3, <1>7, <1>10 DEF NoneEndsOne
  <1>12. killed' # {} /\ parent.at # "done"
    BY <1>1 DEF ProcessInv, At
  <1>13. QED
    BY <1>1, <1>6, <1>8, <1>9, <1>11, <1>12 DEF ProcessInv, QueueInv, CountInv

-----------------------------------------------------------------------------
(* The children that count *)

\* No delivery is in the shares of two children.
LEMMA SharesApart ==
    ASSUME ProcessInv, job = "count", NEW c \in Process, NEW d \in Process, c # d
    PROVE  child[c].todo \cap child[d].todo = {}
  <1>1. PICK m \in Nat \ {0} : Process = 1..m /\ Cardinality(Process) = m
    BY ProcessFacts
  <1>2. Processes!Cardinality(Processes!Child) = m
    BY <1>1, ProcessFacts DEF Process
  <1>3. c % m # d % m
    <2>1. ASSUME NEW x \in 1..m PROVE x % m = IF x = m THEN 0 ELSE x
      BY Remainders
    <2>2. QED
      BY SMTT(30), <1>1, <2>1
  <1>4. ASSUME NEW i, i \in child[c].todo, i \in child[d].todo PROVE FALSE
    <2>1. i \in Processes!Chunk(c) /\ i \in Processes!Chunk(d)
      BY <1>4 DEF ProcessInv, CountInv, Counter
    <2>2. i % m = c % m /\ i % m = d % m
      BY <2>1, <1>2 DEF Processes!Chunk
    <2>3. QED
      BY <1>3, <2>2
  <1>5. QED
    BY <1>4

LEMMA LeastNat ==
    ASSUME NEW S \in SUBSET Nat, S # {}
    PROVE  \E x \in S : \A y \in S : x <= y
  <1>1. PICK x \in S : \A y \in S : ~ (<<y, x>> \in OpToRel(<, Nat))
    BY NatLessThanWellFounded, WFMin
  <1>2. ASSUME NEW y \in S, y < x PROVE FALSE
    <2>1. <<y, x>> \in Nat \X Nat /\ <<y, x>>[1] < <<y, x>>[2]
      BY <1>2
    <2>2. <<y, x>> \in OpToRel(<, Nat)
      BY <2>1 DEF OpToRel
    <2>3. QED
      BY <1>1, <2>2
  <1>3. QED
    BY <1>2

LEMMA DeliveredFacts ==
    ASSUME ProcessInv, NEW c \in Process, child[c].todo # {}
    PROVE  Processes!Delivered(c) \in child[c].todo /\ Processes!Delivered(c) \in 1..Total
  <1>1. child[c].todo \subseteq 1..Total /\ Total \in Nat
    BY ProcessFacts DEF ProcessInv, ProcessTypes
  <1>2. PICK i \in child[c].todo : \A k \in child[c].todo : i <= k
    <2>1. child[c].todo \subseteq Nat
      BY <1>1
    <2>2. QED
      BY <2>1, LeastNat
  <1>3. QED
    BY <1>1, <1>2 DEF Processes!Delivered

\* A step of a counting child that leaves the counts and its share alone.
LEMMA CountMoves ==
    ASSUME ProcessInv, job = "count", NEW c \in Process, NEW r,
           child' = [child EXCEPT ![c] = r], child[c].at # "ended",
           r \in [at : {"counting", "reading", "writing", "releasing", "ended", "killed"},
                  item : Nat, todo : SUBSET (1..Total)],
           r.todo = child[c].todo,
           r.at \in {"reading", "writing"} => r.todo # {},
           r.at \in {"reading", "writing", "releasing"} => holder' = c,
           \A d \in Process \ {c} : holder = d => holder' = d,
           r.at = "writing" => r.item = counts[Deliveries[Processes!Delivered(c)]],
           r.at = "ended" => r.todo = {},
           UNCHANGED <<job, parent, input, output, counts>>, killed' \subseteq Process
    PROVE  ProcessInv'
  <1>1. child \in [Process -> [at : ProcessAt, item : Nat, todo : SUBSET (1..Total)]]
    BY DEF ProcessInv, ProcessTypes
  <1>2. r \in [at : ProcessAt, item : Nat, todo : SUBSET (1..Total)]
    BY DEF ProcessAt
  <1>3. child' \in [Process -> [at : ProcessAt, item : Nat, todo : SUBSET (1..Total)]]
        /\ child'[c] = r /\ \A d \in Process \ {c} : child'[d] = child[d]
    BY <1>1, <1>2
  <1>4. ProcessTypes'
    BY <1>3 DEF ProcessInv, ProcessTypes
  <1>5. \A d \in Process : child'[d].todo = child[d].todo
    BY <1>3
  <1>6. \A d \in Process : Processes!Delivered(d)' = Processes!Delivered(d)
    BY <1>5 DEF Processes!Delivered
  <1>7. ASSUME NEW d \in Process PROVE Counter(d)'
    <2>1. Counter(d)
      BY DEF ProcessInv, CountInv
    <2>2. CASE d # c
      <3>1. child'[d] = child[d] /\ (holder = d => holder' = d)
        BY <1>3, <2>2
      <3>2. QED
        BY <2>1, <3>1, <1>6 DEF Counter
    <2>3. CASE d = c
      <3>1. child'[d] = r
        BY <1>3, <2>3
      <3>2. child'[d].item = r.item /\ child'[d].at = r.at /\ child'[d].todo = r.todo
        BY <3>1
      <3>3. r.at = "writing" => r.item = counts'[Deliveries[Processes!Delivered(d)']]
        BY <1>6, <2>3
      <3>4. QED
        BY <2>1, <2>3, <3>2, <3>3 DEF Counter
    <2>4. QED
      BY <2>2, <2>3
  <1>8. \A t : CountedOf(t)' = CountedOf(t)
    BY <1>5 DEF CountedOf
  <1>9. CountInv'
    BY <1>7, <1>8 DEF ProcessInv, CountInv
  <1>10. parent.at # "done"
    BY DEF ProcessInv, At
  <1>11. QED
    BY <1>4, <1>9, <1>10 DEF ProcessInv, QueueInv

LEMMA AcquireKeeps ==
    ASSUME ProcessInv, NEW c \in Process, Processes!Acquire(c) PROVE ProcessInv'
  <1> DEFINE r == [child[c] EXCEPT !.at = "reading", !.item = Processes!None]
  <1>1. /\ child[c].at = "counting" /\ child[c].todo # {} /\ holder = Processes!None
        /\ holder' = c /\ child' = [child EXCEPT ![c] = r]
        /\ UNCHANGED <<job, parent, input, output, counts, killed>>
    BY DEF Processes!Acquire, Processes!Free, Processes!Moves
  <1>2. job \in {"queue", "count"}
        /\ child \in [Process -> [at : ProcessAt, item : Nat, todo : SUBSET (1..Total)]]
    BY DEF ProcessInv, ProcessTypes
  <1>3. job = "count"
    BY <1>1, <1>2 DEF ProcessInv, QueueInv, ChildrenHold
  <1>4. r \in [at : {"counting", "reading", "writing", "releasing", "ended", "killed"},
               item : Nat, todo : SUBSET (1..Total)]
        /\ r.at = "reading" /\ r.todo = child[c].todo
    BY <1>2, ProcessFacts
  <1>5. (\A d \in Process \ {c} : holder = d => holder' = d) /\ killed' \subseteq Process
    BY <1>1, ProcessFacts DEF ProcessInv, ProcessTypes
  <1> HIDE DEF r
  <1>6. QED
    BY <1>1, <1>3, <1>4, <1>5, CountMoves

LEMMA ReadCountKeeps ==
    ASSUME ProcessInv, NEW c \in Process, Processes!ReadCount(c) PROVE ProcessInv'
  <1> DEFINE item == counts[Deliveries[Processes!Delivered(c)]]
             r == [child[c] EXCEPT !.at = "writing", !.item = item]
  <1>1. /\ child[c].at = "reading" /\ child' = [child EXCEPT ![c] = r]
        /\ UNCHANGED <<job, parent, input, output, counts, holder, killed>>
    BY DEF Processes!ReadCount, Processes!Moves
  <1>2. job \in {"queue", "count"} /\ counts \in [Processes!Range(Deliveries) -> Nat]
        /\ child \in [Process -> [at : ProcessAt, item : Nat, todo : SUBSET (1..Total)]]
    BY DEF ProcessInv, ProcessTypes
  <1>3. job = "count"
    BY <1>1, <1>2 DEF ProcessInv, QueueInv, ChildrenHold
  <1>4. child[c].todo # {} /\ holder = c /\ killed' \subseteq Process
    BY <1>1, <1>3 DEF ProcessInv, ProcessTypes, CountInv, Counter
  <1>5. Deliveries[Processes!Delivered(c)] \in Processes!Range(Deliveries)
    BY <1>4, DeliveredFacts, ProcessFacts
  <1>6. item \in Nat
    BY <1>2, <1>5
  <1>7. r \in [at : {"counting", "reading", "writing", "releasing", "ended", "killed"},
               item : Nat, todo : SUBSET (1..Total)]
        /\ r.at = "writing" /\ r.todo = child[c].todo /\ r.item = item
    BY <1>2, <1>6
  <1> HIDE DEF r
  <1>8. QED
    BY <1>1, <1>3, <1>4, <1>7, CountMoves

LEMMA ReleaseKeeps ==
    ASSUME ProcessInv, NEW c \in Process, Processes!Release(c) PROVE ProcessInv'
  <1> DEFINE r == [child[c] EXCEPT !.at = "counting", !.item = Processes!None]
  <1>1. /\ child[c].at = "releasing" /\ holder' = Processes!None
        /\ child' = [child EXCEPT ![c] = r]
        /\ UNCHANGED <<job, parent, input, output, counts, killed>>
    BY DEF Processes!Release, Processes!Moves
  <1>2. job \in {"queue", "count"}
        /\ child \in [Process -> [at : ProcessAt, item : Nat, todo : SUBSET (1..Total)]]
    BY DEF ProcessInv, ProcessTypes
  <1>3. job = "count"
    BY <1>1, <1>2 DEF ProcessInv, QueueInv, ChildrenHold
  <1>4. holder = c
    BY <1>1, <1>3 DEF ProcessInv, CountInv, Counter
  <1>5. r \in [at : {"counting", "reading", "writing", "releasing", "ended", "killed"},
               item : Nat, todo : SUBSET (1..Total)]
        /\ r.at = "counting" /\ r.todo = child[c].todo
    BY <1>2, ProcessFacts
  <1>6. (\A d \in Process \ {c} : holder = d => holder' = d) /\ killed' \subseteq Process
    BY <1>1, <1>4, ProcessFacts DEF ProcessInv, ProcessTypes
  <1> HIDE DEF r
  <1>7. QED
    BY <1>1, <1>3, <1>5, <1>6, CountMoves

LEMMA EndCountKeeps ==
    ASSUME ProcessInv, NEW c \in Process, Processes!EndCount(c) PROVE ProcessInv'
  <1> DEFINE r == [child[c] EXCEPT !.at = "ended", !.item = Processes!None]
  <1>1. /\ child[c].at = "counting" /\ child[c].todo = {}
        /\ child' = [child EXCEPT ![c] = r]
        /\ UNCHANGED <<job, parent, input, output, counts, holder, killed>>
    BY DEF Processes!EndCount, Processes!Moves
  <1>2. job \in {"queue", "count"}
        /\ child \in [Process -> [at : ProcessAt, item : Nat, todo : SUBSET (1..Total)]]
    BY DEF ProcessInv, ProcessTypes
  <1>3. job = "count"
    BY <1>1, <1>2 DEF ProcessInv, QueueInv, ChildrenHold
  <1>4. killed' \subseteq Process
    BY <1>1 DEF ProcessInv, ProcessTypes
  <1>5. r \in [at : {"counting", "reading", "writing", "releasing", "ended", "killed"},
               item : Nat, todo : SUBSET (1..Total)]
        /\ r.at = "ended" /\ r.todo = child[c].todo
    BY <1>2, ProcessFacts
  <1> HIDE DEF r
  <1>6. QED
    BY <1>1, <1>3, <1>4, <1>5, CountMoves

LEMMA WriteCountKeeps ==
    ASSUME ProcessInv, NEW c \in Process, Processes!WriteCount(c) PROVE ProcessInv'
  <1> DEFINE i == Processes!Delivered(c)
             r == [child[c] EXCEPT !.at = "releasing", !.todo = child[c].todo \ {i}]
  <1>1. /\ child[c].at = "writing"
        /\ counts' = [counts EXCEPT ![Deliveries[i]] = child[c].item + 1]
        /\ child' = [child EXCEPT ![c] = r]
        /\ UNCHANGED <<job, parent, input, output, holder, killed>>
    BY DEF Processes!WriteCount
  <1>2. job \in {"queue", "count"} /\ counts \in [Processes!Range(Deliveries) -> Nat]
        /\ child \in [Process -> [at : ProcessAt, item : Nat, todo : SUBSET (1..Total)]]
    BY DEF ProcessInv, ProcessTypes
  <1>3. job = "count"
    BY <1>1, <1>2 DEF ProcessInv, QueueInv, ChildrenHold
  <1>4. /\ child[c].todo # {} /\ holder = c
        /\ child[c].item = counts[Deliveries[i]]
        /\ child[c].todo \subseteq Processes!Chunk(c)
    BY <1>1, <1>3 DEF ProcessInv, CountInv, Counter
  <1>5. i \in child[c].todo /\ i \in 1..Total
    BY <1>4, DeliveredFacts
  <1>6. Deliveries[i] \in Processes!Range(Deliveries) /\ DOMAIN Deliveries = 1..Total
    BY <1>5, ProcessFacts
  <1> HIDE DEF i
  <1>7. /\ r \in [at : ProcessAt, item : Nat, todo : SUBSET (1..Total)]
        /\ r.at = "releasing" /\ r.todo = child[c].todo \ {i}
    BY <1>2 DEF ProcessAt
  <1>8. /\ child' \in [Process -> [at : ProcessAt, item : Nat, todo : SUBSET (1..Total)]]
        /\ child'[c] = r /\ \A d \in Process \ {c} : child'[d] = child[d]
    BY <1>1, <1>2, <1>7
  <1>9. /\ counts' \in [Processes!Range(Deliveries) -> Nat]
        /\ counts'[Deliveries[i]] = counts[Deliveries[i]] + 1
        /\ \A t \in Processes!Range(Deliveries) : t # Deliveries[i] => counts'[t] = counts[t]
    BY <1>1, <1>2, <1>4, <1>6
  <1>10. ProcessTypes'
    BY <1>1, <1>8, <1>9 DEF ProcessInv, ProcessTypes
  <1> HIDE DEF r
  <1>11. ASSUME NEW d \in Process PROVE Counter(d)'
    <2>1. Counter(d) /\ Counter(c)
      BY <1>3 DEF ProcessInv, CountInv
    <2>2. CASE d = c
      <3>1. child'[d].at = "releasing" /\ child'[d].todo \subseteq Processes!Chunk(c)
        BY <2>2, <1>4, <1>7, <1>8
      <3>2. QED
        BY <3>1, <2>2, <1>1, <1>4 DEF Counter
    <2>3. CASE d # c
      <3>1. child'[d] = child[d] /\ holder' = holder /\ holder # d
        BY <2>3, <1>1, <1>4, <1>8
      <3>2. child[d].at \notin {"reading", "writing", "releasing"}
        BY <2>1, <3>1 DEF Counter
      <3>3. QED
        BY <2>1, <3>1, <3>2 DEF Counter
    <2>4. QED
      BY <2>2, <2>3
  <1>12. ASSUME NEW t \in Processes!Range(Deliveries)
         PROVE  counts'[t] = Cardinality(CountedOf(t)')
    <2>1. counts[t] = Cardinality(CountedOf(t)) /\ counts[t] \in Nat
      BY <1>2, <1>3 DEF ProcessInv, CountInv
    <2>2. CASE t # Deliveries[i]
      <3>1. CountedOf(t)' = CountedOf(t)
        <4>1. ASSUME NEW k \in DOMAIN Deliveries, Deliveries[k] = t, NEW d \in Process
              PROVE  k \in child'[d].todo <=> k \in child[d].todo
          BY <2>2, <4>1, <1>7, <1>8
        <4>2. QED
          BY <4>1 DEF CountedOf
      <3>2. QED
        BY <2>1, <2>2, <3>1, <1>9
    <2>3. CASE t = Deliveries[i]
      <3>1. CountedOf(t)' = CountedOf(t) \union {i} /\ i \notin CountedOf(t)
        <4>1. \A d \in Process : i \notin child'[d].todo
          <5>1. \A d \in Process \ {c} : i \notin child[d].todo
            BY <1>3, <1>5, SharesApart
          <5>2. QED
            BY <5>1, <1>7, <1>8
        <4>2. ASSUME NEW k \in DOMAIN Deliveries, k # i, NEW d \in Process
              PROVE  k \in child'[d].todo <=> k \in child[d].todo
          BY <4>2, <1>7, <1>8
        <4>3. QED
          BY <2>3, <4>1, <4>2, <1>5, <1>6 DEF CountedOf
      <3>2. IsFiniteSet(CountedOf(t))
        <4>1. CountedOf(t) \subseteq 1..Total /\ IsFiniteSet(1..Total)
          BY <1>6, FS_Interval, ProcessFacts DEF CountedOf
        <4>2. QED
          BY <4>1, FS_Subset
      <3>3. Cardinality(CountedOf(t)') = Cardinality(CountedOf(t)) + 1
        BY <3>1, <3>2, FS_AddElement
      <3>4. QED
        BY <2>1, <2>3, <3>3, <1>9
    <2>4. QED
      BY <2>2, <2>3
  <1>13. CountInv'
    BY <1>1, <1>11, <1>12 DEF ProcessInv, CountInv
  <1>14. parent.at # "done"
    BY <1>1 DEF ProcessInv, At
  <1>15. QED
    BY <1>1, <1>3, <1>10, <1>13, <1>14 DEF ProcessInv, QueueInv

LEMMA KillKeeps == ASSUME ProcessInv, NEW c \in Process, Processes!Kill(c) PROVE ProcessInv'
  <1> DEFINE r == [child[c] EXCEPT !.at = "killed", !.item = Processes!None]
  <1>1. /\ child[c].at \notin {"ended", "killed", "stopped"}
        /\ killed' = killed \union {c}
        /\ child' = [child EXCEPT ![c] = r]
        /\ UNCHANGED <<job, parent, input, output, counts, holder>>
    BY DEF Processes!Kill, Processes!Moves
  <1>2. job \in {"queue", "count"} /\ killed' \subseteq Process
        /\ child \in [Process -> [at : ProcessAt, item : Nat, todo : SUBSET (1..Total)]]
    BY <1>1 DEF ProcessInv, ProcessTypes
  <1>3. r \in [at : {"counting", "reading", "writing", "releasing", "ended", "killed"},
               item : Nat, todo : SUBSET (1..Total)]
        /\ r.at = "killed" /\ r.todo = child[c].todo
    BY <1>2, ProcessFacts
  <1>4. CASE job = "count"
    <2> HIDE DEF r
    <2>1. QED
      BY <1>1, <1>2, <1>3, <1>4, CountMoves
  <1>5. QED
    BY <1>2, <1>4, KillKeepsQueue

-----------------------------------------------------------------------------

\* A run ends by an error from get or join, and then stays so.
LEMMA RaisedStays ==
    ASSUME ProcessHolds, [Processes!Next]_processVars,
           parent.at = "raised" \/ Processes!GiveUp \/ Processes!GiveUpJoin
    PROVE  parent'.at = "raised"
  <1>1. CASE Processes!GiveUp \/ Processes!GiveUpJoin
    <2>1. parent' = [parent EXCEPT !.at = "raised"] /\ parent.at # "raised"
      BY <1>1 DEF Processes!GiveUp, Processes!GiveUpJoin, Processes!Raise
    <2>2. parent \in [at : {"putting", "collecting", "joining", "done", "raised"}, n : Nat]
      BY <2>1 DEF ProcessHolds, ProcessInv, ProcessTypes
    <2>3. QED
      BY <2>1, <2>2
  <1>2. CASE parent.at = "raised" /\ ~(Processes!GiveUp \/ Processes!GiveUpJoin)
    <2>1. ~(Processes!Put \/ Processes!Collect \/ Processes!Join)
      BY <1>2 DEF Processes!Put, Processes!Collect, Processes!Join
    <2>2. ASSUME NEW c \in Processes!Child,
                 \/ Processes!Lock(c) \/ Processes!Receive(c) \/ Processes!Transform(c)
                 \/ Processes!Acquire(c) \/ Processes!ReadCount(c) \/ Processes!WriteCount(c)
                 \/ Processes!Release(c) \/ Processes!EndCount(c) \/ Processes!Kill(c)
          PROVE  parent' = parent
      BY <2>2 DEF Processes!Lock, Processes!Receive, Processes!Transform, Processes!Acquire,
                  Processes!ReadCount, Processes!WriteCount, Processes!Release,
                  Processes!EndCount, Processes!Kill
    <2>3. UNCHANGED processVars => parent' = parent
      BY DEF processVars
    <2>4. QED
      BY <1>2, <2>1, <2>2, <2>3 DEF Processes!Next, Processes!Work
  <1>3. QED
    BY <1>1, <1>2

LEMMA ProcessStep == ProcessHolds /\ [Processes!Next]_processVars => ProcessHolds'
  <1> SUFFICES ASSUME ProcessHolds, [Processes!Next]_processVars, parent'.at # "raised"
               PROVE  ProcessInv'
    BY DEF ProcessHolds
  <1>0. ProcessInv /\ ~(Processes!GiveUp \/ Processes!GiveUpJoin)
    BY RaisedStays DEF ProcessHolds
  <1>1. CASE Processes!Put \/ Processes!Collect
    BY <1>0, <1>1, PutKeeps, CollectKeeps
  <1>6. CASE Processes!Join
    <2>1. parent.at = "joining" /\ ~Processes!Raise
      <3>1. parent.at = "joining"
        BY <1>6 DEF Processes!Join
      <3>2. Processes!Raise => parent'.at = "raised"
        BY <1>0 DEF Processes!Raise, ProcessInv, ProcessTypes
      <3>3. QED
        BY <3>1, <3>2
    <2>2. /\ \A c \in Process : child[c].at = "ended"
          /\ parent' = [parent EXCEPT !.at = "done"]
          /\ UNCHANGED <<job, input, output, child, counts, holder, killed>>
      BY <1>6, <2>1 DEF Processes!Join, Process
    <2>3. QED
      BY <1>0, <2>1, <2>2, JoinKeeps
  <1>2. ASSUME NEW c \in Process,
               \/ Processes!Lock(c) \/ Processes!Receive(c)
               \/ Processes!Transform(c) \/ Processes!Kill(c)
        PROVE  ProcessInv'
    BY <1>0, <1>2, LockKeeps, ReceiveKeeps, TransformKeeps, KillKeeps
  <1>3. ASSUME NEW c \in Process,
               \/ Processes!Acquire(c) \/ Processes!ReadCount(c) \/ Processes!WriteCount(c)
               \/ Processes!Release(c) \/ Processes!EndCount(c)
        PROVE  ProcessInv'
    BY <1>0, <1>3, AcquireKeeps, ReadCountKeeps, WriteCountKeeps, ReleaseKeeps, EndCountKeeps
  <1>4. CASE UNCHANGED processVars
    <2>1. /\ UNCHANGED <<job, parent, input, output, child, counts, holder, killed>>
      BY <1>4 DEF processVars
    <2>2. /\ PutSoFar' = PutSoFar /\ Taken' = Taken /\ TakenItems' = TakenItems
          /\ \A s : At(s)' = At(s)
          /\ InHand' = InHand /\ \A t : CountedOf(t)' = CountedOf(t)
          /\ \A c \in Process : Processes!Delivered(c)' = Processes!Delivered(c)
      BY <2>1 DEF PutSoFar, Taken, TakenItems, At, InHand, CountedOf, Processes!Delivered
    <2>3. ProcessTypes'
      BY <1>0, <2>1 DEF ProcessInv, ProcessTypes
    <2>4. QueueInv'
      BY <1>0, <2>1, <2>2 DEF ProcessInv, QueueInv, QueueHolds, ChildrenHold, NoneEndsOne, NothingLost
    <2>5. CountInv'
      BY <1>0, <2>1, <2>2 DEF ProcessInv, CountInv, Counter
    <2>6. QED
      BY <1>0, <2>1, <2>2, <2>3, <2>4, <2>5 DEF ProcessInv
  <1>5. QED
    BY <1>0, <1>1, <1>2, <1>3, <1>4, <1>6 DEF Processes!Next, Processes!Work, Process

LEMMA ProcessInit == Processes!Init => ProcessInv
  <1> SUFFICES ASSUME Processes!Init PROVE ProcessInv
    OBVIOUS
  <1>1. PICK m \in Nat \ {0} : /\ m <= Total /\ Process = 1..m
                               /\ Cardinality(Process) = m /\ Processes!Sentinels = m
    BY ProcessFacts
  <1>2. /\ Total \in Nat \ {0} /\ DOMAIN Deliveries = 1..Total /\ Processes!None = 0
        /\ Processes!Cardinality(Processes!Child) = m
    BY <1>1, ProcessFacts DEF Process
  <1>3. /\ job \in {"queue", "count"}
        /\ parent = [at |-> IF job = "queue" THEN "putting" ELSE "joining", n |-> 0]
        /\ input = <<>> /\ output = <<>>
        /\ child = [c \in Process |->
               [at |-> IF job = "queue" THEN "waiting" ELSE "counting", item |-> 0,
                todo |-> Processes!Chunk(c)]]
        /\ counts = [t \in Processes!Range(Deliveries) |-> 0]
        /\ holder = 0 /\ killed = {}
    BY <1>2 DEF Processes!Init, Process
  <1>4. \A c \in Process : Processes!Chunk(c) \subseteq 1..Total
    BY <1>2 DEF Processes!Chunk
  <1>5. ProcessTypes
    BY <1>2, <1>3, <1>4 DEF ProcessTypes, ProcessAt
  <1>6. ASSUME job = "queue" PROVE QueueInv
    <2>1. PutSoFar = 0 /\ Len(input) = 0 /\ Taken = 0 /\ TakenItems = 0 /\ Len(output) = 0
      BY <1>2, <1>3, <1>6 DEF PutSoFar, Taken, TakenItems
    <2>2. At("ended") = {} /\ At("working") = {} /\ InHand = {}
      BY <1>3, <1>6 DEF At, InHand
    <2>3. Cardinality({}) = 0
      BY FS_EmptySet
    <2>4. Processes!Range(output) = {} /\ 1..0 = {}
      BY <1>3, ProcessFacts
    <2>5. QueueHolds
      BY <1>1, <1>2, <1>3, <1>6, <2>1 DEF QueueHolds
    <2>6. ChildrenHold
      BY <1>3, <1>6 DEF ChildrenHold
    <2>7. NoneEndsOne
      <3>1. Cardinality(At("ended")) = 0
        BY <2>2, <2>3, Zenon
      <3>2. Taken - TakenItems = 0
        BY <2>1
      <3>3. QED
        BY <3>1, <3>2 DEF NoneEndsOne
    <2>8. Cardinality(At("working")) + Len(output) = TakenItems
      <3>1. Cardinality(At("working")) = 0
        BY <2>2, <2>3, Zenon
      <3>2. QED
        BY <3>1, <2>1
    <2>9. InHand \union Processes!Range(output) = 1..TakenItems
      BY <2>1, <2>2, <2>4
    <2>10. QED
      BY <1>3, <1>6, <2>5, <2>6, <2>7, <2>8, <2>9 DEF QueueInv, NothingLost
  <1>7. ASSUME job = "count" PROVE CountInv
    <2>1. ASSUME NEW c \in Process PROVE Counter(c)
      BY <1>1, <1>3, <1>7 DEF Counter
    <2>2. ASSUME NEW t \in Processes!Range(Deliveries)
          PROVE  counts[t] = Cardinality(CountedOf(t))
      <3>1. ASSUME NEW i \in 1..Total PROVE \E c \in Process : i \in child[c].todo
        <4> DEFINE c == IF i % m = 0 THEN m ELSE i % m
        <4>1. i % m \in 0..(m - 1)
          BY <1>1, <1>2
        <4>2. c \in 1..m /\ c % m = i % m
          BY <1>1, <4>1, Remainders
        <4>3. i \in Processes!Chunk(c)
          BY <1>2, <4>2 DEF Processes!Chunk
        <4>4. QED
          BY <1>1, <1>3, <4>2, <4>3
      <3>2. CountedOf(t) = {}
        BY <1>2, <3>1 DEF CountedOf
      <3>3. QED
        BY <1>3, <3>2, FS_EmptySet
    <2>3. QED
      BY <1>3, <1>7, <2>1, <2>2 DEF CountInv
  <1>8. QED
    BY <1>3, <1>5, <1>6, <1>7 DEF ProcessInv, QueueInv, CountInv

\* What the invariant says of results.
LEMMA ProcessInvWhole == ProcessHolds => Processes!ResultsWhole
  <1> SUFFICES ASSUME ProcessHolds, parent.at = "done" PROVE Processes!ResultsWhole
    BY DEF Processes!ResultsWhole
  <1>0. ProcessInv /\ At("ended") = Process
    BY DEF ProcessHolds, ProcessInv
  <1>1. ASSUME job = "queue"
        PROVE  /\ Processes!Range(output) = DOMAIN Deliveries
               /\ Len(output) = Len(Deliveries) /\ input = <<>>
    <2>1. killed = {}
      <3>1. ASSUME NEW c \in killed PROVE FALSE
        <4>1. c \in Process /\ child[c].at = "killed"
          BY <1>0, <1>1 DEF ProcessInv, ProcessTypes, QueueInv, ChildrenHold
        <4>2. QED
          BY <1>0, <4>1 DEF At
      <3>2. QED
        BY <3>1
    <2>2. QED
      BY <1>0, <1>1, <2>1, AllEnded, ProcessFacts DEF Total
  <1>2. ASSUME job = "count", NEW t \in Processes!Range(Deliveries)
        PROVE  counts[t] = Cardinality({i \in DOMAIN Deliveries : Deliveries[i] = t})
    <2>1. \A c \in Process : child[c].at = "ended" /\ Counter(c)
      BY <1>0, <1>2 DEF ProcessInv, CountInv, At
    <2>2. CountedOf(t) = {i \in DOMAIN Deliveries : Deliveries[i] = t}
      BY <2>1 DEF CountedOf, Counter
    <2>3. QED
      BY <1>0, <1>2, <2>2 DEF ProcessInv, CountInv
  <1>3. QED
    BY <1>1, <1>2, ProcessFacts DEF Processes!ResultsWhole

\* In whatever order the children of lab 11 take items, are killed or count, and whenever
\* the parent's waits run out: a run of any items over any workers that ends well has one
\* result per item, and every delivery was counted once (ResultsWhole, a part of
\* WorkDoneOnce).
THEOREM ResultsAlwaysWhole == Processes!Spec => []Processes!ResultsWhole
  <1>1. Processes!Init => ProcessHolds
    BY ProcessInit DEF ProcessHolds
  <1>2. ProcessHolds /\ [Processes!Next]_processVars => ProcessHolds'
    BY ProcessStep
  <1>3. QED
    BY <1>1, <1>2, ProcessInvWhole, PTL DEF Processes!Spec, Processes!vars, processVars

-----------------------------------------------------------------------------
(* Slices of a segment *)

\* What a quotient says of its parts.
LEMMA Quotients ==
    ASSUME NEW a \in Nat, NEW d \in Nat \ {0}
    PROVE  /\ a \div d \in Nat
           /\ d * (a \div d) <= a
           /\ a < d * (a \div d) + d
  BY SMT

\* A byte of slice i lies where i shares of the payload end and the next one begins.
LEMMA InSlice ==
    ASSUME NEW m \in Nat \ {0}, NEW length \in Nat \ {0}, NEW i \in Nat, NEW b \in Nat
    PROVE  b \in Processes!Slice(i, m, length)
              <=> i * length < (b + 1) * m /\ (b + 1) * m <= (i + 1) * length
  <1> DEFINE first == (i * length) \div m
             next == ((i + 1) * length) \div m
  <1>1. i * length \in Nat /\ (i + 1) * length \in Nat /\ (b + 1) * m \in Nat /\ b * m \in Nat
    BY SMT
  <1>2. /\ first \in Nat /\ m * first <= i * length /\ i * length < m * first + m
        /\ next \in Nat /\ m * next <= (i + 1) * length /\ (i + 1) * length < m * next + m
    BY <1>1, Quotients
  <1>3. b \in Processes!Slice(i, m, length) <=> first <= b /\ b + 1 <= next
    BY <1>2 DEF Processes!Slice
  <1> HIDE DEF first, next
  <1>4. first <= b <=> i * length < (b + 1) * m
    <2>1. ASSUME first <= b PROVE i * length < (b + 1) * m
      <3>1. m * first + m <= (b + 1) * m
        BY <1>2, <2>1, SMT
      <3>2. QED
        BY <1>1, <1>2, <3>1
    <2>2. ASSUME b + 1 <= first PROVE (b + 1) * m <= i * length
      <3>1. (b + 1) * m <= m * first
        BY <1>2, <2>2, SMT
      <3>2. QED
        BY <1>1, <1>2, <3>1
    <2>3. QED
      BY <1>1, <1>2, <2>1, <2>2
  <1>5. b + 1 <= next <=> (b + 1) * m <= (i + 1) * length
    <2>1. ASSUME b + 1 <= next PROVE (b + 1) * m <= (i + 1) * length
      <3>1. (b + 1) * m <= m * next
        BY <1>2, <2>1, SMT
      <3>2. QED
        BY <1>1, <1>2, <3>1
    <2>2. ASSUME next <= b PROVE (i + 1) * length < (b + 1) * m
      <3>1. m * next + m <= (b + 1) * m
        BY <1>2, <2>2, SMT
      <3>2. QED
        BY <1>1, <1>2, <3>1
    <2>3. QED
      BY <1>1, <1>2, <2>1, <2>2
  <1>6. QED
    BY <1>3, <1>4, <1>5

\* Whatever the payload and the workers of lab 11, the slices of a segment cover every
\* byte exactly once.
THEOREM SlicesAlwaysCover ==
    ASSUME NEW workers \in Nat \ {0}, NEW length \in Nat
    PROVE  Processes!SlicesCover(workers, length)
  <1> DEFINE m == Processes!Smaller(workers, length)
             cut == 0..(m - 1)
  <1> SUFFICES ASSUME NEW b \in 0..(length - 1)
      PROVE  Cardinality({i \in cut : b \in Processes!Slice(i, m, length)}) = 1
    BY ProcessFacts DEF Processes!SlicesCover
  <1>1. length \in Nat \ {0} /\ m \in Nat \ {0} /\ b \in Nat /\ b + 1 <= length
    BY DEF Processes!Smaller
  <1> HIDE DEF m
  <1> DEFINE end == (b + 1) * m - 1
             slice == end \div length
  <1>2. end \in Nat /\ (b + 1) * m \in Nat /\ (b + 1) * m <= length * m
    BY <1>1, SMT
  <1>3. slice \in Nat /\ length * slice <= end /\ end < length * slice + length
    BY <1>1, <1>2, Quotients
  <1> HIDE DEF slice
  <1>4. slice * length < (b + 1) * m /\ (b + 1) * m <= (slice + 1) * length
    <2>1. (slice + 1) * length = length * slice + length /\ slice * length = length * slice
          /\ length * slice \in Nat
      BY <1>1, <1>3, SMT
    <2>2. QED
      BY <1>1, <1>2, <1>3, <2>1
  <1>5. slice \in cut
    <2>1. ASSUME m <= slice PROVE FALSE
      <3>1. m * length <= slice * length /\ m * length = length * m
        BY <1>1, <1>3, <2>1, SMT
      <3>2. slice * length \in Nat
        BY <1>1, <1>3, SMT
      <3>3. QED
        BY <1>1, <1>2, <1>4, <3>1, <3>2
    <2>2. QED
      BY <1>1, <1>3, <2>1
  <1>6. ASSUME NEW i \in cut, b \in Processes!Slice(i, m, length) PROVE i = slice
    <2>1. i \in Nat
      BY <1>1, <1>6
    <2>2. i * length < (b + 1) * m /\ (b + 1) * m <= (i + 1) * length
      BY <1>1, <1>6, <2>1, InSlice
    <2>3. i * length < (slice + 1) * length /\ slice * length < (i + 1) * length
      <3>1. i * length \in Nat /\ slice * length \in Nat /\ (i + 1) * length \in Nat
            /\ (slice + 1) * length \in Nat
        BY <1>1, <1>3, <2>1, SMT
      <3>2. QED
        BY <1>2, <1>4, <2>2, <3>1
    <2>4. i < slice + 1 /\ slice < i + 1
      <3>1. \A x, y \in Nat : y <= x => y * length <= x * length /\ x * length \in Nat
        BY <1>1, SMT
      <3>2. QED
        BY <1>3, <2>1, <2>3, <3>1
    <2>5. QED
      BY <1>3, <2>1, <2>4
  <1>7. b \in Processes!Slice(slice, m, length)
    BY <1>1, <1>3, <1>4, InSlice
  <1>8. {i \in cut : b \in Processes!Slice(i, m, length)} = {slice}
    BY <1>5, <1>6, <1>7
  <1>9. QED
    BY <1>8, FS_Singleton

-----------------------------------------------------------------------------

(* The work pipeline of lab 20. *)

Subscribed == [missed : Nat, dropped : Nat, queue : Seq(Nat)]

\* What a subscriber has seen, lost and missed is what n events were, in their order.
Accounts(u, got, n) ==
    LET seen == got \o u.queue
    IN /\ u.missed + Len(seen) + u.dropped = n
       /\ \A i \in 1..Len(seen) : seen[i] <= n
       /\ \A i \in 1..(Len(seen) - 1) : seen[i] < seen[i + 1]

SubscriptionsGood ==
    /\ sequence \in Nat
    /\ subscription = [s \in Subscriber |-> subscription[s]]
    /\ received \in [Subscriber -> Seq(Nat)]
    /\ \A s \in Subscriber :
          \/ subscription[s] = Pipeline!Unsubscribed /\ received[s] = <<>>
          \/ subscription[s] \in Subscribed /\ Accounts(subscription[s], received[s], sequence)

Copy == [task : Task, number : Nat]
Queued(c) == \E i \in DOMAIN queue : queue[i] = c
Held(c) == \E w \in Pool : <<w, c>> \in working

\* Every copy is known, and at one place.
CopiesPlaced ==
    /\ queue \in Seq(accepted)
    /\ \A i, j \in DOMAIN queue : queue[i] = queue[j] => i = j
    /\ working \subseteq Pool \X accepted
    /\ \A v, w \in Pool, c \in accepted : <<v, c>> \in working /\ <<w, c>> \in working => v = w
    /\ finished \subseteq accepted /\ refused \subseteq accepted /\ finished \cap refused = {}
    /\ \A c \in accepted :
          /\ Queued(c) \/ Held(c) \/ c \in finished \/ c \in refused
          /\ ~ (Queued(c) /\ Held(c))
          /\ c \in finished \union refused => ~Queued(c) /\ ~Held(c)

\* The entry of a task names the worker with its only copy, and a task has an entry from
\* the time it leaves the queue until it has been finished.
OwnersGood ==
    /\ owner \in [Task -> Pool \union {Pipeline!Nobody}]
    /\ \A w \in Pool, c \in accepted :
          <<w, c>> \in working => owner[c.task] = w \/ Pipeline!SubmittedAgain(c)
    /\ \A c \in refused : Pipeline!SubmittedAgain(c)
    /\ \A c \in accepted : \/ Queued(c) \/ owner[c.task] # Pipeline!Nobody
                           \/ \E d \in finished : d.task = c.task

\* Copies are numbered as they come.
CopiesNumbered ==
    /\ accepted \subseteq Copy /\ IsFiniteSet(accepted)
    /\ \A c \in accepted : c.number <= Cardinality(accepted)

CopiesGood == CopiesNumbered /\ CopiesPlaced /\ OwnersGood

PipelineInv == SubscriptionsGood /\ CopiesGood /\ Pipeline!Recoverable

\* What is offered to a subscriber is queued or counted as dropped.
LEMMA OfferedGood ==
    ASSUME NEW n \in Nat, NEW u \in Subscribed, NEW got \in Seq(Nat), Accounts(u, got, n)
    PROVE  /\ Pipeline!Offered(u, n + 1) \in Subscribed
           /\ Accounts(Pipeline!Offered(u, n + 1), got, n + 1)
  <1> DEFINE seen == got \o u.queue
  <1>1. u.missed \in Nat /\ u.dropped \in Nat /\ u.queue \in Seq(Nat)
    BY DEF Subscribed
  <1>2. seen \in Seq(Nat) /\ Len(seen) \in Nat
    BY <1>1
  <1>3. CASE Len(u.queue) >= HighWater
    <2> DEFINE v == [u EXCEPT !.dropped = @ + 1]
    <2>1. Pipeline!Offered(u, n + 1) = v
      BY <1>3 DEF Pipeline!Offered
    <2>2. v \in Subscribed /\ v.queue = u.queue /\ v.missed = u.missed /\ v.dropped = u.dropped + 1
      BY <1>1 DEF Subscribed
    <2> HIDE DEF v
    <2>3. Accounts(v, got, n + 1)
      <3>1. got \o v.queue = seen
        BY <2>2
      <3> HIDE DEF seen
      <3>2. u.missed + Len(seen) + u.dropped = n /\ (\A i \in 1..Len(seen) : seen[i] <= n)
            /\ \A i \in 1..(Len(seen) - 1) : seen[i] < seen[i + 1]
        BY DEF Accounts, seen
      <3>3. v.missed + Len(seen) + v.dropped = n + 1
        <4>1. PICK a \in Nat, b \in Nat, l \in Nat : a = u.missed /\ b = u.dropped /\ l = Len(seen)
          BY <1>1, <1>2
        <4>2. a + l + b = n
          <5>1. u.missed + Len(seen) + u.dropped = n
            BY <3>2
          <5>2. QED
            BY <4>1, <5>1
        <4>3. v.missed + Len(seen) + v.dropped = a + l + (b + 1)
          BY <2>2, <4>1
        <4>4. QED
          BY <4>2, <4>3
      <3>4. \A i \in 1..Len(seen) : seen[i] <= n + 1
        BY <1>2, <3>2
      <3>5. QED
        BY <3>1, <3>2, <3>3, <3>4 DEF Accounts
    <2>4. QED
      BY <2>1, <2>2, <2>3
  <1>4. CASE ~(Len(u.queue) >= HighWater)
    <2> DEFINE v == [u EXCEPT !.queue = Append(@, n + 1)]
    <2>1. Pipeline!Offered(u, n + 1) = v
      BY <1>4 DEF Pipeline!Offered
    <2>2. PICK more \in Seq(Nat) : more = Append(u.queue, n + 1) /\ more = u.queue \o <<n + 1>>
      <3>1. n + 1 \in Nat
        OBVIOUS
      <3>2. QED
        BY <1>1, <3>1, AppendIsConcat, AppendProperties
    <2>3. v \in Subscribed /\ v.queue = more /\ v.missed = u.missed /\ v.dropped = u.dropped
      BY <1>1, <2>2 DEF Subscribed
    <2> HIDE DEF v
    <2>4. got \o v.queue = Append(seen, n + 1)
      <3>1. PICK e \in Nat : e = n + 1
        OBVIOUS
      <3>2. PICK one \in Seq(Nat) : one = <<e>>
        <4>1. <<e>> \in Seq(Nat)
          OBVIOUS
        <4>2. QED
          BY <4>1, Zenon
      <3>3. got \o (u.queue \o one) = (got \o u.queue) \o one
        <4>1. PICK own \in Seq(Nat) : own = u.queue
          BY <1>1, Zenon
        <4>2. (got \o own) \o one = got \o (own \o one)
          BY ConcatAssociative
        <4>3. QED
          BY <4>1, <4>2, Zenon
      <3>4. seen \o <<e>> = Append(seen, e)
        BY <1>2, <3>1, AppendIsConcat
      <3>5. QED
        BY <2>2, <2>3, <3>1, <3>2, <3>3, <3>4
    <2>5. u.missed + Len(seen) + u.dropped = n /\ (\A i \in 1..Len(seen) : seen[i] <= n)
          /\ \A i \in 1..(Len(seen) - 1) : seen[i] < seen[i + 1]
      BY DEF Accounts
    <2> HIDE DEF seen
    <2> DEFINE all == Append(seen, n + 1)
               m == Len(seen)
    <2>6. /\ Len(all) = m + 1 /\ all[m + 1] = n + 1 /\ m \in Nat
          /\ \A i \in 1..m : all[i] = seen[i] /\ seen[i] \in Nat
      BY <1>2
    <2> HIDE DEF all, m
    <2>7. Accounts(v, got, n + 1)
      <3>1. v.missed + (m + 1) + v.dropped = n + 1
        BY <1>1, <2>3, <2>5, <2>6 DEF m
      <3>2. \A i \in 1..(m + 1) : all[i] <= n + 1
        <4>1. ASSUME NEW i \in 1..(m + 1) PROVE all[i] <= n + 1
          <5>1. CASE i = m + 1
            BY <2>6, <5>1
          <5>2. CASE i # m + 1
            <6>1. i \in 1..m
              BY <2>6, <5>2
            <6>2. all[i] = seen[i] /\ seen[i] \in Nat /\ seen[i] <= n
              BY <2>5, <2>6, <6>1 DEF m
            <6>3. QED
              BY <6>2
          <5>3. QED
            BY <5>1, <5>2
        <4>2. QED
          BY <4>1
      <3>3. \A i \in 1..((m + 1) - 1) : all[i] < all[i + 1]
        <4>1. ASSUME NEW i \in 1..m PROVE all[i] < all[i + 1]
          <5>1. CASE i = m
            BY <2>5, <2>6, <5>1 DEF m
          <5>2. CASE i # m
            <6>1. i \in 1..(m - 1) /\ i + 1 \in 1..m
              BY <2>6, <5>2
            <6>2. QED
              BY <2>5, <2>6, <6>1 DEF m
          <5>3. QED
            BY <5>1, <5>2
        <4>2. (m + 1) - 1 = m
          BY <2>6
        <4>3. QED
          BY <4>1, <4>2
      <3>4. QED
        BY <2>4, <2>6, <3>1, <3>2, <3>3 DEF Accounts, all
    <2>8. QED
      BY <2>1, <2>3, <2>7
  <1>5. QED
    BY <1>3, <1>4

\* Publishing offers the next event to everybody who has subscribed.
LEMMA PublishGood == SubscriptionsGood /\ Pipeline!Publish => SubscriptionsGood'
  <1> SUFFICES ASSUME SubscriptionsGood, Pipeline!Publish PROVE SubscriptionsGood'
    OBVIOUS
  <1>1. /\ sequence' = sequence + 1 /\ received' = received
        /\ subscription' = [s \in Subscriber |->
              IF subscription[s] = Pipeline!Unsubscribed THEN Pipeline!Unsubscribed
              ELSE Pipeline!Offered(subscription[s], sequence + 1)]
    BY DEF Pipeline!Publish
  <1>2. sequence \in Nat /\ received \in [Subscriber -> Seq(Nat)]
    BY DEF SubscriptionsGood
  <1>3. ASSUME NEW s \in Subscriber
        PROVE  \/ subscription'[s] = Pipeline!Unsubscribed /\ received'[s] = <<>>
               \/ subscription'[s] \in Subscribed /\ Accounts(subscription'[s], received'[s], sequence')
    <2>1. CASE subscription[s] = Pipeline!Unsubscribed /\ received[s] = <<>>
      BY <1>1, <2>1
    <2>2. CASE subscription[s] \in Subscribed /\ Accounts(subscription[s], received[s], sequence)
      <3> DEFINE u == subscription[s]
      <3>1. u # Pipeline!Unsubscribed
        BY <2>2 DEF Subscribed, Pipeline!Unsubscribed
      <3>2. subscription'[s] = Pipeline!Offered(u, sequence + 1)
        BY <1>1, <3>1
      <3>3. received[s] \in Seq(Nat)
        BY <1>2
      <3>4. /\ Pipeline!Offered(u, sequence + 1) \in Subscribed
            /\ Accounts(Pipeline!Offered(u, sequence + 1), received[s], sequence + 1)
        BY <1>2, <2>2, <3>3, OfferedGood
      <3>5. QED
        BY <1>1, <3>2, <3>4
    <2>3. QED
      BY <2>1, <2>2 DEF SubscriptionsGood
  <1>4. sequence' \in Nat /\ subscription' = [s \in Subscriber |-> subscription'[s]]
    BY <1>1, <1>2
  <1>5. QED
    BY <1>1, <1>2, <1>3, <1>4 DEF SubscriptionsGood

\* A step that replaces what one subscriber has.
LEMMA OneSubscriber ==
    ASSUME SubscriptionsGood, NEW s \in Subscriber, NEW u, NEW got \in Seq(Nat),
           u \in Subscribed, Accounts(u, got, sequence), sequence' = sequence,
           subscription' = [subscription EXCEPT ![s] = u], received' = [received EXCEPT ![s] = got]
    PROVE  SubscriptionsGood'
  <1>1. /\ \A d \in Subscriber : subscription'[d] = IF d = s THEN u ELSE subscription[d]
        /\ \A d \in Subscriber : received'[d] = IF d = s THEN got ELSE received[d]
        /\ subscription' = [d \in Subscriber |-> subscription'[d]]
        /\ received' \in [Subscriber -> Seq(Nat)]
    BY DEF SubscriptionsGood
  <1>2. \A d \in Subscriber :
          \/ subscription'[d] = Pipeline!Unsubscribed /\ received'[d] = <<>>
          \/ subscription'[d] \in Subscribed /\ Accounts(subscription'[d], received'[d], sequence')
    BY <1>1 DEF SubscriptionsGood
  <1>3. QED
    BY <1>1, <1>2 DEF SubscriptionsGood

\* Who subscribes has missed what was published before.
LEMMA SubscribeGood ==
    ASSUME SubscriptionsGood, NEW s \in Subscriber, Pipeline!Subscribe(s)
    PROVE  SubscriptionsGood'
  <1> DEFINE u == [missed |-> sequence, dropped |-> 0, queue |-> <<>>]
  <1>1. /\ sequence \in Nat /\ received[s] = <<>>
        /\ subscription[s] = [missed |-> -1, dropped |-> 0, queue |-> <<>>]
        /\ received' = received /\ sequence' = sequence
        /\ subscription' = [subscription EXCEPT ![s].missed = sequence]
    <2>1. subscription[s] \notin Subscribed /\ subscription[s] = Pipeline!Unsubscribed
      BY DEF Pipeline!Subscribe, Subscribed, Pipeline!Unsubscribed
    <2>2. received[s] = <<>> /\ sequence \in Nat
      BY <2>1 DEF SubscriptionsGood
    <2>3. QED
      BY <2>1, <2>2 DEF Pipeline!Subscribe, Pipeline!Unsubscribed
  <1>2. subscription' = [subscription EXCEPT ![s] = u]
    <2>1. [subscription[s] EXCEPT !.missed = sequence] = u
      BY <1>1
    <2>2. subscription' = [subscription EXCEPT ![s] = [subscription[s] EXCEPT !.missed = sequence]]
      BY <1>1
    <2>3. QED
      BY <2>1, <2>2
  <1>3. received' = [received EXCEPT ![s] = <<>>]
    BY <1>1 DEF SubscriptionsGood
  <1>4. u \in Subscribed /\ u.queue = <<>> /\ u.missed = sequence /\ u.dropped = 0
    <2>1. PICK none \in Seq(Nat) : none = <<>>
      BY EmptySeq
    <2>2. [missed |-> sequence, dropped |-> 0, queue |-> none] \in Subscribed
      BY <1>1 DEF Subscribed
    <2>3. QED
      BY <2>1, <2>2
  <1> HIDE DEF u
  <1>5. PICK none \in Seq(Nat) : none = <<>>
    BY EmptySeq
  <1>6. Accounts(u, none, sequence)
    <2>1. none \o u.queue = <<>>
      BY <1>4, <1>5
    <2>2. Len(<<>>) = 0
      OBVIOUS
    <2>3. QED
      BY <1>1, <1>4, <2>1, <2>2 DEF Accounts
  <1>7. QED
    BY <1>1, <1>2, <1>3, <1>4, <1>5, <1>6, OneSubscriber

\* Draining moves events without losing one.
LEMMA DrainGood ==
    ASSUME SubscriptionsGood, NEW s \in Subscriber, Pipeline!Drain(s)
    PROVE  SubscriptionsGood'
  <1> DEFINE u == subscription[s]
  <1>1. /\ u.queue # <<>> /\ received' = [received EXCEPT ![s] = @ \o u.queue]
        /\ subscription' = [subscription EXCEPT ![s].queue = <<>>] /\ sequence' = sequence
    BY DEF Pipeline!Drain
  <1>2. u \in Subscribed /\ Accounts(u, received[s], sequence) /\ received[s] \in Seq(Nat)
    BY <1>1 DEF SubscriptionsGood, Pipeline!Unsubscribed
  <1> DEFINE v == [u EXCEPT !.queue = <<>>]
             got == received[s] \o u.queue
  <1>3. subscription' = [subscription EXCEPT ![s] = v] /\ received' = [received EXCEPT ![s] = got]
    BY <1>1 DEF SubscriptionsGood
  <1> HIDE DEF u
  <1>4. u.missed \in Nat /\ u.dropped \in Nat /\ u.queue \in Seq(Nat)
    BY <1>2 DEF Subscribed
  <1>5. v \in Subscribed /\ v.queue = <<>> /\ v.missed = u.missed /\ v.dropped = u.dropped
    <2>1. PICK none \in Seq(Nat) : none = <<>>
      BY EmptySeq
    <2>2. v = [missed |-> u.missed, dropped |-> u.dropped, queue |-> none]
      BY <1>2, <2>1 DEF Subscribed
    <2> HIDE DEF v
    <2>3. QED
      BY <1>4, <2>1, <2>2 DEF Subscribed
  <1>6. got \in Seq(Nat)
    BY <1>2, <1>4
  <1> HIDE DEF v
  <1>7. Accounts(v, got, sequence)
    <2>1. got \o v.queue = got
      BY <1>5, <1>6, ConcatEmptySeq
    <2>2. QED
      BY <1>2, <1>5, <2>1 DEF Accounts
  <1> HIDE DEF got
  <1>8. QED
    BY <1>1, <1>3, <1>5, <1>6, <1>7, OneSubscriber

\* The router answers a request once.
LEMMA HandleGood ==
    ASSUME Pipeline!Recoverable, NEW c, NEW id, NEW command, Pipeline!Handle(c, id, command)
    PROVE  /\ \E r \in replied' : r.client = c /\ r.id = id
           /\ \A p \in requests : \E r \in replied' : r.client = p[1] /\ r.id = p[2]
           /\ \A r1, r2 \in replied' : r1.client = r2.client /\ r1.id = r2.id => r1 = r2
  <1>1. CASE \E r \in replied : r.client = c /\ r.id = id
    BY <1>1 DEF Pipeline!Handle, Pipeline!Recoverable
  <1>2. CASE ~ \E r \in replied : r.client = c /\ r.id = id
    <2> DEFINE q == [client |-> c, id |-> id, command |-> command]
    <2>1. q.client = c /\ q.id = id /\ replied' = replied \union {q}
      BY <1>2 DEF Pipeline!Handle
    <2> HIDE DEF q
    <2>2. QED
      BY <1>2, <2>1 DEF Pipeline!Recoverable
  <1>3. QED
    BY <1>1, <1>2

\* A copy that is taken in is new, and waits at the end of the queue.
LEMMA SubmitCopies ==
    ASSUME CopiesGood, NEW t \in Task, Pipeline!Submit(t)
    PROVE  CopiesGood'
  <1> DEFINE m == Cardinality(accepted)
             n == Len(queue)
  <1>a. PICK copy : copy = [task |-> t, number |-> m + 1]
    OBVIOUS
  <1>0. Pipeline!Cardinality(accepted) = m
    BY DEF Pipeline!Cardinality, Cardinality
  <1>1. /\ queue' = Append(queue, copy) /\ accepted' = accepted \union {copy}
        /\ UNCHANGED <<owner, working, finished, refused>>
    BY <1>0, <1>a DEF Pipeline!Submit, Pipeline!NewCopy
  <1>2. accepted \subseteq Copy /\ IsFiniteSet(accepted) /\ m \in Nat
        /\ \A c \in accepted : c.number \in Nat /\ c.number <= m
    BY FS_CardinalityType DEF CopiesGood, CopiesNumbered, Copy
  <1>3. copy \in Copy /\ copy.task = t /\ copy.number = m + 1
    BY <1>a, <1>2 DEF Copy
  <1>4. copy \notin accepted
    BY <1>2, <1>3
  <1>5. IsFiniteSet(accepted') /\ Cardinality(accepted') = m + 1
    BY <1>1, <1>2, <1>4, FS_AddElement
  <1>6. CopiesNumbered'
    <2>1. \A c \in accepted' : c.number <= m + 1
      BY <1>1, <1>2, <1>3
    <2>2. accepted' \subseteq Copy
      BY <1>1, <1>2, <1>3
    <2>3. QED
      BY <1>5, <2>1, <2>2 DEF CopiesNumbered
  <1>7. queue \in Seq(accepted) /\ queue \in Seq(accepted') /\ n \in Nat
    BY <1>1 DEF CopiesGood, CopiesPlaced
  <1>8. /\ DOMAIN queue = 1..n /\ DOMAIN queue' = 1..(n + 1) /\ queue'[n + 1] = copy
        /\ queue' \in Seq(accepted')
        /\ \A i \in 1..n : queue'[i] = queue[i] /\ queue[i] \in accepted /\ i \in 1..(n + 1)
    BY <1>1, <1>7
  <1> HIDE DEF n, m
  <1>9. \A i \in DOMAIN queue' : i = n + 1 \/ i \in 1..n
    BY <1>7, <1>8
  <1>10. \A c \in accepted : (Queued(c)' <=> Queued(c)) /\ (Held(c)' <=> Held(c))
    <2>1. n + 1 \in 1..(n + 1)
      BY <1>7
    <2>2. QED
      BY <1>1, <1>4, <1>8, <1>9, <2>1 DEF Queued, Held
  <1>11. Queued(copy)' /\ ~Held(copy)' /\ copy \notin finished' \union refused'
    <2>1. n + 1 \in DOMAIN queue'
      BY <1>7, <1>8
    <2>2. \A w \in Pool : <<w, copy>> \notin working
      BY <1>4 DEF CopiesGood, CopiesPlaced
    <2>3. QED
      BY <1>1, <1>4, <1>8, <2>1, <2>2 DEF Queued, Held, CopiesGood, CopiesPlaced
  <1>12. CopiesPlaced'
    <2>1. \A i, j \in DOMAIN queue' : queue'[i] = queue'[j] => i = j
      BY <1>4, <1>8, <1>9 DEF CopiesGood, CopiesPlaced
    <2>2. working' \subseteq Pool \X accepted'
      BY <1>1 DEF CopiesGood, CopiesPlaced
    <2>3. \A v, w \in Pool, c \in accepted' :
             <<v, c>> \in working' /\ <<w, c>> \in working' => v = w
      BY <1>1, <1>11 DEF CopiesGood, CopiesPlaced, Held
    <2>4. finished' \subseteq accepted' /\ refused' \subseteq accepted' /\ finished' \cap refused' = {}
      BY <1>1 DEF CopiesGood, CopiesPlaced
    <2>5. ASSUME NEW c \in accepted'
          PROVE  /\ Queued(c)' \/ Held(c)' \/ c \in finished' \/ c \in refused'
                 /\ ~ (Queued(c)' /\ Held(c)')
                 /\ c \in finished' \union refused' => ~Queued(c)' /\ ~Held(c)'
      <3>1. CASE c = copy
        BY <1>11, <3>1
      <3>2. CASE c \in accepted
        <4>1. finished' = finished /\ refused' = refused
          BY <1>1
        <4>2. QED
          BY <1>10, <3>2, <4>1 DEF CopiesGood, CopiesPlaced
      <3>3. QED
        BY <1>1, <3>1, <3>2
    <2>6. QED
      BY <1>8, <2>1, <2>2, <2>3, <2>4, <2>5 DEF CopiesPlaced
  <1>13. \A c \in accepted : Pipeline!SubmittedAgain(c) => Pipeline!SubmittedAgain(c)'
    BY <1>1 DEF Pipeline!SubmittedAgain
  <1>14. OwnersGood'
    <2>1. owner' \in [Task -> Pool \union {Pipeline!Nobody}]
      BY <1>1 DEF CopiesGood, OwnersGood
    <2>2. ASSUME NEW w \in Pool, NEW c \in accepted', <<w, c>> \in working'
          PROVE  owner'[c.task] = w \/ Pipeline!SubmittedAgain(c)'
      <3>1. c \in accepted
        BY <1>1, <1>11, <2>2 DEF Held
      <3>2. QED
        BY <1>1, <1>13, <2>2, <3>1 DEF CopiesGood, OwnersGood
    <2>3. \A c \in refused' : Pipeline!SubmittedAgain(c)'
      BY <1>1, <1>13 DEF CopiesGood, OwnersGood, CopiesPlaced
    <2>4. ASSUME NEW c \in accepted'
          PROVE  \/ Queued(c)' \/ owner'[c.task] # Pipeline!Nobody
                 \/ \E d \in finished' : d.task = c.task
      <3>1. CASE c = copy
        BY <1>11, <3>1
      <3>2. CASE c \in accepted
        BY <1>1, <1>10, <3>2 DEF CopiesGood, OwnersGood
      <3>3. QED
        BY <1>1, <3>1, <3>2
    <2>5. QED
      BY <2>1, <2>2, <2>3, <2>4 DEF OwnersGood
  <1>15. QED
    BY <1>6, <1>12, <1>14 DEF CopiesGood

\* The copy at the head of the queue passes to a worker, whose name the entry takes.
LEMMA PullCopies ==
    ASSUME CopiesGood, NEW w \in Pool, Pipeline!Pull(w)
    PROVE  CopiesGood'
  <1> DEFINE copy == queue[1]
             n == Len(queue)
  <1>1. /\ queue # <<>> /\ queue' = Tail(queue) /\ owner' = [owner EXCEPT ![copy.task] = w]
        /\ working' = working \cup {<<w, copy>>} /\ UNCHANGED <<accepted, finished, refused>>
    <2>1. Head(queue) = copy
      OBVIOUS
    <2>2. QED
      BY <2>1, Zenon DEF Pipeline!Pull
  <1>2. queue \in Seq(accepted) /\ accepted \subseteq Copy /\ working \subseteq Pool \X accepted
    BY DEF CopiesGood, CopiesPlaced, CopiesNumbered
  <1>3. /\ n \in Nat /\ n >= 1 /\ DOMAIN queue = 1..n /\ DOMAIN queue' = 1..(n - 1)
        /\ \A i \in 1..(n - 1) : queue'[i] = queue[i + 1]
        /\ copy \in accepted /\ queue' \in Seq(accepted)
    BY <1>1, <1>2
  <1>4. copy.task \in Task
    BY <1>2, <1>3 DEF Copy
  <1>5. /\ 1 \in DOMAIN queue /\ queue[1] = copy
        /\ \A i \in DOMAIN queue' : i + 1 \in DOMAIN queue /\ i + 1 # 1 /\ queue'[i] = queue[i + 1]
        /\ \A i \in DOMAIN queue : i = 1 \/ (i - 1 \in DOMAIN queue' /\ queue'[i - 1] = queue[i])
    BY <1>3
  <1> HIDE DEF copy, n
  <1>6. \A i, j \in DOMAIN queue : queue[i] = queue[j] => i = j
    BY DEF CopiesGood, CopiesPlaced
  <1>7. \A c \in accepted : Queued(c)' <=> Queued(c) /\ c # copy
    <2>1. ASSUME NEW c \in accepted, Queued(c)' PROVE Queued(c) /\ c # copy
      <3>1. PICK i \in DOMAIN queue' : queue'[i] = c
        BY <2>1 DEF Queued
      <3>2. i + 1 \in DOMAIN queue /\ queue[i + 1] = c /\ i + 1 # 1
        BY <1>5, <3>1
      <3>3. QED
        BY <1>5, <1>6, <3>2 DEF Queued
    <2>2. ASSUME NEW c \in accepted, Queued(c), c # copy PROVE Queued(c)'
      <3>1. PICK i \in DOMAIN queue : queue[i] = c
        BY <2>2 DEF Queued
      <3>2. i - 1 \in DOMAIN queue' /\ queue'[i - 1] = c
        BY <1>5, <2>2, <3>1
      <3>3. QED
        BY <3>2 DEF Queued
    <2>3. QED
      BY <2>1, <2>2
  <1>8. Queued(copy) /\ ~Held(copy) /\ copy \notin finished \union refused
    <2>1. Queued(copy)
      BY <1>5 DEF Queued
    <2>2. QED
      BY <1>3, <2>1 DEF CopiesGood, CopiesPlaced
  <1>9. \A v \in Pool, c \in accepted :
           <<v, c>> \in working' <=> <<v, c>> \in working \/ (v = w /\ c = copy)
    BY <1>1
  <1>10. \A c \in accepted : Held(c)' <=> Held(c) \/ c = copy
    BY <1>9 DEF Held
  <1>11. CopiesPlaced'
    <2>1. \A i, j \in DOMAIN queue' : queue'[i] = queue'[j] => i = j
      <3>1. ASSUME NEW i \in DOMAIN queue', NEW j \in DOMAIN queue', queue'[i] = queue'[j]
            PROVE  i = j
        <4>1. i + 1 = j + 1
          BY <1>5, <1>6, <3>1
        <4>2. i \in Nat /\ j \in Nat
          BY <1>3
        <4>3. QED
          BY <4>1, <4>2
      <3>2. QED
        BY <3>1
    <2>2. working' \subseteq Pool \X accepted'
      BY <1>1, <1>2, <1>3
    <2>3. \A v, u \in Pool, c \in accepted' :
             <<v, c>> \in working' /\ <<u, c>> \in working' => v = u
      BY <1>1, <1>8, <1>9 DEF CopiesGood, CopiesPlaced, Held
    <2>4. finished' \subseteq accepted' /\ refused' \subseteq accepted' /\ finished' \cap refused' = {}
      BY <1>1 DEF CopiesGood, CopiesPlaced
    <2>5. ASSUME NEW c \in accepted'
          PROVE  /\ Queued(c)' \/ Held(c)' \/ c \in finished' \/ c \in refused'
                 /\ ~ (Queued(c)' /\ Held(c)')
                 /\ c \in finished' \union refused' => ~Queued(c)' /\ ~Held(c)'
      <3>1. c \in accepted /\ finished' = finished /\ refused' = refused
        BY <1>1
      <3>2. /\ Queued(c) \/ Held(c) \/ c \in finished \/ c \in refused
            /\ ~ (Queued(c) /\ Held(c))
            /\ c \in finished \union refused => ~Queued(c) /\ ~Held(c)
        BY <3>1 DEF CopiesGood, CopiesPlaced
      <3>3. QED
        BY <1>7, <1>8, <1>10, <3>1, <3>2
    <2>6. queue' \in Seq(accepted')
      BY <1>1, <1>3
    <2>7. QED
      BY <2>1, <2>2, <2>3, <2>4, <2>5, <2>6 DEF CopiesPlaced
  <1>12. \A c : Pipeline!SubmittedAgain(c)' <=> Pipeline!SubmittedAgain(c)
    BY <1>1 DEF Pipeline!SubmittedAgain
  <1>13. /\ owner \in [Task -> Pool \union {Pipeline!Nobody}]
         /\ owner' \in [Task -> Pool \union {Pipeline!Nobody}]
         /\ \A d \in Task : owner'[d] = IF d = copy.task THEN w ELSE owner[d]
         /\ \A c \in accepted : c.task \in Task
    BY <1>1, <1>2, <1>4 DEF CopiesGood, OwnersGood, Copy
  <1>14. OwnersGood'
    <2>1. ASSUME NEW v \in Pool, NEW c \in accepted, <<v, c>> \in working'
          PROVE  owner'[c.task] = v \/ Pipeline!SubmittedAgain(c)
      <3>1. CASE v = w /\ c = copy
        BY <1>13, <3>1
      <3>2. CASE <<v, c>> \in working /\ c.task # copy.task
        BY <1>13, <3>2 DEF CopiesGood, OwnersGood
      <3>3. CASE <<v, c>> \in working /\ c.task = copy.task
        <4>1. c # copy
          BY <1>8, <3>3 DEF Held
        <4>2. QED
          BY <1>3, <3>3, <4>1 DEF Pipeline!SubmittedAgain
      <3>4. QED
        BY <1>9, <2>1, <3>1, <3>2, <3>3
    <2>2. ASSUME NEW c \in accepted
          PROVE  \/ Queued(c)' \/ owner'[c.task] # Pipeline!Nobody
                 \/ \E d \in finished : d.task = c.task
      <3>1. CASE c.task = copy.task
        BY <1>13, <3>1, OwnerAssumption DEF Pipeline!Nobody
      <3>2. CASE c.task # copy.task
        BY <1>7, <1>13, <3>2 DEF CopiesGood, OwnersGood
      <3>3. QED
        BY <3>1, <3>2
    <2>3. \A c \in refused : Pipeline!SubmittedAgain(c)
      BY DEF CopiesGood, OwnersGood
    <2>4. finished' = finished /\ refused' = refused /\ accepted' = accepted
      BY <1>1
    <2>5. QED
      BY <1>12, <1>13, <2>1, <2>2, <2>3, <2>4 DEF OwnersGood
  <1>15. CopiesNumbered'
    BY <1>1 DEF CopiesGood, CopiesNumbered
  <1>16. QED
    BY <1>11, <1>14, <1>15 DEF CopiesGood

\* A copy leaves its worker finished when the entry names the worker, and else turned down,
\* which befalls no copy that is the only one.
LEMMA AcknowledgeCopies ==
    ASSUME CopiesGood, NEW w \in Pool, NEW c \in accepted, Pipeline!Acknowledge(w, c)
    PROVE  CopiesGood'
  <1>1. /\ <<w, c>> \in working /\ working' = working \ {<<w, c>>}
        /\ queue' = queue /\ accepted' = accepted
        /\ \/ /\ owner[c.task] = w /\ owner' = [owner EXCEPT ![c.task] = Pipeline!Nobody]
              /\ finished' = finished \union {c} /\ refused' = refused
           \/ /\ owner[c.task] # w /\ owner' = owner
              /\ refused' = refused \union {c} /\ finished' = finished
    BY DEF Pipeline!Acknowledge, Pipeline!MayEnd
  <1>2. finished' \union refused' = finished \union refused \union {c}
    BY <1>1
  <1>3. Held(c) /\ ~Queued(c) /\ c \notin finished \union refused
    BY <1>1 DEF CopiesGood, CopiesPlaced, Held
  <1>4. \A d \in accepted : Queued(d)' <=> Queued(d)
    BY <1>1 DEF Queued
  <1>5. \A v \in Pool, d \in accepted : <<v, d>> \in working' <=> <<v, d>> \in working /\ d # c
    BY <1>1 DEF CopiesGood, CopiesPlaced
  <1>6. \A d \in accepted : Held(d)' <=> Held(d) /\ d # c
    BY <1>5 DEF Held
  <1>7. CopiesPlaced'
    <2>1. queue' \in Seq(accepted') /\ \A i, j \in DOMAIN queue' : queue'[i] = queue'[j] => i = j
      BY <1>1 DEF CopiesGood, CopiesPlaced
    <2>2. working' \subseteq Pool \X accepted'
      BY <1>1 DEF CopiesGood, CopiesPlaced
    <2>3. \A v, u \in Pool, d \in accepted' :
             <<v, d>> \in working' /\ <<u, d>> \in working' => v = u
      BY <1>1, <1>5 DEF CopiesGood, CopiesPlaced
    <2>4. finished' \subseteq accepted' /\ refused' \subseteq accepted' /\ finished' \cap refused' = {}
      BY <1>1, <1>3 DEF CopiesGood, CopiesPlaced
    <2>5. ASSUME NEW d \in accepted'
          PROVE  /\ Queued(d)' \/ Held(d)' \/ d \in finished' \/ d \in refused'
                 /\ ~ (Queued(d)' /\ Held(d)')
                 /\ d \in finished' \union refused' => ~Queued(d)' /\ ~Held(d)'
      <3>1. d \in accepted
        BY <1>1
      <3>2. /\ Queued(d) \/ Held(d) \/ d \in finished \/ d \in refused
            /\ ~ (Queued(d) /\ Held(d))
            /\ d \in finished \union refused => ~Queued(d) /\ ~Held(d)
        BY <3>1 DEF CopiesGood, CopiesPlaced
      <3>3. QED
        BY <1>2, <1>3, <1>4, <1>6, <3>1, <3>2
    <2>6. QED
      BY <2>1, <2>2, <2>3, <2>4, <2>5 DEF CopiesPlaced
  <1>8. \A d : Pipeline!SubmittedAgain(d)' <=> Pipeline!SubmittedAgain(d)
    BY <1>1 DEF Pipeline!SubmittedAgain
  <1>9. \A d \in accepted : d.task \in Task
    BY DEF CopiesGood, CopiesNumbered, Copy
  <1>10. /\ owner \in [Task -> Pool \union {Pipeline!Nobody}]
         /\ owner' \in [Task -> Pool \union {Pipeline!Nobody}]
         /\ \A t \in Task : owner'[t] = owner[t] \/ (t = c.task /\ owner[t] = w /\ c \in finished')
    BY <1>1, <1>9 DEF CopiesGood, OwnersGood
  <1>11. OwnersGood'
    <2>1. ASSUME NEW v \in Pool, NEW d \in accepted, <<v, d>> \in working'
          PROVE  owner'[d.task] = v \/ Pipeline!SubmittedAgain(d)
      <3>1. <<v, d>> \in working /\ d # c
        BY <1>5, <2>1
      <3>2. CASE d.task = c.task
        BY <3>1, <3>2 DEF Pipeline!SubmittedAgain
      <3>3. CASE d.task # c.task
        BY <1>9, <1>10, <3>1, <3>3 DEF CopiesGood, OwnersGood
      <3>4. QED
        BY <3>2, <3>3
    <2>2. \A d \in refused' : Pipeline!SubmittedAgain(d)
      BY <1>1 DEF CopiesGood, OwnersGood
    <2>3. ASSUME NEW d \in accepted
          PROVE  \/ Queued(d)' \/ owner'[d.task] # Pipeline!Nobody
                 \/ \E e \in finished' : e.task = d.task
      <3>1. finished \subseteq finished'
        BY <1>1
      <3>2. CASE owner'[d.task] = owner[d.task]
        BY <1>4, <3>1, <3>2 DEF CopiesGood, OwnersGood
      <3>3. CASE d.task = c.task /\ c \in finished'
        BY <3>3
      <3>4. QED
        BY <1>9, <1>10, <3>2, <3>3
    <2>4. accepted' = accepted
      BY <1>1
    <2>5. QED
      BY <1>8, <1>10, <2>1, <2>2, <2>3, <2>4 DEF OwnersGood
  <1>12. CopiesNumbered'
    BY <1>1 DEF CopiesGood, CopiesNumbered
  <1>13. QED
    BY <1>7, <1>11, <1>12 DEF CopiesGood

\* Initially there is nothing to account for.
LEMMA PipelineStarts == Pipeline!Init => PipelineInv
  <1> SUFFICES ASSUME Pipeline!Init PROVE PipelineInv
    OBVIOUS
  <1>1. /\ queue = <<>> /\ owner = [t \in Task |-> Pipeline!Nobody]
        /\ accepted = {} /\ working = {} /\ finished = {} /\ refused = {}
        /\ sequence = 0 /\ subscription = [s \in Subscriber |-> Pipeline!Unsubscribed]
        /\ received = [s \in Subscriber |-> <<>>] /\ replied = {} /\ requests = {}
    BY DEF Pipeline!Init
  <1>2. Pipeline!Recoverable
    BY <1>1 DEF Pipeline!Recoverable
  <1>3. CopiesGood
    BY <1>1, FS_EmptySet DEF CopiesGood, CopiesNumbered, CopiesPlaced, OwnersGood
  <1>4. received \in [Subscriber -> Seq(Nat)]
    BY <1>1
  <1>5. SubscriptionsGood
    BY <1>1, <1>4 DEF SubscriptionsGood
  <1>6. QED
    BY <1>2, <1>3, <1>5 DEF PipelineInv

\* Every step keeps the accounts, the copies and the replies.
LEMMA PipelineStep == PipelineInv /\ [Pipeline!Next]_pipelineVars => PipelineInv'
  <1> SUFFICES ASSUME PipelineInv, [Pipeline!Next]_pipelineVars PROVE PipelineInv'
    OBVIOUS
  <1>1. SubscriptionsGood /\ CopiesGood /\ Pipeline!Recoverable
    BY DEF PipelineInv
  <1>2. UNCHANGED <<sequence, subscription, received>> => SubscriptionsGood'
    BY <1>1 DEF SubscriptionsGood
  <1>3. UNCHANGED <<queue, owner, accepted, working, finished, refused>> => CopiesGood'
    BY <1>1 DEF CopiesGood, CopiesNumbered, CopiesPlaced, OwnersGood, Queued, Held,
                Pipeline!SubmittedAgain
  <1>4. UNCHANGED <<replied, requests>> => Pipeline!Recoverable'
    BY <1>1 DEF Pipeline!Recoverable
  <1>5. ASSUME NEW s \in Subscriber, Pipeline!Subscribe(s) PROVE PipelineInv'
    BY <1>1, <1>3, <1>4, <1>5, SubscribeGood
       DEF PipelineInv, Pipeline!Subscribe, Pipeline!pipeline, Pipeline!channel
  <1>6. ASSUME NEW s \in Subscriber, Pipeline!Drain(s) PROVE PipelineInv'
    BY <1>1, <1>3, <1>4, <1>6, DrainGood
       DEF PipelineInv, Pipeline!Drain, Pipeline!pipeline, Pipeline!channel
  <1>7. Pipeline!Publish => UNCHANGED <<replied, requests>>
    BY DEF Pipeline!Publish, Pipeline!channel
  <1>8. ASSUME NEW t \in Task, Pipeline!Submit(t) PROVE PipelineInv'
    <2>1. Pipeline!Publish
      BY <1>8 DEF Pipeline!Submit
    <2>2. QED
      BY <1>1, <1>4, <1>7, <1>8, <2>1, PublishGood, SubmitCopies DEF PipelineInv
  <1>9. ASSUME NEW w \in Pool, Pipeline!Pull(w) PROVE PipelineInv'
    <2>1. Pipeline!Publish
      BY <1>9 DEF Pipeline!Pull
    <2>2. QED
      BY <1>1, <1>4, <1>7, <1>9, <2>1, PublishGood, PullCopies DEF PipelineInv
  <1>10. ASSUME NEW w \in Pool, NEW c \in accepted, Pipeline!Acknowledge(w, c) PROVE PipelineInv'
    <2>1. Pipeline!Publish \/ UNCHANGED <<sequence, subscription, received, replied, requests>>
      BY <1>10 DEF Pipeline!Acknowledge, Pipeline!events, Pipeline!channel
    <2>2. SubscriptionsGood' /\ Pipeline!Recoverable'
      BY <1>1, <1>2, <1>4, <1>7, <2>1, PublishGood
    <2>3. QED
      BY <1>1, <1>10, <2>2, AcknowledgeCopies DEF PipelineInv
  <1>11. CASE Pipeline!RequestStop
    BY <1>2, <1>3, <1>4, <1>11
       DEF PipelineInv, Pipeline!RequestStop, Pipeline!events, Pipeline!channel
  <1>12. ASSUME NEW c \in Requester, NEW id \in RequestId, NEW command, NEW lose,
                Pipeline!Req(c, id, command, lose)
         PROVE  PipelineInv'
    <2>1. Pipeline!Handle(c, id, command) /\ requests' = requests
      BY <1>12 DEF Pipeline!Req
    <2>2. UNCHANGED <<queue, owner, accepted, working, finished, refused,
                      sequence, subscription, received>>
      BY <1>12 DEF Pipeline!Req, Pipeline!pipeline, Pipeline!events
    <2>3. Pipeline!Recoverable'
      BY <1>1, <2>1, HandleGood DEF Pipeline!Recoverable
    <2>4. QED
      BY <1>2, <1>3, <2>2, <2>3 DEF PipelineInv
  <1>13. ASSUME NEW c \in Requester, NEW id \in RequestId, NEW command, NEW lose,
                Pipeline!Dealer(c, id, command, lose)
         PROVE  PipelineInv'
    <2>1. Pipeline!Handle(c, id, command) /\ requests' \subseteq requests \union {<<c, id>>}
      BY <1>13 DEF Pipeline!Dealer
    <2>2. UNCHANGED <<queue, owner, accepted, working, finished, refused,
                      sequence, subscription, received>>
      BY <1>13 DEF Pipeline!Dealer, Pipeline!pipeline, Pipeline!events
    <2>3. Pipeline!Recoverable'
      <3>1. ASSUME NEW p \in requests' PROVE \E r \in replied' : r.client = p[1] /\ r.id = p[2]
        <4>1. CASE p \in requests
          BY <1>1, <2>1, <4>1, HandleGood
        <4>2. CASE p = <<c, id>>
          <5>1. p[1] = c /\ p[2] = id
            BY <4>2
          <5>2. QED
            BY <1>1, <2>1, <5>1, HandleGood
        <4>3. QED
          BY <2>1, <4>1, <4>2
      <3>2. \A r1, r2 \in replied' : r1.client = r2.client /\ r1.id = r2.id => r1 = r2
        BY <1>1, <2>1, HandleGood
      <3>3. QED
        BY <3>1, <3>2 DEF Pipeline!Recoverable
    <2>4. QED
      BY <1>2, <1>3, <2>2, <2>3 DEF PipelineInv
  <1>14. CASE UNCHANGED pipelineVars
    BY <1>2, <1>3, <1>4, <1>14 DEF PipelineInv, pipelineVars
  <1>15. QED
    BY <1>5, <1>6, <1>8, <1>9, <1>10, <1>11, <1>12, <1>13, <1>14 DEF Pipeline!Next

\* Lab 20: for any subscribers, high-water mark, workers, submissions and lost replies, the
\* counters of a subscription explain every event it has not seen and what it saw is in order;
\* every copy of a task that was taken in waits, is in one worker's hands, has been finished
\* or was turned down, the last only if its task was submitted again; a pipeline that says
\* it has drained has finished every task; and a lost reply can be had again, and only that one.
THEOREM PipelinesAlwaysAccount == Pipeline!Spec => []Pipeline!PipelineAccounts
  <1>1. PipelineInv => Pipeline!PipelineAccounts
    <2> SUFFICES ASSUME PipelineInv PROVE Pipeline!PipelineAccounts
      OBVIOUS
    <2>1. Pipeline!LossAccounted
      BY DEF PipelineInv, SubscriptionsGood, Accounts, Pipeline!LossAccounted
    <2>2. CopiesGood
      BY DEF PipelineInv
    <2>3. PICK W \in SUBSET accepted, H \in SUBSET accepted :
             /\ W = Pipeline!Waiting /\ H = Pipeline!InHand
             /\ \A c \in accepted : (c \in W <=> Queued(c)) /\ (c \in H <=> Held(c))
      <3>1. Pipeline!Waiting \subseteq accepted
        BY <2>2 DEF CopiesGood, CopiesPlaced, Pipeline!Waiting, Pipeline!Range
      <3>2. Pipeline!InHand \subseteq accepted
        BY DEF Pipeline!InHand
      <3>3. \A c \in accepted : c \in Pipeline!Waiting <=> Queued(c)
        BY DEF Pipeline!Waiting, Pipeline!Range, Queued
      <3>4. \A c \in accepted : c \in Pipeline!InHand <=> Held(c)
        BY DEF Pipeline!InHand, Held
      <3>5. QED
        BY <3>1, <3>2, <3>3, <3>4
    <2>5. Pipeline!CopiesAccounted
      <3>1. finished \subseteq accepted /\ refused \subseteq accepted /\ finished \cap refused = {}
        BY <2>2 DEF CopiesGood, CopiesPlaced
      <3>2. \A c \in accepted :
               /\ c \in W \/ c \in H \/ c \in finished \/ c \in refused
               /\ ~ (c \in W /\ c \in H)
               /\ c \in finished \union refused => c \notin W /\ c \notin H
        BY <2>2, <2>3 DEF CopiesGood, CopiesPlaced
      <3>3. accepted = W \union H \union finished \union refused
        BY <3>1, <3>2
      <3>4. W \cap (H \union finished \union refused) = {} /\ H \cap (finished \union refused) = {}
        BY <3>1, <3>2
      <3>5. /\ \A i, j \in DOMAIN queue : queue[i] = queue[j] => i = j
            /\ \A v, w \in Pool, c \in accepted :
                  <<v, c>> \in working /\ <<w, c>> \in working => v = w
            /\ \A c \in refused : Pipeline!SubmittedAgain(c)
        BY <2>2 DEF CopiesGood, CopiesPlaced, OwnersGood
      <3>6. QED
        BY <2>3, <3>1, <3>3, <3>4, <3>5 DEF Pipeline!CopiesAccounted
    <2>6. Pipeline!DrainedIsDone
      <3> SUFFICES ASSUME Pipeline!Drained
                   PROVE  /\ \A c \in accepted : \E d \in finished : d.task = c.task
                          /\ \A c \in Pipeline!InHand : Pipeline!SubmittedAgain(c)
        BY DEF Pipeline!DrainedIsDone
      <3>1. \A c \in accepted : ~Queued(c) /\ c.task \in Task
        BY <2>2 DEF Pipeline!Drained, Queued, CopiesGood, CopiesNumbered, Copy
      <3>2. \A c \in accepted : owner[c.task] = Pipeline!Nobody
        BY <3>1 DEF Pipeline!Drained
      <3>3. \A c \in accepted : \E d \in finished : d.task = c.task
        BY <2>2, <3>1, <3>2 DEF CopiesGood, OwnersGood
      <3>4. ASSUME NEW c \in Pipeline!InHand PROVE Pipeline!SubmittedAgain(c)
        <4>1. c \in accepted /\ Held(c)
          BY <2>3
        <4>2. PICK w \in Pool : <<w, c>> \in working
          BY <4>1 DEF Held
        <4>3. owner[c.task] # w
          BY <3>2, <4>1, OwnerAssumption DEF Pipeline!Nobody
        <4>4. QED
          BY <2>2, <4>1, <4>2, <4>3 DEF CopiesGood, OwnersGood
      <3>5. QED
        BY <3>3, <3>4
    <2>7. Pipeline!Recoverable
      BY DEF PipelineInv
    <2>8. QED
      BY <2>1, <2>5, <2>6, <2>7 DEF Pipeline!PipelineAccounts
  <1>2. PipelineInv /\ [Pipeline!Next]_(Pipeline!vars) => PipelineInv'
    BY PipelineStep DEF Pipeline!vars, Pipeline!pipeline, Pipeline!events, Pipeline!channel,
                        pipelineVars
  <1>3. Pipeline!Spec => []PipelineInv
    BY PipelineStarts, <1>2, PTL DEF Pipeline!Spec
  <1>4. QED
    BY <1>1, <1>3, PTL

=============================================================================

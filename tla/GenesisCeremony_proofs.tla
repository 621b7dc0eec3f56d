----------------------- MODULE GenesisCeremony_proofs -----------------------
(***************************************************************************)
(* Proofs about the genesis ceremony: blobs have two files of one account  *)
(* for each validator, builds after the call agree, the block holds what   *)
(* the recovery file says. The migration is a matter of sums, and of an    *)
(* induction along the validators of the layout file.                      *)
(***************************************************************************)
EXTENDS GenesisCeremony, Sums_proofs, SequenceTheorems

-----------------------------------------------------------------------------
(* Sums over functions.                                                    *)

LEMMA SumOfFunction ==
  ASSUME NEW S, NEW f, DOMAIN f = S
  PROVE  SumFunction(f) = SumFunctionOnSet(f, S)
  BY DEF SumFunction

(* An account gets `n` more, and is made if it is not there.               *)
LEMMA WithSum ==
  ASSUME NEW f, NEW g, NEW D, NEW v, NEW n \in Int, NEW had, IsFiniteSet(D),
         DOMAIN f = D, DOMAIN g = D \cup {v}, \A x \in D : f[x] \in Int,
         v \in D => had = f[v], v \notin D => had = 0, g[v] = had + n,
         \A x \in D \ {v} : g[x] = f[x]
  PROVE  SumFunction(g) = SumFunction(f) + n
<1>1. SumFunction(f) = SumFunctionOnSet(f, D) /\ SumFunction(g) = SumFunctionOnSet(g, D \cup {v})
  BY SumOfFunction
<1>2. CASE v \in D
  <2>1. D \cup {v} = D /\ g[v] = f[v] + n
    BY <1>2
  <2>2. SumFunctionOnSet(g, D) = SumFunctionOnSet(f, D) + n
    BY <1>2, <2>1, SumOne
  <2>3. QED
    BY <1>1, <2>1, <2>2
<1>3. CASE v \notin D
  <2>1. g[v] = n /\ \A x \in D : g[x] = f[x] /\ g[x] \in Int
    BY <1>3
  <2>2. SumFunctionOnSet(g, D) = SumFunctionOnSet(f, D)
    BY <2>1, SumSame
  <2>3. SumFunctionOnSet(g, D \cup {v}) = SumFunctionOnSet(g, D) + g[v]
    BY <1>3, <2>1, SumInsert
  <2>4. QED
    BY <1>1, <2>1, <2>2, <2>3
<1>4. QED
  BY <1>2, <1>3

(* A share of a pledge is at most the pledge.                              *)
LEMMA ShareFits ==
  ASSUME NEW p \in Nat, NEW total \in Nat, total > Bootstrap
  PROVE  LET x == (p * ((Bootstrap * Scale) \div total)) \div Scale
         IN  x \in Nat /\ x <= p
<1> DEFINE q == (Bootstrap * Scale) \div total
<1>1. Bootstrap \in Nat /\ Scale \in Nat /\ Scale > 0 /\ total > 0
  BY MigrationAssumption DEF Scale
<1>2. Bootstrap * Scale \in Nat
  BY <1>1
<1>3. q \in Nat /\ q * total <= Bootstrap * Scale
  <2> DEFINE y == Bootstrap * Scale
  <2> HIDE DEF y
  <2>1. y \in Nat
    BY <1>2 DEF y
  <2>2. y \div total \in Nat /\ (y \div total) * total <= y
    BY <1>1, <2>1
  <2>3. QED
    BY <2>2 DEF y
<1> HIDE DEF q
<1>4. q <= Scale
  <2> SUFFICES ASSUME q > Scale PROVE FALSE
    BY <1>1, <1>3
  <2> DEFINE s == Scale
  <2>1. s \in Nat /\ s > 0 /\ q >= s
    BY <1>1, <1>3
  <2> HIDE DEF s
  <2>2. q * total >= s * total
    BY <1>3, <2>1
  <2>3. total >= Bootstrap + 1
    BY <1>1
  <2>4. s * total >= s * (Bootstrap + 1)
    BY <1>1, <2>1, <2>3
  <2>5. s * (Bootstrap + 1) = Bootstrap * s + s
    BY <1>1, <2>1
  <2>6. q * total \in Nat /\ s * total \in Nat /\ Bootstrap * s \in Nat
    BY <1>1, <1>3, <2>1
  <2>7. QED
    BY <1>3, <2>1, <2>2, <2>4, <2>5, <2>6 DEF s
<1>5. p * q \in Nat /\ p * q <= p * Scale
  BY <1>1, <1>3, <1>4
<1>6. (p * q) \div Scale \in Nat /\ (p * q) \div Scale <= p
  <2> DEFINE y == p * q
             s == Scale
  <2>1. y \in Nat /\ s \in Nat /\ s > 0 /\ y <= p * s
    BY <1>1, <1>5
  <2> HIDE DEF y, s
  <2>2. y \div s \in Nat /\ y \div s <= p
    BY <2>1
  <2>3. QED
    BY <2>2 DEF y, s
<1>7. QED
  BY <1>6 DEF q

(* What the escrow pays comes out of the pledges.                          *)
LEMMA TakenSum ==
  ASSUME NEW f, IsFiniteSet(DOMAIN f), \A x \in DOMAIN f : f[x] \in Nat
  PROVE  LET t    == Taken(f)
             rest == [x \in DOMAIN f |-> f[x] - t[x]]
         IN  /\ SumFunction(t) \in Nat
             /\ \A x \in DOMAIN f : rest[x] \in Nat
             /\ SumFunction(rest) = SumFunction(f) - SumFunction(t)
             /\ SumFunction(f) \in Nat
<1> DEFINE D == DOMAIN f
           t == Taken(f)
           rest == [x \in D |-> f[x] - t[x]]
<1>1. SumFunction(f) = SumFunctionOnSet(f, D) /\ SumFunction(f) \in Nat
  <2>1. SumFunction(f) = SumFunctionOnSet(f, D)
    BY SumOfFunction
  <2>2. QED
    BY <2>1, SumNat
<1>2. DOMAIN t = D /\ \A x \in D : t[x] \in Nat /\ t[x] <= f[x]
  <2>1. CASE SumFunction(f) > Bootstrap
    <3>1. t = Drawn(f)
      BY <2>1 DEF Taken
    <3>2. ASSUME NEW x \in D PROVE t[x] \in Nat /\ t[x] <= f[x]
      <4> DEFINE y == (f[x] * ((Bootstrap * Scale) \div SumFunction(f))) \div Scale
      <4>1. t[x] = y
        BY <3>1 DEF Drawn
      <4>2. y \in Nat /\ y <= f[x]
        BY <1>1, <2>1, ShareFits
      <4> HIDE DEF y
      <4>3. QED
        BY <4>1, <4>2
    <3>3. QED
      BY <3>1, <3>2 DEF Drawn
  <2>2. CASE ~(SumFunction(f) > Bootstrap)
    BY <2>2 DEF Taken
  <2>3. QED
    BY <2>1, <2>2
<1>3. DOMAIN rest = D /\ \A x \in D : rest[x] \in Nat /\ f[x] = rest[x] + t[x]
  BY <1>2
<1> HIDE DEF t, rest
<1>4. SumFunction(t) = SumFunctionOnSet(t, D) /\ SumFunction(rest) = SumFunctionOnSet(rest, D)
  BY <1>2, <1>3, SumOfFunction
<1>5. \A x \in D : rest[x] \in Int /\ t[x] \in Int
  BY <1>2, <1>3
<1> HIDE DEF D
<1>6. IsFiniteSet(D)
  BY DEF D
<1>7. SumFunctionOnSet(f, D) = SumFunctionOnSet(rest, D) + SumFunctionOnSet(t, D)
  BY <1>3, <1>5, <1>6, SumPart
<1>8. SumFunctionOnSet(t, D) \in Nat /\ SumFunctionOnSet(rest, D) \in Int
  BY <1>2, <1>5, <1>6, SumNat, SumInt
<1>9. QED
  BY <1>1, <1>3, <1>4, <1>7, <1>8 DEF D, t, rest

-----------------------------------------------------------------------------
(* Validators after the users.                                             *)

(* A state of the chain, with no more unlocked than held.                  *)
IsChain(c) ==
    /\ c = [balance |-> c.balance, unlocked |-> c.unlocked, pledge |-> c.pledge,
            tombstone |-> c.tombstone, donors |-> c.donors]
    /\ IsFiniteSet(DOMAIN c.balance) /\ \A a \in DOMAIN c.balance : c.balance[a] \in Nat
    /\ IsFiniteSet(DOMAIN c.pledge) /\ \A a \in DOMAIN c.pledge : c.pledge[a] \in Nat
    /\ \A a \in DOMAIN c.unlocked : /\ a \in DOMAIN c.balance
                                    /\ c.unlocked[a] \in Nat
                                    /\ c.unlocked[a] <= c.balance[a]

(* The chain `c` is `m` with some of the validators `V`: they alone differ. *)
Registers(c, m, V) ==
    /\ IsChain(c)
    /\ CoinsIn(c) = CoinsIn(m)
    /\ c.tombstone = m.tombstone /\ c.donors = m.donors
    /\ DOMAIN c.pledge = DOMAIN m.pledge
    /\ DOMAIN c.balance \subseteq DOMAIN m.balance \cup V
    /\ DOMAIN m.unlocked \subseteq DOMAIN c.unlocked
    /\ \A a \in DOMAIN c.balance \ V : c.balance[a] = m.balance[a]
    /\ \A a \in DOMAIN m.unlocked \ V : c.unlocked[a] = m.unlocked[a]

(* One more validator (create_initialize_validators_with_commission).      *)
LEMMA RegisterOne ==
  ASSUME NEW m, NEW V, NEW c, Registers(c, m, V), NEW v \in V
  PROVE  Registers(register_validator(c, v), m, V)
<1> DEFINE bal == IF v \in DOMAIN c.balance THEN c.balance[v] ELSE 0
           free == IF v \in DOMAIN c.unlocked THEN c.unlocked[v] ELSE bal
           taken == Taken(c.pledge)
           seed == SumFunction(taken)
           b == With(c.balance, v, bal + seed)
           u == With(c.unlocked, v, free + seed)
           p == [a \in DOMAIN c.pledge |-> c.pledge[a] - taken[a]]
           r == register_validator(c, v)
<1>1. /\ IsChain(c)
      /\ c = [balance |-> c.balance, unlocked |-> c.unlocked, pledge |-> c.pledge,
              tombstone |-> c.tombstone, donors |-> c.donors]
      /\ IsFiniteSet(DOMAIN c.balance) /\ \A a \in DOMAIN c.balance : c.balance[a] \in Nat
      /\ IsFiniteSet(DOMAIN c.pledge) /\ \A a \in DOMAIN c.pledge : c.pledge[a] \in Nat
      /\ \A a \in DOMAIN c.unlocked : /\ a \in DOMAIN c.balance
                                      /\ c.unlocked[a] \in Nat
                                      /\ c.unlocked[a] <= c.balance[a]
  BY DEF Registers, IsChain
<1>2. /\ seed \in Nat /\ \A x \in DOMAIN c.pledge : p[x] \in Nat
      /\ SumFunction(p) = SumFunction(c.pledge) - seed
      /\ SumFunction(c.pledge) \in Nat
  BY <1>1, TakenSum
<1>3. r = [c EXCEPT !.balance = b, !.unlocked = u, !.pledge = p]
  BY DEF register_validator
<1>4. DOMAIN p = DOMAIN c.pledge
  OBVIOUS
<1> HIDE DEF seed
<1>5. /\ bal \in Nat /\ DOMAIN b = DOMAIN c.balance \cup {v} /\ IsFiniteSet(DOMAIN b)
      /\ b[v] = bal + seed /\ \A x \in DOMAIN c.balance \ {v} : b[x] = c.balance[x]
      /\ SumFunction(b) = SumFunction(c.balance) + seed
  <2> DEFINE f == c.balance
  <2>1. /\ IsFiniteSet(DOMAIN f) /\ \A x \in DOMAIN f : f[x] \in Nat
        /\ v \in DOMAIN f => bal = f[v]
        /\ v \notin DOMAIN f => bal = 0
        /\ bal \in Nat /\ seed \in Nat
    BY <1>1, <1>2
  <2> HIDE DEF f, bal, taken, u, p, free, r
  <2>2. /\ DOMAIN b = DOMAIN f \cup {v} /\ b[v] = bal + seed
        /\ \A x \in DOMAIN f \ {v} : b[x] = f[x]
    BY DEF f, With
  <2>3. IsFiniteSet(DOMAIN b)
    BY <2>1, <2>2, FS_AddElement
  <2>4. \A x \in DOMAIN f : f[x] \in Int
    BY <2>1
  <2> DEFINE D == DOMAIN f
  <2> HIDE DEF b
  <2>5. /\ DOMAIN f = D /\ DOMAIN b = D \cup {v} /\ IsFiniteSet(D) /\ seed \in Int
        /\ \A x \in D : f[x] \in Int
        /\ v \in D => bal = f[v]
        /\ v \notin D => bal = 0
        /\ b[v] = bal + seed
        /\ \A x \in D \ {v} : b[x] = f[x]
    BY <2>1, <2>2, <2>4
  <2> HIDE DEF D
  <2>6. SumFunction(b) = SumFunction(f) + seed
    BY ONLY <2>5, WithSum
  <2>7. QED
    BY <2>1, <2>2, <2>3, <2>6 DEF f
<1>6. free \in Nat /\ free <= bal
  BY <1>1, <1>5
<1>7. /\ DOMAIN u = DOMAIN c.unlocked \cup {v} /\ u[v] = free + seed
      /\ \A x \in DOMAIN c.unlocked \ {v} : u[x] = c.unlocked[x]
  BY DEF With
<1>8. SumFunction(c.balance) \in Nat
  <2>1. SumFunction(c.balance) = SumFunctionOnSet(c.balance, DOMAIN c.balance)
    BY SumOfFunction
  <2>2. QED
    BY <1>1, <2>1, SumNat
<1> HIDE DEF r, b, u, p, bal, free
<1>9. r = [balance |-> b, unlocked |-> u, pledge |-> p, tombstone |-> c.tombstone,
           donors |-> c.donors]
  BY <1>1, <1>3
<1>10. CoinsIn(r) = CoinsIn(m)
  <2>1. CoinsIn(c) = CoinsIn(m)
    BY DEF Registers
  <2>2. CoinsIn(r) = SumFunction(b) + SumFunction(p)
    BY <1>9 DEF CoinsIn
  <2>3. CoinsIn(c) = SumFunction(c.balance) + SumFunction(c.pledge)
    BY DEF CoinsIn
  <2>4. QED
    BY <1>2, <1>5, <1>8, <2>1, <2>2, <2>3
<1>11. IsChain(r)
  <2>1. \A a \in DOMAIN b : b[a] \in Nat
    BY <1>1, <1>2, <1>5
  <2>2. \A a \in DOMAIN p : p[a] \in Nat
    BY <1>2, <1>4
  <2>3. ASSUME NEW a \in DOMAIN u
        PROVE  a \in DOMAIN b /\ u[a] \in Nat /\ u[a] <= b[a]
    <3>1. CASE a = v
      BY <1>2, <1>5, <1>6, <1>7, <3>1
    <3>2. CASE a # v
      <4>1. a \in DOMAIN c.unlocked
        BY <1>7, <2>3, <3>2
      <4>2. u[a] = c.unlocked[a] /\ a \in DOMAIN c.balance
        BY <1>1, <1>7, <3>2, <4>1
      <4>3. b[a] = c.balance[a] /\ a \in DOMAIN b
        BY <1>5, <3>2, <4>2
      <4>4. QED
        BY <1>1, <4>1, <4>2, <4>3
    <3>3. QED
      BY <3>1, <3>2
  <2>4. IsFiniteSet(DOMAIN p)
    BY <1>1, <1>4
  <2>5. /\ r.balance = b /\ r.unlocked = u /\ r.pledge = p
        /\ r = [balance |-> r.balance, unlocked |-> r.unlocked, pledge |-> r.pledge,
                tombstone |-> r.tombstone, donors |-> r.donors]
    BY <1>9
  <2>6. QED
    BY <1>5, <2>1, <2>2, <2>3, <2>4, <2>5 DEF IsChain
<1>12. /\ c.tombstone = m.tombstone /\ c.donors = m.donors
       /\ DOMAIN c.pledge = DOMAIN m.pledge
       /\ DOMAIN c.balance \subseteq DOMAIN m.balance \cup V
       /\ DOMAIN m.unlocked \subseteq DOMAIN c.unlocked
       /\ \A a \in DOMAIN c.balance \ V : c.balance[a] = m.balance[a]
       /\ \A a \in DOMAIN m.unlocked \ V : c.unlocked[a] = m.unlocked[a]
  BY DEF Registers
<1>13. /\ r.tombstone = m.tombstone /\ r.donors = m.donors
       /\ r.balance = b /\ r.unlocked = u /\ r.pledge = p
  BY <1>9, <1>12
<1>14. \A a \in DOMAIN b \ V : b[a] = m.balance[a]
  BY <1>5, <1>12
<1>15. \A a \in DOMAIN m.unlocked \ V : u[a] = m.unlocked[a]
  BY <1>7, <1>12
<1>16. /\ DOMAIN p = DOMAIN m.pledge /\ DOMAIN b \subseteq DOMAIN m.balance \cup V
       /\ DOMAIN m.unlocked \subseteq DOMAIN u
  BY <1>4, <1>5, <1>7, <1>12
<1>17. Registers(r, m, V)
  BY <1>10, <1>11, <1>13, <1>14, <1>15, <1>16 DEF Registers
<1>18. QED
  BY <1>17 DEF r

(* The chains along the layout file.                                       *)
IsEncoding(g, users, n, m) ==
    g = [k \in 0 .. n |-> IF k = 0 THEN m
                          ELSE register_validator(g[k - 1], users[Len(users) + 1 - k])]

(* The recursion of encode_genesis is well defined: a least number of      *)
(* users without its chains could be reached from the one before.          *)
LEMMA EncodingExists ==
  ASSUME NEW users, NEW m, NEW n \in Nat
  PROVE  \E g : IsEncoding(g, users, n, m)
<1> DEFINE F == {k \in Nat : ~ \E g : IsEncoding(g, users, k, m)}
<1> SUFFICES ASSUME F # {} PROVE FALSE
  OBVIOUS
<1>1. F \subseteq Nat
  OBVIOUS
<1>2. PICK l \in F : \A k \in F : l <= k
  <2> HIDE DEF F
  <2> QED
    BY <1>1, LeastNumber
<1>3. l \in Nat /\ ~ \E g : IsEncoding(g, users, l, m)
  OBVIOUS
<1>4. CASE l = 0
  <2> DEFINE h == [k \in 0 .. 0 |-> m]
  <2>1. \A k \in 0 .. 0 : k = 0
    OBVIOUS
  <2>2. h = [k \in 0 .. 0 |-> IF k = 0 THEN m
                              ELSE register_validator(h[k - 1], users[Len(users) + 1 - k])]
    BY <2>1
  <2>3. IsEncoding(h, users, 0, m)
    BY <2>2 DEF IsEncoding
  <2>4. QED
    BY <1>3, <1>4, <2>3
<1>5. CASE l # 0
  <2>1. l - 1 \in Nat /\ l - 1 \notin F
    BY <1>2, <1>3, <1>5
  <2>2. PICK g : IsEncoding(g, users, l - 1, m)
    BY <2>1
  <2> DEFINE h == [k \in 0 .. l |-> IF k < l THEN g[k]
                                    ELSE register_validator(g[l - 1], users[Len(users) + 1 - l])]
             e(k) == IF k = 0 THEN m ELSE register_validator(h[k - 1], users[Len(users) + 1 - k])
  <2>3. ASSUME NEW k \in 0 .. l PROVE h[k] = e(k)
    <3>1. CASE k = l
      <4>1. h[k] = register_validator(g[l - 1], users[Len(users) + 1 - l])
        BY <3>1
      <4>2. h[k - 1] = g[l - 1]
        BY <1>3, <1>5, <3>1
      <4> HIDE DEF h
      <4>3. QED
        BY <1>5, <3>1, <4>1, <4>2
    <3>2. CASE k # l
      <4>1. k \in 0 .. l - 1 /\ k < l
        BY <1>3, <3>2
      <4>2. h[k] = g[k]
        BY <4>1
      <4>3. g[k] = IF k = 0 THEN m ELSE register_validator(g[k - 1], users[Len(users) + 1 - k])
        BY <2>2, <4>1 DEF IsEncoding
      <4>4. k # 0 => h[k - 1] = g[k - 1]
        <5>1. k # 0 => k - 1 \in 0 .. l /\ k - 1 < l
          BY <1>3, <4>1
        <5>2. QED
          BY <5>1
      <4> HIDE DEF h
      <4>5. QED
        BY <4>2, <4>3, <4>4
    <3>3. QED
      BY <3>1, <3>2
  <2>4. h = [k \in 0 .. l |-> h[k]]
    OBVIOUS
  <2> HIDE DEF h
  <2>5. h = [k \in 0 .. l |-> e(k)]
    BY <2>3, <2>4
  <2>6. IsEncoding(h, users, l, m)
    BY <2>5 DEF IsEncoding
  <2>7. QED
    BY <1>3, <2>6
<1>6. QED
  BY <1>4, <1>5

(* All validators of the layout file.                                      *)
LEMMA RegisterAll ==
  ASSUME NEW rec, NEW users, Len(users) \in Nat, DOMAIN users = 1 .. Len(users),
         IsChain(migrate_all_users(rec))
  PROVE  Registers(encode_genesis(rec, users), migrate_all_users(rec), Range(users))
<1> DEFINE n == Len(users)
           m == migrate_all_users(rec)
           V == Range(users)
           g == CHOOSE h : IsEncoding(h, users, n, m)
<1>1. IsEncoding(g, users, n, m)
  <2> HIDE DEF m
  <2> QED
    BY EncodingExists
<1>2. encode_genesis(rec, users) = g[n]
  BY DEF encode_genesis, create_initialize_validators, IsEncoding
<1>3. Registers(m, m, V)
  <2> HIDE DEF m, V
  <2>1. IsChain(m)
    BY DEF m
  <2>2. QED
    BY <2>1 DEF Registers, IsChain
<1>4. \A k \in 1 .. n : users[Len(users) + 1 - k] \in V
  BY DEF Range
<1> HIDE DEF g, m, V, n
<1>5. n \in Nat
  BY DEF n
<1> DEFINE F == {k \in Nat : k <= n /\ ~Registers(g[k], m, V)}
<1>6. F = {}
  <2> SUFFICES ASSUME F # {} PROVE FALSE
    OBVIOUS
  <2>1. F \subseteq Nat
    OBVIOUS
  <2>2. PICK k \in F : \A j \in F : k <= j
    <3> HIDE DEF F
    <3> QED
      BY <2>1, LeastNumber
  <2>3. k \in 0 .. n /\ k \in Nat /\ ~Registers(g[k], m, V)
    BY <1>5
  <2>4. g[k] = IF k = 0 THEN m ELSE register_validator(g[k - 1], users[Len(users) + 1 - k])
    BY <1>1, <2>3 DEF IsEncoding
  <2>5. CASE k = 0
    BY <1>3, <2>3, <2>4, <2>5
  <2>6. CASE k # 0
    <3> DEFINE j == k - 1
    <3>1. j \in Nat /\ j <= n /\ ~(k <= j) /\ k \in 1 .. n
      BY <1>5, <2>3, <2>6
    <3>2. j \notin F
      BY <2>2, <3>1
    <3>3. Registers(g[j], m, V)
      BY <3>1, <3>2
    <3>4. Registers(register_validator(g[j], users[Len(users) + 1 - k]), m, V)
      <4> HIDE DEF j
      <4> QED
        BY <1>4, <3>1, <3>3, RegisterOne
    <3>5. QED
      BY <2>3, <2>4, <2>6, <3>4
  <2>7. QED
    BY <2>5, <2>6
<1>7. QED
  BY <1>2, <1>5, <1>6 DEF n, m, V

-----------------------------------------------------------------------------
(* The users before the validators.                                        *)

(* Records with coins only where there is a key, whose slow wallets have   *)
(* no more unlocked than their balance.                                    *)
HasKeys(rec) ==
    \A a \in Addresses : ~rec[a].auth_key => rec[a].balance = None /\ rec[a].pledge = None

IsRecovery(rec) ==
    /\ rec \in [Addresses -> Records]
    /\ HasKeys(rec)
    /\ \A a \in Addresses :
          rec[a].balance # None /\ rec[a].slow # None => rec[a].slow <= rec[a].balance

LEMMA RecordFields ==
  ASSUME NEW rec, rec \in [Addresses -> Records], NEW a \in Addresses
  PROVE  /\ rec[a].balance # None => rec[a].balance \in Nat
         /\ rec[a].slow # None => rec[a].slow \in Nat
         /\ rec[a].pledge # None => rec[a].pledge \in Nat
<1>1. rec[a] \in Records
  OBVIOUS
<1>2. QED
  BY <1>1 DEF Records

(* What is migrated is a state of the chain.                               *)
LEMMA MigratedChain ==
  ASSUME NEW rec, IsRecovery(rec)
  PROVE  IsChain(migrate_all_users(rec))
<1> DEFINE m == migrate_all_users(rec)
           B == {b \in Addresses : CanMigrate(rec[b])}
           U == {b \in Addresses : CanMigrate(rec[b]) /\ rec[b].slow # None}
           P == {b \in Addresses : /\ rec[b].role # "drop"
                                   /\ rec[b].auth_key
                                   /\ rec[b].pledge # None}
           f == [a \in B |-> rec[a].balance]
           u == [a \in U |-> rec[a].slow]
           p == [a \in P |-> rec[a].pledge]
           T == {a \in Addresses : rec[a].role = "drop"}
           d == prepare_cw_and_receipts(rec)
<1>1. m = [balance |-> f, unlocked |-> u, pledge |-> p, tombstone |-> T, donors |-> d]
  BY DEF migrate_all_users, migrate_slow_wallets, migrate_infra_escrow
<1>2. IsFiniteSet(B) /\ IsFiniteSet(P)
  BY MigrationAssumption, FS_Subset
<1>3. \A a \in B : a \in Addresses /\ rec[a].balance # None
  BY DEF CanMigrate
<1>4. \A a \in U : a \in B /\ a \in Addresses /\ rec[a].slow # None
  OBVIOUS
<1>5. \A a \in P : a \in Addresses /\ rec[a].pledge # None
  OBVIOUS
<1>6. DOMAIN f = B /\ DOMAIN u = U /\ DOMAIN p = P
  OBVIOUS
<1>7. /\ \A a \in B : f[a] = rec[a].balance
      /\ \A a \in U : u[a] = rec[a].slow
      /\ \A a \in P : p[a] = rec[a].pledge
  OBVIOUS
<1> HIDE DEF m, B, U, P, f, u, p, T, d
<1>8. rec \in [Addresses -> Records]
  BY DEF IsRecovery
<1>9. /\ \A a \in B : f[a] \in Nat
      /\ \A a \in P : p[a] \in Nat
  BY <1>3, <1>5, <1>7, <1>8, RecordFields
<1>10. \A a \in U : a \in B /\ u[a] \in Nat /\ u[a] <= f[a]
  BY <1>3, <1>4, <1>7, <1>8, RecordFields DEF IsRecovery
<1>11. /\ m.balance = f /\ m.unlocked = u /\ m.pledge = p
       /\ m = [balance |-> m.balance, unlocked |-> m.unlocked, pledge |-> m.pledge,
               tombstone |-> m.tombstone, donors |-> m.donors]
  BY <1>1
<1>12. IsChain(m)
  BY <1>2, <1>6, <1>9, <1>10, <1>11 DEF IsChain
<1>13. QED
  BY <1>12 DEF m

(* It has the coins of the records that are not dropped.                   *)
LEMMA MigratedCoins ==
  ASSUME NEW rec, IsRecovery(rec)
  PROVE  CoinsIn(migrate_all_users(rec)) = CoinsOf(rec)
<1> DEFINE m == migrate_all_users(rec)
           K == {b \in Addresses : rec[b].role # "drop"}
           B == {b \in Addresses : CanMigrate(rec[b])}
           P == {b \in Addresses : /\ rec[b].role # "drop"
                                   /\ rec[b].auth_key
                                   /\ rec[b].pledge # None}
           f == [a \in B |-> rec[a].balance]
           p == [a \in P |-> rec[a].pledge]
           z == [a \in K |-> 0]
           h == [a \in K |-> Coins(rec[a].balance)]
           t == [a \in K |-> Coins(rec[a].balance) + Coins(rec[a].pledge)]
<1>1. CoinsIn(m) = SumFunction(f) + SumFunction(p)
  BY DEF CoinsIn, migrate_all_users, migrate_infra_escrow
<1>2. CoinsOf(rec) = SumFunction(t)
  BY DEF CoinsOf
<1>3. IsFiniteSet(K)
  BY MigrationAssumption, FS_Subset
<1>4. B \subseteq K /\ P \subseteq K /\ K \subseteq Addresses
  BY DEF CanMigrate
<1>5. /\ \A a \in B : rec[a].balance # None
      /\ \A a \in K \ B : rec[a].balance = None
  BY DEF CanMigrate, IsRecovery, HasKeys
<1>6. /\ \A a \in P : rec[a].pledge # None
      /\ \A a \in K \ P : rec[a].pledge = None
  BY DEF IsRecovery, HasKeys
<1>7. /\ DOMAIN f = B /\ DOMAIN p = P /\ DOMAIN t = K
      /\ \A a \in B : f[a] = rec[a].balance
      /\ \A a \in P : p[a] = rec[a].pledge
      /\ \A a \in K : /\ z[a] = 0 /\ h[a] = Coins(rec[a].balance)
                      /\ t[a] = h[a] + Coins(rec[a].pledge)
  OBVIOUS
<1>8. rec \in [Addresses -> Records]
  BY DEF IsRecovery
<1> HIDE DEF m, K, B, P, f, p, z, h, t
<1>9. /\ \A a \in B : f[a] \in Int /\ h[a] = z[a] + f[a]
      /\ \A a \in K \ B : h[a] = z[a]
      /\ \A a \in K : z[a] \in Int /\ h[a] \in Int
  <2>1. ASSUME NEW a \in B PROVE f[a] \in Int /\ h[a] = z[a] + f[a] /\ h[a] \in Int
    <3>1. a \in K /\ a \in Addresses /\ rec[a].balance # None
      BY <1>4, <1>5
    <3>2. rec[a].balance \in Nat
      BY <1>8, <3>1, RecordFields
    <3>3. f[a] = rec[a].balance /\ h[a] = rec[a].balance /\ z[a] = 0
      BY <1>7, <3>1 DEF Coins
    <3>4. QED
      BY <3>2, <3>3
  <2>2. ASSUME NEW a \in K \ B PROVE h[a] = z[a] /\ h[a] \in Int
    BY <1>5, <1>7 DEF Coins
  <2>3. \A a \in K : z[a] \in Int
    BY <1>7
  <2>4. QED
    BY <2>1, <2>2, <2>3
<1>10. /\ \A a \in P : p[a] \in Int /\ t[a] = h[a] + p[a]
       /\ \A a \in K \ P : t[a] = h[a]
  <2>1. ASSUME NEW a \in P PROVE p[a] \in Int /\ t[a] = h[a] + p[a]
    <3>1. a \in K /\ a \in Addresses /\ rec[a].pledge # None
      BY <1>4, <1>6
    <3>2. rec[a].pledge \in Nat
      BY <1>8, <3>1, RecordFields
    <3>3. p[a] = rec[a].pledge /\ t[a] = h[a] + rec[a].pledge
      BY <1>7, <3>1 DEF Coins
    <3>4. QED
      BY <3>2, <3>3
  <2>2. ASSUME NEW a \in K \ P PROVE t[a] = h[a]
    <3>1. t[a] = h[a] + 0 /\ h[a] \in Int
      BY <1>6, <1>7, <1>9 DEF Coins
    <3>2. QED
      BY <3>1
  <2>3. QED
    BY <2>1, <2>2
<1>11. SumFunctionOnSet(h, K) = SumFunctionOnSet(z, K) + SumFunctionOnSet(f, B)
  BY <1>3, <1>4, <1>9, SumPart
<1>12. SumFunctionOnSet(t, K) = SumFunctionOnSet(h, K) + SumFunctionOnSet(p, P)
  BY <1>3, <1>4, <1>9, <1>10, SumPart
<1>13. SumFunctionOnSet(z, K) = 0
  BY <1>3, <1>7, SumZero
<1>14. /\ SumFunction(f) = SumFunctionOnSet(f, B) /\ SumFunction(p) = SumFunctionOnSet(p, P)
       /\ SumFunction(t) = SumFunctionOnSet(t, K)
  BY <1>7, SumOfFunction
<1>15. SumFunctionOnSet(f, B) \in Int
  <2>1. IsFiniteSet(B)
    BY <1>3, <1>4, FS_Subset
  <2>2. QED
    BY <1>9, <2>1, SumInt
<1>16. QED
  BY <1>1, <1>2, <1>11, <1>12, <1>13, <1>14, <1>15 DEF m

(* Cutting slow wallets and dropping accounts makes a recovery file of     *)
(* what was parsed, with the coins of the accounts that are left.          *)
LEMMA RecoveryFile ==
  ASSUME NEW record, record \in [Addresses -> Records], HasKeys(record), NEW drops, drops \subseteq Addresses,
         NEW rec, rec = drop_accounts(fix_slow_wallet(record), drops)
  PROVE  /\ IsRecovery(rec)
         /\ \A a \in drops : rec[a] = Dead
         /\ CoinsOf(rec) = CoinsOf(drop_accounts(record, drops))
<1> DEFINE file == drop_accounts(record, drops)
<1>1. ASSUME NEW a \in Addresses
      PROVE  /\ rec[a] \in Records
             /\ rec[a].balance # None /\ rec[a].slow # None => rec[a].slow <= rec[a].balance
             /\ rec[a].role = file[a].role /\ rec[a].auth_key = file[a].auth_key
             /\ rec[a].balance = file[a].balance /\ rec[a].pledge = file[a].pledge
  <2>1. CASE a \in drops
    <3>1. rec[a] = Dead /\ file[a] = Dead
      BY <2>1 DEF drop_accounts
    <3>2. Dead \in Records /\ Dead.balance = None
      BY DEF Dead, Records
    <3>3. QED
      BY <3>1, <3>2
  <2>2. CASE a \notin drops
    <3> DEFINE r == record[a]
    <3>1. r \in Records
      OBVIOUS
    <3>2. file[a] = r
      BY <2>2 DEF drop_accounts
    <3>3. rec[a] = IF r.balance # None /\ r.slow # None /\ r.slow > r.balance
                   THEN [r EXCEPT !.slow = r.balance] ELSE r
      BY <2>2 DEF drop_accounts, fix_slow_wallet
    <3> HIDE DEF r
    <3>4. /\ r.balance # None => r.balance \in Nat
          /\ r.slow # None => r.slow \in Nat
          /\ r.balance \in Nat \cup {None}
      BY <3>1 DEF Records
    <3>5. CASE r.balance # None /\ r.slow # None /\ r.slow > r.balance
      <4> DEFINE q == [r EXCEPT !.slow = r.balance]
      <4>1. rec[a] = q
        BY <3>3, <3>5
      <4>2. q \in Records
        BY <3>1, <3>4 DEF Records
      <4>3. /\ q.slow = r.balance /\ q.role = r.role /\ q.auth_key = r.auth_key
            /\ q.balance = r.balance /\ q.pledge = r.pledge
        BY <3>1 DEF Records
      <4> HIDE DEF q
      <4>4. q.slow <= q.balance
        BY <3>4, <3>5, <4>3
      <4>5. QED
        BY <3>2, <4>1, <4>2, <4>3, <4>4
    <3>6. CASE ~(r.balance # None /\ r.slow # None /\ r.slow > r.balance)
      <4>1. rec[a] = r
        BY <3>3, <3>6
      <4>2. r.balance # None /\ r.slow # None => r.slow <= r.balance
        BY <3>4, <3>6
      <4>3. QED
        BY <3>1, <3>2, <4>1, <4>2
    <3>7. QED
      BY <3>5, <3>6
  <2>3. QED
    BY <2>1, <2>2
<1>2. rec = [a \in Addresses |-> rec[a]]
  BY DEF drop_accounts
<1>3. rec \in [Addresses -> Records]
  BY <1>1, <1>2
<1>4. IsRecovery(rec)
  <2>1. ASSUME NEW a \in Addresses, ~rec[a].auth_key
        PROVE  rec[a].balance = None /\ rec[a].pledge = None
    <3>1. rec[a].auth_key = file[a].auth_key
          /\ rec[a].balance = file[a].balance /\ rec[a].pledge = file[a].pledge
      BY <1>1
    <3>2. CASE a \in drops
      <4>1. file[a] = Dead
        BY <3>2 DEF drop_accounts
      <4>2. QED
        BY <3>1, <4>1 DEF Dead
    <3>3. CASE a \notin drops
      <4>1. file[a] = record[a]
        BY <3>3 DEF drop_accounts
      <4>2. QED
        BY <2>1, <3>1, <4>1, Zenon DEF HasKeys
    <3>4. QED
      BY <3>2, <3>3
  <2>2. QED
    BY <1>1, <1>3, <2>1 DEF IsRecovery, HasKeys
<1>5. \A a \in drops : rec[a] = Dead
  BY DEF drop_accounts
<1>6. CoinsOf(rec) = CoinsOf(file)
  <2> HIDE DEF file
  <2> DEFINE K == {b \in Addresses : rec[b].role # "drop"}
             L == {b \in Addresses : file[b].role # "drop"}
             f == [a \in K |-> Coins(rec[a].balance) + Coins(rec[a].pledge)]
             g == [a \in L |-> Coins(file[a].balance) + Coins(file[a].pledge)]
  <2>1. K = L
    BY <1>1, Zenon
  <2>2. \A a \in K : Coins(rec[a].balance) + Coins(rec[a].pledge)
                        = Coins(file[a].balance) + Coins(file[a].pledge)
    BY <1>1
  <2>3. f = g
    BY <2>1, <2>2
  <2>4. CoinsOf(rec) = SumFunction(f) /\ CoinsOf(file) = SumFunction(g)
    BY DEF CoinsOf
  <2>5. QED
    BY <2>3, <2>4
<1>7. QED
  BY <1>4, <1>5, <1>6

(* What GenesisIsFaithful says of the chain of one blob, with the          *)
(* validators `V`.                                                         *)
IsFaithful(chain, record, drops, V) ==
    LET rec == drop_accounts(fix_slow_wallet(record), drops)
    IN  /\ CoinsIn(chain) = CoinsOf(drop_accounts(record, drops))
        /\ \A a \in DOMAIN chain.unlocked : chain.unlocked[a] <= chain.balance[a]
        /\ chain.tombstone \cap (DOMAIN chain.balance \cup DOMAIN chain.pledge) = {}
        /\ \A w \in DOMAIN chain.donors : chain.donors[w] \cap drops = {}
        /\ AuditErrors(rec, chain) \subseteq V

(* Every file that can be built from gives a faithful chain.               *)
LEMMA EncodingIsFaithful ==
  ASSUME NEW record, record \in [Addresses -> Records], HasKeys(record),
         NEW drops, drops \subseteq Addresses,
         NEW rec, rec = drop_accounts(fix_slow_wallet(record), drops),
         NEW users, Len(users) \in Nat, DOMAIN users = 1 .. Len(users),
         ~EncodePanics(rec, users)
  PROVE  IsFaithful(encode_genesis(rec, users), record, drops, Range(users))
<1> DEFINE m == migrate_all_users(rec)
           c == encode_genesis(rec, users)
           V == Range(users)
<1>1. IsRecovery(rec) /\ (\A a \in drops : rec[a] = Dead)
      /\ CoinsOf(rec) = CoinsOf(drop_accounts(record, drops))
  BY RecoveryFile
<1>2. IsChain(m)
  BY <1>1, MigratedChain
<1>3. CoinsIn(m) = CoinsOf(rec)
  BY <1>1, MigratedCoins
<1>4. Registers(c, m, V)
  BY <1>2, RegisterAll
<1>5. /\ m.balance = [a \in {b \in Addresses : CanMigrate(rec[b])} |-> rec[a].balance]
      /\ m.unlocked = [a \in {b \in Addresses : CanMigrate(rec[b]) /\ rec[b].slow # None} |->
                          rec[a].slow]
      /\ m.pledge = migrate_infra_escrow(rec)
      /\ m.tombstone = {a \in Addresses : rec[a].role = "drop"}
      /\ m.donors = prepare_cw_and_receipts(rec)
  BY DEF migrate_all_users, migrate_slow_wallets
<1>6. \A a \in V \cap Addresses : rec[a].role # "drop"
  BY DEF EncodePanics
<1> HIDE DEF m, c, V
<1>7. CoinsIn(c) = CoinsOf(drop_accounts(record, drops))
  BY <1>1, <1>3, <1>4 DEF Registers
<1>8. \A a \in DOMAIN c.unlocked : c.unlocked[a] <= c.balance[a]
  BY <1>4 DEF Registers, IsChain
<1>9. c.tombstone \cap (DOMAIN c.balance \cup DOMAIN c.pledge) = {}
  <2> SUFFICES ASSUME NEW a \in c.tombstone, a \in DOMAIN c.balance \cup DOMAIN c.pledge
               PROVE  FALSE
    OBVIOUS
  <2>1. a \in Addresses /\ rec[a].role = "drop"
    BY <1>4, <1>5 DEF Registers
  <2>2. a \notin V
    BY <1>6, <2>1
  <2>3. a \in DOMAIN m.balance \/ a \in DOMAIN m.pledge
    BY <1>4, <2>2 DEF Registers
  <2>4. a \notin DOMAIN m.balance
    BY <1>5, <2>1 DEF CanMigrate
  <2>5. a \notin DOMAIN m.pledge
    BY <1>5, <2>1 DEF migrate_infra_escrow
  <2>6. QED
    BY <2>3, <2>4, <2>5
<1>10. \A w \in DOMAIN c.donors : c.donors[w] \cap drops = {}
  <2> SUFFICES ASSUME NEW w \in DOMAIN c.donors, NEW d \in c.donors[w], d \in drops
               PROVE  FALSE
    OBVIOUS
  <2>1. w \in rec[d].receipts
    BY <1>4, <1>5 DEF Registers, prepare_cw_and_receipts
  <2>2. rec[d].receipts = {}
    BY <1>1 DEF Dead
  <2>3. QED
    BY <2>1, <2>2
<1>11. AuditErrors(rec, c) \subseteq V
  <2> SUFFICES ASSUME NEW a \in AuditErrors(rec, c), a \notin V PROVE FALSE
    OBVIOUS
  <2>1. a \in Addresses /\ a \in DOMAIN c.balance
    BY DEF AuditErrors, Audited
  <2>2. \/ c.balance[a] # rec[a].balance
        \/ /\ rec[a].slow # None
           /\ c.unlocked[a] # rec[a].slow \/ c.unlocked[a] > c.balance[a]
    BY DEF AuditErrors
  <2>3. a \in DOMAIN m.balance /\ c.balance[a] = m.balance[a]
    BY <1>4, <2>1 DEF Registers
  <2>4. c.balance[a] = rec[a].balance /\ CanMigrate(rec[a])
    BY <1>5, <2>3
  <2>5. rec[a].slow # None /\ (c.unlocked[a] # rec[a].slow \/ c.unlocked[a] > c.balance[a])
    BY <2>2, <2>4
  <2>6. a \in DOMAIN m.unlocked /\ m.unlocked[a] = rec[a].slow
    BY <1>5, <2>1, <2>4, <2>5
  <2>7. a \in DOMAIN c.unlocked /\ c.unlocked[a] = rec[a].slow
    BY <1>4, <2>6 DEF Registers
  <2>8. c.unlocked[a] \in Nat /\ c.balance[a] \in Nat /\ c.unlocked[a] <= c.balance[a]
    BY <1>4, <2>1, <2>7 DEF Registers, IsChain
  <2>9. QED
    BY <2>5, <2>7, <2>8
<1>12. QED
  BY <1>7, <1>8, <1>9, <1>10, <1>11 DEF IsFaithful, c, V

-----------------------------------------------------------------------------
(* The protocol.                                                           *)

WizardStates == {"off", "fork", "operator", "owner", "pull"}

BuilderStates == {"off", "reading", "hasty", "saved", "hasty saved", "done"}

Files == [owner : Nat \cup {None}, operator : Nat \cup {None}]

(* Files of versions up to `n`, if any.                                    *)
UpTo(f, n) == f.owner \in {None} \cup 0 .. n /\ f.operator \in {None} \cup 0 .. n

(* After the call nothing is left that could change the repository.        *)
RegistrationSound ==
    /\ input \in Inputs /\ called \in BOOLEAN
    /\ version \in [Layout -> Nat] /\ wizard \in [Layout -> WizardStates]
    /\ onFork \in [Layout -> Files] /\ main \in [Layout -> Files]
    /\ \A v \in Layout : UpTo(onFork[v], version[v]) /\ UpTo(main[v], version[v])
    /\ \A v \in done : v \in Layout /\ wizard[v] = "off"
    /\ called => done = Layout /\ pulls = {}

(* The validators of a block are a sequence, as the users are.             *)
LEMMA OwnersSequence ==
  ASSUME NEW configs
  PROVE  Len(Owners(configs)) \in Nat /\ DOMAIN Owners(configs) = 1 .. Len(Owners(configs))
<1> DEFINE n == Len(Users)
           vals == Owners(configs)
           T == {Account[Users[i]][configs[Users[i]].owner] : i \in 1 .. n}
<1>1. n \in Nat /\ DOMAIN Users = 1 .. n
  BY CeremonyAssumption
<1>2. vals \in [1 .. n -> T]
  BY <1>1 DEF Owners
<1> HIDE DEF vals, T, n
<1>3. vals \in Seq(T)
  BY <1>1, <1>2, SeqDef
<1>4. QED
  BY <1>3 DEF vals

(* A build: in state `s`, with `g` read, the blob `x` and the waypoint `w`. *)
(* One that began after the call has read the repository as it still is.   *)
BuildOK(s, g, x, w, ver, mn, cl, rec) ==
    /\ \A u \in Layout : UpTo(g[u], ver[u])
    /\ s = "reading" =>
          cl /\ \A u \in Layout : /\ g[u].owner \in {None, mn[u].owner}
                                  /\ g[u].operator \in {None, mn[u].operator}
    /\ s \in {"saved", "done"} => cl /\ x = [configs |-> mn,
                                             chain |-> encode_genesis(rec, Owners(mn))]
    /\ s = "done" => w = x
    /\ x # None => /\ ~EncodePanics(rec, Owners(x.configs))
                   /\ x.chain = encode_genesis(rec, Owners(x.configs))
                   /\ \A u \in Layout :
                        /\ x.configs[u].owner \in 0 .. ver[u]
                        /\ x.configs[u].operator \in 0 .. ver[u]
                        /\ Account[u][x.configs[u].owner] = Account[u][x.configs[u].operator]

BuildsSound ==
    /\ builder \in [Layout -> BuilderStates] /\ got \in [Layout -> [Layout -> Files]]
    /\ DOMAIN blob = Layout /\ DOMAIN waypoint = Layout
    /\ \A b \in Layout :
          BuildOK(builder[b], got[b], blob[b], waypoint[b], version, main, called, Recovery)

CeremonyInv == RegistrationSound /\ BuildsSound

(* Init.                                                                   *)
LEMMA CeremonyInit == Init => CeremonyInv
<1> SUFFICES ASSUME Init PROVE CeremonyInv
  OBVIOUS
<1>1. NoFiles \in Files /\ \A n \in Nat : UpTo(NoFiles, n)
  BY DEF NoFiles, Files, UpTo
<1>2. RegistrationSound
  BY <1>1 DEF Init, RegistrationSound, WizardStates
<1>3. NoReads \in [Layout -> Files] /\ \A u \in Layout : NoReads[u] = NoFiles
  BY <1>1 DEF NoReads
<1>4. ASSUME NEW b \in Layout
      PROVE  BuildOK(builder[b], got[b], blob[b], waypoint[b], version, main, called, Recovery)
  <2>1. builder[b] = "off" /\ got[b] = NoReads /\ blob[b] = None
    BY DEF Init
  <2>2. \A u \in Layout : version[u] \in Nat
    BY DEF Init
  <2>3. \A u \in Layout : UpTo(NoReads[u], version[u])
    BY <1>1, <1>3, <2>2
  <2>4. QED
    BY <2>1, <2>3 DEF BuildOK
<1>5. BuildsSound
  BY <1>3, <1>4 DEF Init, BuildsSound, BuilderStates
<1>6. QED
  BY <1>2, <1>5 DEF CeremonyInv

(* Registration does not disturb a build: versions only grow, and once     *)
(* called the repository stays as it is.                                   *)
LEMMA BuildsLast ==
  ASSUME NEW s, NEW g, NEW x, NEW w, NEW ver, NEW ver2, NEW mn, NEW mn2, NEW cl, NEW cl2,
         NEW rec, BuildOK(s, g, x, w, ver, mn, cl, rec),
         \A u \in Layout : ver[u] \in Nat /\ ver2[u] \in Nat /\ ver[u] <= ver2[u],
         cl => cl2 /\ mn2 = mn
  PROVE  BuildOK(s, g, x, w, ver2, mn2, cl2, rec)
<1>1. \A u \in Layout : 0 .. ver[u] \subseteq 0 .. ver2[u]
  OBVIOUS
<1>2. \A u \in Layout : UpTo(g[u], ver2[u])
  BY <1>1 DEF BuildOK, UpTo
<1>3. s = "reading" =>
         cl2 /\ \A u \in Layout : /\ g[u].owner \in {None, mn2[u].owner}
                                  /\ g[u].operator \in {None, mn2[u].operator}
  BY DEF BuildOK
<1>4. s \in {"saved", "done"} => cl2 /\ x = [configs |-> mn2,
                                             chain |-> encode_genesis(rec, Owners(mn2))]
  BY DEF BuildOK
<1>5. x # None => \A u \in Layout : /\ x.configs[u].owner \in 0 .. ver2[u]
                                    /\ x.configs[u].operator \in 0 .. ver2[u]
  BY <1>1 DEF BuildOK
<1>6. QED
  BY <1>2, <1>3, <1>4, <1>5 DEF BuildOK

(* The steps that change what is registered.                               *)
Registration ==
    \/ \E v \in Layout : \/ StartWizard(v) \/ Register(v) \/ WizardFails(v)
                         \/ ForkReady(v) \/ Merge(v)
    \/ Call

LEMMA RegistrationStep ==
  ASSUME RegistrationSound, Registration
  PROVE  /\ RegistrationSound'
         /\ \A u \in Layout : version'[u] \in Nat /\ version[u] <= version'[u]
         /\ called => called' /\ main' = main
         /\ UNCHANGED <<input, buildVars>>
<1>1. /\ input \in Inputs /\ called \in BOOLEAN
      /\ version \in [Layout -> Nat] /\ wizard \in [Layout -> WizardStates]
      /\ onFork \in [Layout -> Files] /\ main \in [Layout -> Files]
      /\ \A v \in Layout : UpTo(onFork[v], version[v]) /\ UpTo(main[v], version[v])
      /\ \A v \in done : v \in Layout /\ wizard[v] = "off"
      /\ called => done = Layout /\ pulls = {}
  BY DEF RegistrationSound
<1>2. ASSUME NEW v \in Layout, StartWizard(v)
      PROVE  /\ RegistrationSound'
             /\ \A u \in Layout : version'[u] \in Nat /\ version[u] <= version'[u]
             /\ called => called' /\ main' = main
             /\ UNCHANGED <<input, buildVars>>
  <2>1. /\ ~called /\ done' = done \ {v}
        /\ wizard' = [wizard EXCEPT ![v] = "fork"]
        /\ UNCHANGED <<input, onFork, pulls, main, called, buildVars>>
    BY <1>2 DEF StartWizard
  <2>2. PICK new \in {version[v], version[v] + 1} : version' = [version EXCEPT ![v] = new]
    BY <1>2 DEF StartWizard
  <2>3. new \in Nat /\ version[v] <= new
    BY <1>1
  <2>4. /\ version' \in [Layout -> Nat]
        /\ \A u \in Layout : version'[u] \in Nat /\ version[u] \in Nat /\ version[u] <= version'[u]
    BY <1>1, <2>2, <2>3
  <2>5. \A u \in Layout : UpTo(onFork[u], version'[u]) /\ UpTo(main[u], version'[u])
    <3>1. \A u \in Layout : 0 .. version[u] \subseteq 0 .. version'[u]
      BY <2>4
    <3>2. QED
      BY <1>1, <3>1 DEF UpTo
  <2>6. wizard' \in [Layout -> WizardStates] /\ \A u \in done' : u \in Layout /\ wizard'[u] = "off"
    BY <1>1, <2>1 DEF WizardStates
  <2>7. QED
    BY <1>1, <2>1, <2>4, <2>5, <2>6 DEF RegistrationSound
<1>3. ASSUME NEW v \in Layout, wizard[v] # "off", wizard' \in [Layout -> WizardStates],
             \A u \in Layout \ {v} : wizard'[u] = wizard[u],
             done' = done \/ (done' = done \cup {v} /\ wizard'[v] = "off"),
             onFork' \in [Layout -> Files], \A u \in Layout : UpTo(onFork'[u], version[u]),
             UNCHANGED <<input, version, main, called, buildVars>>
      PROVE  /\ RegistrationSound'
             /\ \A u \in Layout : version'[u] \in Nat /\ version[u] <= version'[u]
             /\ called => called' /\ main' = main
             /\ UNCHANGED <<input, buildVars>>
  <2>1. v \notin done /\ ~called
    BY <1>1, <1>3
  <2>2. \A u \in done' : u \in Layout /\ wizard'[u] = "off"
    BY <1>1, <1>3, <2>1
  <2>3. QED
    BY <1>1, <1>3, <2>1, <2>2 DEF RegistrationSound
<1>4. ASSUME NEW v \in Layout, Register(v) \/ WizardFails(v)
      PROVE  /\ wizard[v] # "off" /\ wizard' \in [Layout -> WizardStates]
             /\ \A u \in Layout \ {v} : wizard'[u] = wizard[u]
             /\ done' = done \/ (done' = done \cup {v} /\ wizard'[v] = "off")
             /\ onFork' \in [Layout -> Files] /\ \A u \in Layout : UpTo(onFork'[u], version[u])
             /\ UNCHANGED <<input, version, main, called, buildVars>>
  <2>1. CASE GitSetup(v)
    BY <1>1, <2>1 DEF WizardStates, GitSetup
  <2>2. ASSUME NEW name \in {"operator", "owner"}, NEW next \in WizardStates, PutFile(v, name, next)
        PROVE  /\ wizard[v] # "off" /\ wizard' \in [Layout -> WizardStates]
               /\ \A u \in Layout \ {v} : wizard'[u] = wizard[u]
               /\ done' = done
               /\ onFork' \in [Layout -> Files] /\ \A u \in Layout : UpTo(onFork'[u], version[u])
               /\ UNCHANGED <<input, version, main, called, buildVars>>
    <3>1. /\ wizard[v] = name /\ onFork' = [onFork EXCEPT ![v][name] = version[v]]
          /\ wizard' = [wizard EXCEPT ![v] = next] /\ done' = done
          /\ UNCHANGED <<input, version, main, called, buildVars>>
      BY <2>2 DEF PutFile
    <3> DEFINE f == onFork[v]
               n == version[v]
               h == [f EXCEPT ![name] = n]
    <3>2. f \in Files /\ n \in Nat /\ UpTo(f, n)
      BY <1>1
    <3>3. onFork' = [onFork EXCEPT ![v] = h]
      BY <1>1, <3>1
    <3> HIDE DEF f, n
    <3>4. h \in Files /\ UpTo(h, n)
      BY <3>2 DEF Files, UpTo
    <3> HIDE DEF h
    <3>5. onFork' \in [Layout -> Files] /\ \A u \in Layout : UpTo(onFork'[u], version[u])
      BY <1>1, <3>3, <3>4 DEF n
    <3>6. wizard[v] # "off" /\ wizard' \in [Layout -> WizardStates]
          /\ \A u \in Layout \ {v} : wizard'[u] = wizard[u]
      BY <1>1, <3>1
    <3>7. QED
      BY <3>1, <3>5, <3>6
  <2>3. CASE PutFile(v, "operator", "owner")
    BY <2>2, <2>3 DEF WizardStates
  <2>4. CASE PutFile(v, "owner", "pull")
    BY <2>2, <2>4 DEF WizardStates
  <2>5. CASE ForkTooSlow(v)
    BY <1>1, <2>5 DEF WizardStates, ForkTooSlow
  <2>6. CASE MakePullRequest(v)
    BY <1>1, <2>6 DEF WizardStates, MakePullRequest
  <2>7. CASE WizardFails(v)
    BY <1>1, <2>7 DEF WizardStates, WizardFails
  <2>8. QED
    BY <1>4, <2>1, <2>3, <2>4, <2>5, <2>6, <2>7 DEF Register
<1>5. ASSUME NEW v \in Layout, ForkReady(v)
      PROVE  /\ RegistrationSound'
             /\ \A u \in Layout : version'[u] \in Nat /\ version[u] <= version'[u]
             /\ called => called' /\ main' = main
             /\ UNCHANGED <<input, buildVars>>
  <2>1. UNCHANGED <<input, version, wizard, done, onFork, pulls, main, called, buildVars>>
    BY <1>5 DEF ForkReady
  <2>2. QED
    BY <1>1, <2>1 DEF RegistrationSound
<1>6. ASSUME NEW v \in Layout, Merge(v)
      PROVE  /\ RegistrationSound'
             /\ \A u \in Layout : version'[u] \in Nat /\ version[u] <= version'[u]
             /\ called => called' /\ main' = main
             /\ UNCHANGED <<input, buildVars>>
  <2>1. /\ v \in pulls /\ main' = [main EXCEPT ![v] = onFork[v]]
        /\ UNCHANGED <<input, version, wizard, done, onFork, called, buildVars>>
    BY <1>6 DEF Merge
  <2>2. ~called
    BY <1>1, <2>1
  <2>3. main' \in [Layout -> Files] /\ \A u \in Layout : UpTo(main'[u], version[u])
    BY <1>1, <2>1
  <2>4. QED
    BY <1>1, <2>1, <2>2, <2>3 DEF RegistrationSound
<1>7. CASE Call
  <2>1. /\ ~called /\ done = Layout /\ pulls = {} /\ called' = TRUE
        /\ UNCHANGED <<input, version, wizard, done, onFork, pulls, main, buildVars>>
    BY <1>7 DEF Call, regVars
  <2>2. QED
    BY <1>1, <2>1 DEF RegistrationSound
<1>8. QED
  <2>1. CASE Call
    BY <1>7, <2>1
  <2>2. ASSUME NEW v \in Layout, StartWizard(v) \/ Register(v) \/ WizardFails(v)
                                 \/ ForkReady(v) \/ Merge(v)
        PROVE  /\ RegistrationSound'
               /\ \A u \in Layout : version'[u] \in Nat /\ version[u] <= version'[u]
               /\ called => called' /\ main' = main
               /\ UNCHANGED <<input, buildVars>>
    <3>1. CASE Register(v) \/ WizardFails(v)
      <4>1. /\ wizard[v] # "off" /\ wizard' \in [Layout -> WizardStates]
            /\ \A u \in Layout \ {v} : wizard'[u] = wizard[u]
            /\ done' = done \/ (done' = done \cup {v} /\ wizard'[v] = "off")
            /\ onFork' \in [Layout -> Files] /\ \A u \in Layout : UpTo(onFork'[u], version[u])
            /\ UNCHANGED <<input, version, main, called, buildVars>>
        BY <1>4, <3>1
      <4>2. QED
        BY <1>3, <4>1
    <3>2. QED
      BY <1>2, <1>5, <1>6, <2>2, <3>1
  <2>3. QED
    BY <2>1, <2>2 DEF Registration

(* A step of one build.                                                    *)
LEMMA OneBuild ==
  ASSUME CeremonyInv, NEW b \in Layout, UNCHANGED <<input, regVars, main, called>>,
         builder' \in [Layout -> BuilderStates], got' \in [Layout -> [Layout -> Files]],
         DOMAIN blob' = Layout, DOMAIN waypoint' = Layout,
         \A c \in Layout \ {b} : /\ builder'[c] = builder[c] /\ got'[c] = got[c]
                                 /\ blob'[c] = blob[c] /\ waypoint'[c] = waypoint[c],
         BuildOK(builder'[b], got'[b], blob'[b], waypoint'[b], version, main, called, Recovery)
  PROVE  CeremonyInv'
<1>1. /\ version' = version /\ main' = main /\ called' = called /\ input' = input
      /\ wizard' = wizard /\ onFork' = onFork /\ done' = done /\ pulls' = pulls
  BY DEF regVars
<1>2. Recovery' = Recovery
  BY <1>1 DEF Recovery
<1>3. RegistrationSound'
  BY <1>1 DEF CeremonyInv, RegistrationSound
<1>4. ASSUME NEW c \in Layout
      PROVE  BuildOK(builder'[c], got'[c], blob'[c], waypoint'[c], version, main, called, Recovery)
  <2>1. BuildOK(builder[c], got[c], blob[c], waypoint[c], version, main, called, Recovery)
    BY DEF CeremonyInv, BuildsSound
  <2>2. CASE c = b
    BY <2>2
  <2>3. CASE c # b
    BY <2>1, <2>3
  <2>4. QED
    BY <2>2, <2>3
<1>5. ASSUME NEW c \in Layout
      PROVE  BuildOK(builder'[c], got'[c], blob'[c], waypoint'[c], version', main', called', Recovery')
  BY <1>1, <1>2, <1>4
<1>6. BuildsSound'
  BY <1>5 DEF BuildsSound
<1>7. QED
  BY <1>3, <1>6 DEF CeremonyInv

(* A build that is given up, or has not begun.                             *)
LEMMA BuildOff ==
  ASSUME NEW s \in {"off", "hasty", "hasty saved"}, NEW t, NEW g, NEW x, NEW w, NEW h,
         NEW ver, NEW mn, NEW cl, NEW rec, BuildOK(t, h, x, w, ver, mn, cl, rec),
         \A u \in Layout : UpTo(g[u], ver[u])
  PROVE  BuildOK(s, g, x, w, ver, mn, cl, rec)
  BY DEF BuildOK

LEMMA BuildStep ==
  ASSUME CeremonyInv, NEW b \in Layout, StartBuild(b) \/ Build(b) \/ BuildFails(b)
  PROVE  CeremonyInv'
<1> DEFINE s == builder[b]
           g == got[b]
           x == blob[b]
           w == waypoint[b]
           OK(ss, gg, xx, ww) == BuildOK(ss, gg, xx, ww, version, main, called, Recovery)
<1>1. /\ builder \in [Layout -> BuilderStates] /\ got \in [Layout -> [Layout -> Files]]
      /\ DOMAIN blob = Layout /\ DOMAIN waypoint = Layout
      /\ OK(s, g, x, w)
  BY DEF CeremonyInv, BuildsSound
<1>2. /\ version \in [Layout -> Nat] /\ main \in [Layout -> Files]
      /\ \A u \in Layout : UpTo(main[u], version[u])
  BY DEF CeremonyInv, RegistrationSound
<1>3. /\ NoReads \in [Layout -> Files]
      /\ \A u \in Layout : /\ NoReads[u].owner = None /\ NoReads[u].operator = None
                           /\ UpTo(NoReads[u], version[u])
  BY DEF NoReads, NoFiles, Files, UpTo
<1>4. g \in [Layout -> Files] /\ s \in BuilderStates /\ \A u \in Layout : UpTo(g[u], version[u])
  BY <1>1 DEF BuildOK
<1>5. CASE StartBuild(b)
  <2> DEFINE s2 == IF called THEN "reading" ELSE "hasty"
  <2>1. /\ builder' = [builder EXCEPT ![b] = s2] /\ got' = [got EXCEPT ![b] = NoReads]
        /\ UNCHANGED <<input, regVars, main, called, blob, waypoint>>
    BY <1>5 DEF StartBuild
  <2>2. OK(s2, NoReads, x, w)
    <3>1. CASE called
      BY <1>1, <1>3, <3>1 DEF BuildOK
    <3>2. CASE ~called
      BY <1>1, <1>3, <3>2, BuildOff
    <3>3. QED
      BY <3>1, <3>2
  <2>3. s2 \in BuilderStates
    BY DEF BuilderStates
  <2> HIDE DEF s2
  <2>4. /\ builder'[b] = s2 /\ got'[b] = NoReads /\ blob'[b] = x /\ waypoint'[b] = w
        /\ builder' \in [Layout -> BuilderStates] /\ got' \in [Layout -> [Layout -> Files]]
    BY <1>1, <1>3, <2>1, <2>3
  <2>5. QED
    BY <1>1, <2>1, <2>2, <2>4, OneBuild
<1>6. ASSUME NEW u \in Layout, NEW name \in {"owner", "operator"}, ReadFile(b, u, name)
      PROVE  CeremonyInv'
  <2> DEFINE f == g[u]
             h == [f EXCEPT ![name] = main[u][name]]
             g2 == [g EXCEPT ![u] = h]
  <2>1. /\ s \in {"reading", "hasty"} /\ got' = [got EXCEPT ![b][u][name] = main[u][name]]
        /\ UNCHANGED <<input, regVars, main, called, builder, blob, waypoint>>
    BY <1>6 DEF ReadFile, Reading
  <2>2. got' = [got EXCEPT ![b] = g2]
    BY <1>1, <2>1
  <2>3. f \in Files /\ main[u] \in Files /\ UpTo(f, version[u]) /\ UpTo(main[u], version[u])
    BY <1>2, <1>4
  <2> HIDE DEF f
  <2>4. /\ h \in Files /\ UpTo(h, version[u])
        /\ h.owner = f.owner \/ h.owner = main[u].owner
        /\ h.operator = f.operator \/ h.operator = main[u].operator
    BY <2>3 DEF Files, UpTo
  <2>5. s = "reading" =>
           called /\ \A v \in Layout : /\ g[v].owner \in {None, main[v].owner}
                                       /\ g[v].operator \in {None, main[v].operator}
    BY <1>1 DEF BuildOK
  <2> HIDE DEF h
  <2>6. /\ g2 \in [Layout -> Files] /\ \A v \in Layout : UpTo(g2[v], version[v])
        /\ g2[u] = h /\ \A v \in Layout \ {u} : g2[v] = g[v]
    BY <1>4, <2>4
  <2> HIDE DEF g2
  <2>7. s = "reading" =>
           called /\ \A v \in Layout : /\ g2[v].owner \in {None, main[v].owner}
                                       /\ g2[v].operator \in {None, main[v].operator}
    BY <2>4, <2>5, <2>6 DEF f
  <2>8. OK(s, g2, x, w)
    BY <1>1, <2>1, <2>6, <2>7 DEF BuildOK
  <2>9. /\ builder'[b] = s /\ got'[b] = g2 /\ blob'[b] = x /\ waypoint'[b] = w
        /\ builder' \in [Layout -> BuilderStates] /\ got' \in [Layout -> [Layout -> Files]]
        /\ \A c \in Layout \ {b} : got'[c] = got[c]
    BY <1>1, <2>1, <2>2, <2>6
  <2>10. QED
    BY <1>1, <2>1, <2>8, <2>9, OneBuild
<1>7. CASE BuildBails(b) \/ BuildPanics(b)
  <2>1. /\ builder' = [builder EXCEPT ![b] = "off"]
        /\ UNCHANGED <<input, regVars, main, called, got, blob, waypoint>>
    BY <1>7 DEF BuildBails, BuildPanics
  <2>2. OK("off", g, x, w)
    BY <1>1, <1>4, BuildOff
  <2>3. /\ builder'[b] = "off" /\ got'[b] = g /\ blob'[b] = x /\ waypoint'[b] = w
        /\ builder' \in [Layout -> BuilderStates]
    BY <1>1, <2>1 DEF BuilderStates
  <2>4. QED
    BY <1>1, <2>1, <2>2, <2>3, OneBuild
<1>8. CASE SaveBlob(b)
  <2> DEFINE x2 == [configs |-> g, chain |-> encode_genesis(Recovery, Owners(g))]
             s2 == IF s = "hasty" THEN "hasty saved" ELSE "saved"
  <2>1. /\ s \in {"reading", "hasty"} /\ AllRead(b) /\ ~EncodePanics(Recovery, Owners(g))
        /\ blob' = [blob EXCEPT ![b] = x2] /\ builder' = [builder EXCEPT ![b] = s2]
        /\ got' = [got EXCEPT ![b] = NoReads]
        /\ UNCHANGED <<input, regVars, main, called, waypoint>>
    BY <1>1, <1>8 DEF SaveBlob, Reading
  <2>2. \A u \in Layout : /\ g[u].owner # None /\ g[u].operator # None
                          /\ Account[u][g[u].owner] = Account[u][g[u].operator]
    BY <2>1 DEF AllRead, HasConfig, HasBoth
  <2>3. \A u \in Layout : g[u].owner \in 0 .. version[u] /\ g[u].operator \in 0 .. version[u]
    BY <1>4, <2>2 DEF UpTo
  <2>4. s = "reading" => called /\ g = main
    <3> SUFFICES ASSUME s = "reading" PROVE called /\ g = main
      OBVIOUS
    <3>1. called /\ \A u \in Layout : g[u].owner = main[u].owner /\ g[u].operator = main[u].operator
      BY <1>1, <2>2 DEF BuildOK
    <3>2. ASSUME NEW u \in Layout PROVE g[u] = main[u]
      <4>1. g[u] \in Files /\ main[u] \in Files
        BY <1>2, <1>4
      <4>2. QED
        BY <3>1, <4>1 DEF Files
    <3>3. QED
      BY <1>2, <1>4, <3>1, <3>2
  <2>5. x2.configs = g /\ x2.chain = encode_genesis(Recovery, Owners(g))
    OBVIOUS
  <2>6. s = "reading" => x2 = [configs |-> main, chain |-> encode_genesis(Recovery, Owners(main))]
    BY <2>4
  <2> HIDE DEF x2
  <2>7. OK(s2, NoReads, x2, w)
    BY <1>3, <2>1, <2>2, <2>3, <2>4, <2>5, <2>6 DEF BuildOK
  <2>8. s2 \in BuilderStates
    BY DEF BuilderStates
  <2> HIDE DEF s2
  <2>9. /\ builder'[b] = s2 /\ got'[b] = NoReads /\ blob'[b] = x2 /\ waypoint'[b] = w
        /\ builder' \in [Layout -> BuilderStates] /\ got' \in [Layout -> [Layout -> Files]]
        /\ DOMAIN blob' = Layout
    BY <1>1, <1>3, <2>1, <2>8
  <2>10. QED
    BY <1>1, <2>1, <2>7, <2>9, OneBuild
<1>9. CASE SaveWaypoint(b)
  <2> DEFINE s2 == IF AuditPanics(Recovery, x.chain) \/ s = "hasty saved" THEN "off" ELSE "done"
  <2>1. /\ s \in {"saved", "hasty saved"} /\ waypoint' = [waypoint EXCEPT ![b] = x]
        /\ builder' = [builder EXCEPT ![b] = s2]
        /\ UNCHANGED <<input, regVars, main, called, got, blob>>
    BY <1>1, <1>9 DEF SaveWaypoint
  <2>2. s2 = "off" \/ (s2 = "done" /\ s = "saved")
    BY <2>1
  <2>3. s2 \in BuilderStates
    BY <2>2 DEF BuilderStates
  <2> HIDE DEF s2
  <2>4. OK(s2, g, x, x)
    BY <1>1, <1>4, <2>2 DEF BuildOK
  <2>5. /\ builder'[b] = s2 /\ got'[b] = g /\ blob'[b] = x /\ waypoint'[b] = x
        /\ builder' \in [Layout -> BuilderStates] /\ DOMAIN waypoint' = Layout
    BY <1>1, <2>1, <2>3
  <2>6. QED
    BY <1>1, <2>1, <2>4, <2>5, OneBuild
<1>10. CASE BuildFails(b)
  <2>1. /\ builder' = [builder EXCEPT ![b] = "off"] /\ got' = [got EXCEPT ![b] = NoReads]
        /\ UNCHANGED <<input, regVars, main, called, blob, waypoint>>
    BY <1>10 DEF BuildFails
  <2>2. OK("off", NoReads, x, w)
    BY <1>1, <1>3, BuildOff
  <2>3. /\ builder'[b] = "off" /\ got'[b] = NoReads /\ blob'[b] = x /\ waypoint'[b] = w
        /\ builder' \in [Layout -> BuilderStates] /\ got' \in [Layout -> [Layout -> Files]]
    BY <1>1, <1>3, <2>1 DEF BuilderStates
  <2>4. QED
    BY <1>1, <2>1, <2>2, <2>3, OneBuild
<1>11. QED
  BY <1>5, <1>6, <1>7, <1>8, <1>9, <1>10 DEF Build

(* Every step.                                                             *)
LEMMA CeremonyNext ==
  ASSUME CeremonyInv, [Next]_vars
  PROVE  CeremonyInv'
<1>1. CASE Registration
  <2>1. /\ RegistrationSound'
        /\ \A u \in Layout : version'[u] \in Nat /\ version[u] <= version'[u]
        /\ called => called' /\ main' = main
        /\ UNCHANGED <<input, buildVars>>
    BY <1>1, RegistrationStep DEF CeremonyInv
  <2>2. /\ input' = input /\ builder' = builder /\ got' = got /\ blob' = blob
        /\ waypoint' = waypoint
    BY <2>1 DEF buildVars
  <2>3. Recovery' = Recovery
    BY <2>2 DEF Recovery
  <2>4. \A u \in Layout : version[u] \in Nat
    BY DEF CeremonyInv, RegistrationSound
  <2>5. ASSUME NEW b \in Layout
        PROVE  BuildOK(builder[b], got[b], blob[b], waypoint[b], version', main', called', Recovery)
    <3>1. BuildOK(builder[b], got[b], blob[b], waypoint[b], version, main, called, Recovery)
      BY DEF CeremonyInv, BuildsSound
    <3>2. QED
      BY <2>1, <2>4, <3>1, BuildsLast
  <2>6. ASSUME NEW b \in Layout
        PROVE  BuildOK(builder'[b], got'[b], blob'[b], waypoint'[b], version', main', called', Recovery')
    BY <2>2, <2>3, <2>5
  <2>7. BuildsSound'
    BY <2>2, <2>6 DEF CeremonyInv, BuildsSound
  <2>8. QED
    BY <2>1, <2>7 DEF CeremonyInv
<1>2. CASE \E b \in Layout : StartBuild(b) \/ Build(b) \/ BuildFails(b)
  BY <1>2, BuildStep
<1>3. CASE UNCHANGED vars
  <2>1. /\ input' = input /\ version' = version /\ wizard' = wizard /\ done' = done
        /\ onFork' = onFork /\ pulls' = pulls /\ main' = main /\ called' = called
        /\ builder' = builder /\ got' = got /\ blob' = blob /\ waypoint' = waypoint
    BY <1>3 DEF vars, regVars, buildVars
  <2>2. Recovery' = Recovery
    BY <2>1 DEF Recovery
  <2>3. RegistrationSound'
    BY <2>1 DEF CeremonyInv, RegistrationSound
  <2>4. BuildsSound'
    BY <2>1, <2>2 DEF CeremonyInv, BuildsSound
  <2>5. QED
    BY <2>3, <2>4 DEF CeremonyInv
<1>4. QED
  BY <1>1, <1>2, <1>3 DEF Next, Registration, Over

-----------------------------------------------------------------------------
(* Theorems.                                                               *)

(* Whatever fails and is retried (wizard.rs, genesis_builder.rs): after    *)
(* the call the repository does not change, a build that began after it    *)
(* has read that repository and nothing else, and every blob has all files *)
(* and the chain of the recovery file.                                     *)
THEOREM CeremonyInvariant == Spec => []CeremonyInv
  BY CeremonyInit, CeremonyNext, PTL DEF Spec

(* get_config refuses a registration that was merged between its commits   *)
(* or read while it was merged: a blob on disk has for every user two      *)
(* files that the user had, of the same account.                           *)
THEOREM BlobsAlwaysComplete == Spec => []BlobsAreComplete
<1>1. CeremonyInv => BlobsAreComplete
  BY DEF CeremonyInv, BuildsSound, BuildOK, BlobsAreComplete
<1>2. QED
  BY <1>1, CeremonyInvariant, PTL

(* Validators who built after the call start from the same block, and have *)
(* its waypoint.                                                           *)
THEOREM BlobsAlwaysAgree == Spec => []BlobsAgree
<1>1. CeremonyInv => BlobsAgree
  <2> SUFFICES ASSUME CeremonyInv, NEW b \in Layout, NEW c \in Layout,
                      builder[b] = "done", builder[c] = "done"
               PROVE  blob[b] = blob[c] /\ waypoint[b] = blob[b]
    BY DEF BlobsAgree
  <2>1. blob[b] = [configs |-> main, chain |-> encode_genesis(Recovery, Owners(main))]
        /\ waypoint[b] = blob[b]
    BY DEF CeremonyInv, BuildsSound, BuildOK
  <2>2. blob[c] = [configs |-> main, chain |-> encode_genesis(Recovery, Owners(main))]
    BY DEF CeremonyInv, BuildsSound, BuildOK
  <2>3. QED
    BY <2>1, <2>2
<1>2. QED
  BY <1>1, CeremonyInvariant, PTL

(* The block holds the coins of the recovery file (parse_json.rs,          *)
(* genesis_functions.rs, vm.rs), nothing of dropped accounts, and no slow  *)
(* wallet with more unlocked than it has: for every file, every layout and *)
(* every size of the escrow.                                               *)
THEOREM GenesisAlwaysFaithful == Spec => []GenesisIsFaithful
<1>1. CeremonyInv => GenesisIsFaithful
  <2> SUFFICES ASSUME CeremonyInv, NEW b \in Layout, blob[b] # None
               PROVE  LET chain == blob[b].chain
                          file  == drop_accounts(input.record, input.drops)
                      IN  /\ CoinsIn(chain) = CoinsOf(file)
                          /\ \A a \in DOMAIN chain.unlocked :
                                chain.unlocked[a] <= chain.balance[a]
                          /\ chain.tombstone
                                \cap (DOMAIN chain.balance \cup DOMAIN chain.pledge) = {}
                          /\ \A w \in DOMAIN chain.donors : chain.donors[w] \cap input.drops = {}
                          /\ \/ AuditPanics(Recovery, chain)
                             \/ AuditErrors(Recovery, chain)
                                   \subseteq Range(Owners(blob[b].configs))
    BY DEF GenesisIsFaithful
  <2> DEFINE vals == Owners(blob[b].configs)
  <2>1. /\ input.record \in [Addresses -> Records] /\ input.drops \subseteq Addresses
        /\ HasKeys(input.record)
    <3>1. input \in Inputs
      BY DEF CeremonyInv, RegistrationSound
    <3>2. \A a \in Addresses : ~input.record[a].auth_key =>
             input.record[a].balance = None /\ input.record[a].pledge = None
      BY ONLY <3>1, ExportAssumption, Zenon
    <3>3. QED
      BY <3>1, <3>2, CeremonyAssumption DEF HasKeys
  <2>2. ~EncodePanics(Recovery, vals) /\ blob[b].chain = encode_genesis(Recovery, vals)
    BY DEF CeremonyInv, BuildsSound, BuildOK
  <2>3. Len(vals) \in Nat /\ DOMAIN vals = 1 .. Len(vals)
    BY OwnersSequence
  <2> HIDE DEF vals
  <2>4. IsFaithful(blob[b].chain, input.record, input.drops, Range(vals))
    BY <2>1, <2>2, <2>3, EncodingIsFaithful DEF Recovery
  <2>5. QED
    BY <2>4 DEF IsFaithful, Recovery, vals
<1>2. QED
  BY <1>1, CeremonyInvariant, PTL
=============================================================================

---------------------------- MODULE StoresProofs ----------------------------
(***************************************************************************)
(* What MCStores checks of the stores, proved for every value of the        *)
(* constants: each component has an invariant of its own, over a record c   *)
(* of its constants, that holds initially and that every step keeps; the    *)
(* theorems about MCSpec take the component's invariant for its part.       *)
(***************************************************************************)
EXTENDS MCStores, TLAPS, FiniteSetTheorems

----------------------------------------------------------------------------
\* MemoryCache

CachedEntry(c) == [key : c.keys, raw : BOOLEAN, expires : Nat, since : 0..c.time, ttl : c.ttls]
CachedRequest(c) ==
    [pc : {"transport", "fetches", "responds", "done"}, key : c.keys, raw : BOOLEAN, hit : BOOLEAN,
     response : Memories(c)!Response \cup {None}]

(* An entry expires its lifetime after it was stored, by whatever request:  *)
(* only what is no hit is stored, and that comes from the network now.      *)
MemoryInv(c) ==
    /\ request \in [c.requests -> CachedRequest(c)] /\ now \in 0..c.time
    /\ entries \in Seq(CachedEntry(c)) /\ Len(entries) <= c.entries
    /\ \A i, j \in 1..Len(entries) : entries[i].key = entries[j].key => i = j
    /\ \A i \in 1..Len(entries) : entries[i].expires = entries[i].since + entries[i].ttl
    /\ \A r \in c.requests :
          LET p == request[r].response
          IN  /\ request[r].pc = "responds" =>
                    p \in Memories(c)!Response /\ (request[r].hit \/ (p.since = None /\ p.ttl = None))
              /\ p # None /\ p.since # None => p.at < p.since + p.ttl

\* The entries but that of k, in their order and each once.
Without(c, k, left) ==
    /\ left \in Seq(CachedEntry(c)) /\ Len(left) \in Nat /\ Len(left) <= Len(entries)
    /\ (\E x \in 1..Len(entries) : entries[x].key = k) => Len(left) < Len(entries)
    /\ \A x \in 1..Len(left) : left[x].key # k /\ \E j \in 1..Len(entries) : left[x] = entries[j]
    /\ \A x, y \in 1..Len(left) : left[x].key = left[y].key => x = y

(* What Map.delete() leaves. *)
LEMMA OthersFacts ==
  ASSUME NEW CONSTANT c, MemoryInv(c), NEW k
  PROVE  Without(c, k, Memories(c)!Others(k))
<1> DEFINE at == Memories(c)!At(k)
           n == Len(entries)
           i == CHOOSE x \in at : TRUE
           up(j) == IF j < i THEN j ELSE j + 1
           rest == [j \in 1..(n - 1) |-> entries[up(j)]]
<1>1. /\ n \in Nat /\ at = {x \in 1..n : entries[x].key = k}
      /\ \A x \in 1..n : entries[x] \in CachedEntry(c)
      /\ \A x, y \in 1..n : entries[x].key = entries[y].key => x = y
      /\ entries \in Seq(CachedEntry(c))
  BY DEF MemoryInv, Memories!At
<1>2. CASE at = {}
  <2>1. Memories(c)!Others(k) = entries
    BY <1>2 DEF Memories!Others
  <2> HIDE DEF at
  <2>2. Without(c, k, entries)
    BY <1>1, <1>2 DEF Without
  <2> QED
    BY <2>1, <2>2
<1>3. CASE at # {}
  <2>1. Memories(c)!Others(k) = rest
    BY <1>3 DEF Memories!Others
  <2> HIDE DEF at
  <2>2. i \in at
    BY <1>3
  <2>3. i \in 1..n /\ entries[i].key = k
    BY <1>1, <2>2
  <2> HIDE DEF i
  <2>4. \A j \in 1..(n - 1) : up(j) \in 1..n /\ up(j) # i
    BY <1>1, <2>3
  <2>5. \A x, y \in 1..(n - 1) : up(x) = up(y) => x = y
    BY <1>1, <2>3
  <2> HIDE DEF up, n
  <2>6. rest \in Seq(CachedEntry(c)) /\ Len(rest) = n - 1 /\ \A j \in 1..(n - 1) : rest[j] = entries[up(j)]
    BY <1>1, <2>3, <2>4
  <2>7. \A j \in 1..(n - 1) : rest[j].key # k
    BY <1>1, <2>3, <2>4, <2>6
  <2>8. \A x, y \in 1..(n - 1) : rest[x].key = rest[y].key => x = y
    BY <1>1, <2>4, <2>5, <2>6
  <2>9. n = Len(entries)
    BY DEF n
  <2> HIDE DEF rest
  <2>10. \A x \in 1..Len(rest) : \E j \in 1..Len(entries) : rest[x] = entries[j]
    BY <1>1, <2>4, <2>6, <2>9
  <2>11. Len(rest) \in Nat /\ Len(rest) <= Len(entries) /\ Len(rest) < Len(entries)
    BY <1>1, <2>3, <2>6, <2>9
  <2> HIDE DEF up
  <2>12. Without(c, k, rest)
    BY <2>6, <2>7, <2>8, <2>10, <2>11 DEF Without
  <2> QED
    BY <2>1, <2>12
<1> QED
  BY <1>2, <1>3

(* Initially nothing is stored and nobody has an answer. *)
LEMMA MemoryInit ==
  ASSUME NEW CONSTANT c, Memories(c)!MemoryCacheAssumption, Memories(c)!Init
  PROVE  MemoryInv(c)
<1>1. entries = <<>> /\ now = 0 /\ c.time \in Nat /\ c.entries \in Nat
  BY DEF Memories!Init, Memories!MemoryCacheAssumption
<1>2. now \in 0..c.time /\ entries \in Seq(CachedEntry(c)) /\ Len(entries) <= c.entries /\ Len(entries) = 0
  BY <1>1
<1>3. request \in [c.requests -> CachedRequest(c)]
      /\ \A r \in c.requests : request[r].pc = "transport" /\ request[r].response = None
  <2>1. \A x \in Memories(c)!NewRequest :
          x \in CachedRequest(c) /\ x.pc = "transport" /\ x.response = None
    BY DEF CachedRequest, Memories!NewRequest
  <2>2. request \in [c.requests -> Memories(c)!NewRequest]
    BY DEF Memories!Init
  <2> QED
    BY <2>1, <2>2
<1> QED
  BY <1>2, <1>3 DEF MemoryInv

(* A request's step that keeps what it may have been answered. *)
LEMMA AnsweredKept ==
  ASSUME NEW CONSTANT c, Memories(c)!MemoryCacheAssumption, MemoryInv(c),
         NEW r \in c.requests, NEW q \in CachedRequest(c), request' = [request EXCEPT ![r] = q], now' = now,
         q.pc = "responds" => q.response \in Memories(c)!Response /\ (q.hit \/ (q.response.since = None /\ q.response.ttl = None)),
         q.response # None /\ q.response.since # None => q.response.at < q.response.since + q.response.ttl,
         entries' \in Seq(CachedEntry(c)), Len(entries') <= c.entries,
         \A i, j \in 1..Len(entries') : entries'[i].key = entries'[j].key => i = j,
         \A i \in 1..Len(entries') : entries'[i].expires = entries'[i].since + entries'[i].ttl
  PROVE  MemoryInv(c)'
<1>1. request' \in [c.requests -> CachedRequest(c)] /\ now' \in 0..c.time
  BY DEF MemoryInv
<1>2. ASSUME NEW x \in c.requests
      PROVE  /\ request'[x].pc = "responds" =>
                   /\ request'[x].response \in Memories(c)!Response
                   /\ request'[x].hit \/ (request'[x].response.since = None /\ request'[x].response.ttl = None)
             /\ request'[x].response # None /\ request'[x].response.since # None =>
                   request'[x].response.at < request'[x].response.since + request'[x].response.ttl
  <2>1. request'[x] = IF x = r THEN q ELSE request[x]
    BY DEF MemoryInv
  <2> QED
    BY <2>1 DEF MemoryInv
<1> QED
  BY <1>1, <1>2 DEF MemoryInv

(* The transport hook answers with what has not expired. *)
LEMMA TransportKeeps ==
  ASSUME NEW CONSTANT c, Memories(c)!MemoryCacheAssumption, MemoryInv(c),
         NEW r \in c.requests, Memories(c)!Transport(r)
  PROVE  MemoryInv(c)'
<1> DEFINE k == request[r].key
           at == Memories(c)!At(k)
           i == CHOOSE x \in at : TRUE
           e == entries[i]
           found == at # {}
           usable == found /\ now < e.expires /\ (request[r].raw => e.raw)
           others == Memories(c)!Others(k)
           hit == [request[r] EXCEPT !.pc = "responds", !.hit = TRUE,
                                     !.response = [since |-> e.since, ttl |-> e.ttl, at |-> now]]
           miss == [request[r] EXCEPT !.pc = "fetches"]
<1>1. /\ request[r] \in CachedRequest(c) /\ now \in 0..c.time /\ request[r].pc = "transport" /\ now' = now
      /\ entries \in Seq(CachedEntry(c)) /\ Len(entries) \in Nat /\ Len(entries) <= c.entries
      /\ c.time \in Nat /\ c.entries \in Nat
      /\ request \in [c.requests -> CachedRequest(c)]
  BY DEF MemoryInv, Memories!Transport, Memories!MemoryCacheAssumption
<1>2. /\ entries' = IF ~found THEN entries ELSE IF usable THEN Append(others, e) ELSE others
      /\ request' = [request EXCEPT ![r] = IF usable THEN hit ELSE miss]
  BY DEF Memories!Transport
<1>3. found => i \in 1..Len(entries) /\ entries[i].key = k
  <2>1. at = {x \in 1..Len(entries) : entries[x].key = k}
    BY <1>1 DEF Memories!At
  <2> HIDE DEF at
  <2>2. found => i \in at
    OBVIOUS
  <2> QED
    BY <2>1, <2>2
<1>4. /\ others \in Seq(CachedEntry(c)) /\ Len(others) \in Nat /\ Len(others) <= Len(entries)
      /\ (\E x \in 1..Len(entries) : entries[x].key = k) => Len(others) < Len(entries)
      /\ \A x \in 1..Len(others) : others[x].key # k /\ \E j \in 1..Len(entries) : others[x] = entries[j]
      /\ \A x, y \in 1..Len(others) : others[x].key = others[y].key => x = y
  <2>1. Without(c, k, others)
    BY OthersFacts
  <2> HIDE DEF k, others
  <2> QED
    BY <2>1 DEF Without
<1>5. \A x \in 1..Len(entries) : entries[x].expires = entries[x].since + entries[x].ttl /\ entries[x] \in CachedEntry(c)
  BY <1>1 DEF MemoryInv
<1>6. \A x \in 1..Len(others) : others[x].expires = others[x].since + others[x].ttl
  BY <1>4, <1>5
<1> HIDE DEF at, others, i
<1>7. CASE usable
  <2>1. i \in 1..Len(entries) /\ e \in CachedEntry(c) /\ e.key = k /\ e.expires = e.since + e.ttl
    BY <1>3, <1>5, <1>7
  <2>2. e.since \in 0..c.time /\ e.ttl \in c.ttls /\ e.since \in Nat /\ e.ttl \in Nat
    <3> HIDE DEF e, usable
    <3>1. e.since \in 0..c.time /\ e.ttl \in c.ttls
      BY <2>1 DEF CachedEntry
    <3>2. c.ttls \subseteq Nat
      BY DEF Memories!MemoryCacheAssumption
    <3> QED
      BY <1>1, <3>1, <3>2
  <2>3. hit \in CachedRequest(c) /\ hit.pc = "responds" /\ hit.hit = TRUE /\ hit.response \in Memories(c)!Response
        /\ hit.response = [since |-> e.since, ttl |-> e.ttl, at |-> now]
    <3>1. [since |-> e.since, ttl |-> e.ttl, at |-> now] \in Memories(c)!Response
      BY <1>1, <2>2 DEF Memories!Response
    <3> QED
      BY <1>1, <3>1 DEF CachedRequest
  <2>4. hit.response.at < hit.response.since + hit.response.ttl
    BY <1>7, <2>1, <2>3
  <2>5. entries' = Append(others, e) /\ request' = [request EXCEPT ![r] = hit]
    BY <1>2, <1>7
  <2> HIDE DEF hit, e, usable
  <2>6. Len(others) + 1 <= Len(entries)
    <3>1. \E x \in 1..Len(entries) : entries[x].key = k
      BY <1>3, <1>7 DEF usable
    <3>2. Len(others) < Len(entries)
      BY <1>4, <3>1
    <3> QED
      BY <1>1, <1>4, <3>2
  <2>7. /\ entries' \in Seq(CachedEntry(c)) /\ Len(entries') = Len(others) + 1
        /\ \A x \in 1..Len(others) : entries'[x] = others[x]
        /\ entries'[Len(others) + 1] = e
    BY <1>4, <2>1, <2>5
  <2>8. \A x \in 1..Len(entries') : x \in 1..Len(others) \/ x = Len(others) + 1
    BY <1>4, <2>7
  <2>9. \A x, y \in 1..Len(entries') : entries'[x].key = entries'[y].key => x = y
    <3>1. \A x \in 1..Len(others) : entries'[x].key # k /\ entries'[x].key = others[x].key
      BY <1>4, <2>7
    <3>2. entries'[Len(others) + 1].key = k
      BY <2>1, <2>7
    <3> HIDE DEF k
    <3> QED
      BY <1>4, <2>8, <3>1, <3>2
  <2>10. \A x \in 1..Len(entries') : entries'[x].expires = entries'[x].since + entries'[x].ttl
    BY <1>6, <2>1, <2>7, <2>8
  <2>11. Len(entries') <= c.entries
    BY <1>1, <1>4, <2>6, <2>7
  <2> QED
    BY <1>1, <2>3, <2>4, <2>5, <2>7, <2>9, <2>10, <2>11, AnsweredKept
<1>8. CASE ~usable
  <2>1. miss \in CachedRequest(c) /\ miss.pc = "fetches" /\ miss.response = request[r].response
    BY <1>1 DEF CachedRequest
  <2>2. request' = [request EXCEPT ![r] = miss] /\ entries' \in {entries, others}
    BY <1>2, <1>8
  <2> HIDE DEF miss, usable
  <2>3. miss.response # None /\ miss.response.since # None =>
          miss.response.at < miss.response.since + miss.response.ttl
    BY <2>1 DEF MemoryInv
  <2>4. Len(others) <= c.entries
    BY <1>1, <1>4
  <2>5. \A x, y \in 1..Len(entries) : entries[x].key = entries[y].key => x = y
    BY DEF MemoryInv
  <2>6. CASE entries' = entries
    BY <1>1, <1>5, <2>1, <2>2, <2>3, <2>5, <2>6, AnsweredKept
  <2>7. CASE entries' = others
    BY <1>1, <1>4, <1>6, <2>1, <2>2, <2>3, <2>4, <2>7, AnsweredKept
  <2> QED
    BY <2>2, <2>6, <2>7
<1> QED
  BY <1>7, <1>8

(* What the network answers is nobody's entry. *)
LEMMA FetchKeeps ==
  ASSUME NEW CONSTANT c, Memories(c)!MemoryCacheAssumption, MemoryInv(c),
         NEW r \in c.requests, Memories(c)!Fetch(r)
  PROVE  MemoryInv(c)'
<1> DEFINE q == [request[r] EXCEPT !.pc = "responds", !.response = [since |-> None, ttl |-> None, at |-> now]]
<1>1. request[r] \in CachedRequest(c) /\ now \in 0..c.time /\ request \in [c.requests -> CachedRequest(c)]
  BY DEF MemoryInv
<1>2. request' = [request EXCEPT ![r] = q] /\ entries' = entries /\ now' = now
  BY DEF Memories!Fetch
<1>3. q \in CachedRequest(c) /\ q.response = [since |-> None, ttl |-> None, at |-> now]
      /\ q.response \in Memories(c)!Response
  BY <1>1 DEF CachedRequest, Memories!Response
<1> HIDE DEF q
<1>4. q.response.since = None /\ q.response.ttl = None
  BY <1>3
<1> QED
  BY <1>2, <1>3, <1>4, AnsweredKept DEF MemoryInv

(* A failed hook of another plugin takes the answer with it. *)
LEMMA RepeatKeeps ==
  ASSUME NEW CONSTANT c, Memories(c)!MemoryCacheAssumption, MemoryInv(c),
         NEW r \in c.requests, Memories(c)!Repeat(r)
  PROVE  MemoryInv(c)'
<1> DEFINE q == [request[r] EXCEPT !.pc = "transport", !.response = None]
<1>1. request[r] \in CachedRequest(c) /\ request \in [c.requests -> CachedRequest(c)]
  BY DEF MemoryInv
<1>2. request' = [request EXCEPT ![r] = q] /\ entries' = entries /\ now' = now
  BY DEF Memories!Repeat
<1>3. q \in CachedRequest(c) /\ q.response = None /\ q.pc = "transport"
  BY <1>1 DEF CachedRequest
<1> HIDE DEF q
<1> QED
  BY <1>2, <1>3, AnsweredKept DEF MemoryInv

(* What is stored came from the network just now, and the bound holds.      *)
LEMMA KeptFacts ==
  ASSUME NEW CONSTANT c, Memories(c)!MemoryCacheAssumption, MemoryInv(c),
         NEW e \in CachedEntry(c), e.expires = e.since + e.ttl
  PROVE  LET kept == Memories(c)!Kept(e)
         IN  /\ kept \in Seq(CachedEntry(c)) /\ Len(kept) <= c.entries
             /\ \A i, j \in 1..Len(kept) : kept[i].key = kept[j].key => i = j
             /\ \A i \in 1..Len(kept) : kept[i].expires = kept[i].since + kept[i].ttl
<1> DEFINE k == e.key
           rest == Memories(c)!Others(k)
           all == Append(rest, e)
           kept == IF Len(all) > c.entries THEN Tail(all) ELSE all
<1>1. Memories(c)!Kept(e) = kept
  BY DEF Memories!Kept
<1>2. /\ entries \in Seq(CachedEntry(c)) /\ Len(entries) \in Nat /\ Len(entries) <= c.entries
      /\ c.entries \in Nat /\ c.entries > 0
      /\ \A i \in 1..Len(entries) : entries[i].expires = entries[i].since + entries[i].ttl
  BY DEF MemoryInv, Memories!MemoryCacheAssumption
<1>3. /\ rest \in Seq(CachedEntry(c)) /\ Len(rest) <= Len(entries)
      /\ \A x \in 1..Len(rest) : rest[x].key # k /\ \E j \in 1..Len(entries) : rest[x] = entries[j]
      /\ \A x, y \in 1..Len(rest) : rest[x].key = rest[y].key => x = y
  <2>1. Without(c, k, rest)
    BY OthersFacts
  <2> HIDE DEF k, rest
  <2> QED
    BY <2>1 DEF Without
<1> HIDE DEF rest
<1>4. \A x \in 1..Len(rest) : rest[x].expires = rest[x].since + rest[x].ttl
  BY <1>2, <1>3
<1>5. /\ all \in Seq(CachedEntry(c)) /\ Len(all) = Len(rest) + 1 /\ Len(rest) \in Nat
      /\ \A x \in 1..Len(rest) : all[x] = rest[x]
      /\ all[Len(rest) + 1] = e
  BY <1>3
<1> HIDE DEF all
<1>6. \A x \in 1..Len(all) : x \in 1..Len(rest) \/ x = Len(rest) + 1
  BY <1>5
<1>7. /\ \A x, y \in 1..Len(all) : all[x].key = all[y].key => x = y
      /\ \A x \in 1..Len(all) : all[x].expires = all[x].since + all[x].ttl
  BY <1>3, <1>4, <1>5, <1>6
<1>8. CASE Len(all) > c.entries
  <2> DEFINE left == Tail(all)
  <2>1. kept = left /\ left \in Seq(CachedEntry(c)) /\ Len(left) = Len(all) - 1 /\ Len(all) \in Nat
        /\ \A x \in 1..Len(left) : left[x] = all[x + 1]
    BY <1>5, <1>8
  <2> HIDE DEF left, kept
  <2>2. \A x \in 1..Len(left) : x + 1 \in 1..Len(all)
    BY <2>1
  <2>3. ASSUME NEW x \in 1..Len(left), NEW y \in 1..Len(left), left[x].key = left[y].key PROVE x = y
    <3>1. x + 1 \in 1..Len(all) /\ y + 1 \in 1..Len(all) /\ all[x + 1].key = all[y + 1].key
      BY <2>1, <2>2, <2>3
    <3>2. x + 1 = y + 1
      BY <1>7, <3>1
    <3> QED
      BY <3>2
  <2>4. \A x \in 1..Len(left) : left[x].expires = left[x].since + left[x].ttl
    BY <1>7, <2>1, <2>2
  <2>5. Len(left) <= c.entries
    BY <1>2, <1>3, <1>5, <2>1
  <2> QED
    BY <1>1, <2>1, <2>3, <2>4, <2>5
<1>9. CASE ~(Len(all) > c.entries)
  <2>1. kept = all /\ Len(all) <= c.entries
    BY <1>2, <1>5, <1>9
  <2> HIDE DEF kept
  <2> QED
    BY <1>1, <1>5, <1>7, <2>1
<1> QED
  BY <1>8, <1>9

(* The response hook stores nothing that the cache itself answered. *)
LEMMA RespondKeeps ==
  ASSUME NEW CONSTANT c, Memories(c)!MemoryCacheAssumption, MemoryInv(c),
         NEW r \in c.requests, Memories(c)!Respond(r)
  PROVE  MemoryInv(c)'
<1> DEFINE q == [request[r] EXCEPT !.pc = "done", !.hit = FALSE, !.response = None]
           p == request[r].response
<1>1. /\ request[r] \in CachedRequest(c) /\ request \in [c.requests -> CachedRequest(c)]
      /\ now \in 0..c.time /\ c.time \in Nat /\ request[r].pc = "responds" /\ c.ttls \subseteq Nat
      /\ p \in Memories(c)!Response /\ (request[r].hit \/ (p.since = None /\ p.ttl = None))
  BY DEF MemoryInv, Memories!Respond, Memories!MemoryCacheAssumption
<1>2. request' = [request EXCEPT ![r] = q] /\ now' = now
  BY DEF Memories!Respond
<1>3. q \in CachedRequest(c) /\ q.response = None /\ q.pc = "done"
  BY <1>1 DEF CachedRequest
<1>4. CASE entries' = entries
  <2> HIDE DEF q
  <2> QED
    BY <1>2, <1>3, <1>4, AnsweredKept DEF MemoryInv
<1>5. ASSUME NEW ttl \in c.ttls \ {0}, Memories(c)!Stores(r),
             entries' = Memories(c)!Kept(Memories(c)!Snapshot(r, ttl))
      PROVE  MemoryInv(c)'
  <2> DEFINE e == Memories(c)!Snapshot(r, ttl)
  <2>1. p.since = None /\ p.ttl = None
    BY <1>1, <1>5 DEF Memories!Stores
  <2>2. e = [key |-> request[r].key, raw |-> request[r].raw, expires |-> now + ttl, since |-> now, ttl |-> ttl]
    BY <2>1 DEF Memories!Snapshot
  <2>3. e \in CachedEntry(c) /\ e.expires = e.since + e.ttl
    BY <1>1, <2>2 DEF CachedEntry, CachedRequest
  <2> HIDE DEF e, q
  <2>4. LET kept == Memories(c)!Kept(e)
        IN  /\ kept \in Seq(CachedEntry(c)) /\ Len(kept) <= c.entries
            /\ \A i, j \in 1..Len(kept) : kept[i].key = kept[j].key => i = j
            /\ \A i \in 1..Len(kept) : kept[i].expires = kept[i].since + kept[i].ttl
    BY <2>3, KeptFacts
  <2>5. entries' = Memories(c)!Kept(e)
    BY <1>5 DEF e
  <2> QED
    BY <1>2, <1>3, <2>4, <2>5, AnsweredKept
<1> QED
  BY <1>4, <1>5 DEF Memories!Respond

(* Every other step leaves the requests alone. *)
LEMMA MemoryStep ==
  ASSUME NEW CONSTANT c, Memories(c)!MemoryCacheAssumption, MemoryInv(c),
         [Memories(c)!Next]_(Memories(c)!vars)
  PROVE  MemoryInv(c)'
<1>1. ASSUME NEW r \in c.requests,
             Memories(c)!Transport(r) \/ Memories(c)!Fetch(r) \/ Memories(c)!Respond(r) \/ Memories(c)!Repeat(r)
      PROVE  MemoryInv(c)'
  BY <1>1, TransportKeeps, FetchKeeps, RespondKeeps, RepeatKeeps
<1>2. CASE Memories(c)!Clear
  <2>1. entries' = <<>> /\ request' = request /\ now' = now /\ c.entries \in Nat
    BY <1>2 DEF Memories!Clear, Memories!MemoryCacheAssumption
  <2>2. entries' \in Seq(CachedEntry(c)) /\ Len(entries') = 0
    BY <2>1
  <2> QED
    BY <2>1, <2>2 DEF MemoryInv
<1>3. CASE Memories(c)!Tick
  <2>1. entries' = entries /\ request' = request /\ now' = now + 1 /\ now < c.time /\ c.time \in Nat
    BY <1>3 DEF Memories!Tick, Memories!MemoryCacheAssumption
  <2>2. now' \in 0..c.time
    BY <2>1 DEF MemoryInv
  <2> QED
    BY <2>1, <2>2 DEF MemoryInv
<1>4. CASE UNCHANGED Memories(c)!vars
  BY <1>4 DEF MemoryInv, Memories!vars
<1> QED
  BY <1>1, <1>2, <1>3, <1>4 DEF Memories!Next, Memories!Finished

LEMMA MemoryServes ==
  ASSUME NEW CONSTANT c, MemoryInv(c)
  PROVE  Memories(c)!ServedWithinTtl
<1>1. Memories(c)!TypeOK
  BY DEF MemoryInv, Memories!TypeOK, CachedRequest
<1> QED
  BY <1>1 DEF MemoryInv, Memories!ServedWithinTtl

(* What memoryCachePlugin answers from its entries was stored less than its *)
(* lifetime ago, for any requests, keys, lifetimes and number of entries.   *)
THEOREM CacheServesWithinTtl ==
  ASSUME NEW CONSTANT c, Memories(c)!MemoryCacheAssumption
  PROVE  Memories(c)!Spec => []Memories(c)!ServedWithinTtl
<1>1. Memories(c)!Init => MemoryInv(c)
  BY MemoryInit
<1>2. MemoryInv(c) /\ [Memories(c)!Next]_(Memories(c)!vars) => MemoryInv(c)'
  BY MemoryStep
<1>3. MemoryInv(c) => Memories(c)!ServedWithinTtl
  BY MemoryServes
<1> QED
  BY <1>1, <1>2, <1>3, PTL DEF Memories!Spec

(* The same of the composition that the run checks. *)
THEOREM ServedWithinTtlHolds == MCSpec => []ServedWithinTtl
<1> DEFINE Inv == part = "memory" => MemoryInv(InMemory)
<1>1. MCInit => Inv
  BY MemoryInit, StoresAssumption DEF MCInit, TieredPart, IndexedPart
<1>2. Inv /\ [MCNext]_mcvars => Inv'
  <2> SUFFICES ASSUME Inv, [MCNext]_mcvars, part' = "memory" PROVE MemoryInv(InMemory)'
    OBVIOUS
  <2>1. part = "memory"
    BY DEF MCNext, mcvars
  <2>2. [Memories(InMemory)!Next]_(Memories(InMemory)!vars)
    BY <2>1 DEF MCNext, mcvars, memory, Memories!vars
  <2> QED
    BY <2>1, <2>2, MemoryStep, StoresAssumption
<1>3. Inv => ServedWithinTtl
  BY MemoryServes DEF ServedWithinTtl
<1> QED
  BY <1>1, <1>2, <1>3, PTL DEF MCSpec

----------------------------------------------------------------------------
\* IndexedDB: the calls in line

\* What a store reads and writes itself: the records of its version.
OwnSlots(c, s) == {t \in Databases(c)!Slot : t[1] = c.versions[s]}

Call(c) ==
    [pc : Databases(c)!PC, kind : c.kinds \cup {"delete", "set", "close", None}, store : c.stores \cup {None},
     slot : Databases(c)!Slot \cup {None}, record : Databases(c)!Record \cup {None},
     conn : c.connections \cup {None}, no : Nat]
Line(c) ==
    {x \in [state : {"none", "opening", "open", "failed", "closed"}, of : c.stores \cup {None}, queue : Seq(c.operations)] :
        x.state = "opening" => x.of \in c.stores}

\* The calls in the queues of q wait there, each in one place.
InLine(c, q, p) ==
    \A x \in c.connections : \A i \in 1..Len(q[x].queue) :
       /\ p[q[x].queue[i]].pc = "waits" /\ p[q[x].queue[i]].conn = x
       /\ \A j \in 1..Len(q[x].queue) : q[x].queue[j] = q[x].queue[i] => j = i

\* A write was asked for after everything that its connection did or does before it.
Ahead(c, q, p) ==
    \A x \in c.connections : \A i \in 1..Len(q[x].queue) :
       p[q[x].queue[i]].kind = "set" =>
          /\ \A j \in 1..(i - 1) : p[q[x].queue[j]].no < p[q[x].queue[i]].no
          /\ \A o \in c.operations :
                p[o].conn = x /\ p[o].pc \in {"done", "failed"} => p[o].no < p[q[x].queue[i]].no

Absent(c, q, o) == \A x \in c.connections : \A i \in 1..Len(q[x].queue) : q[x].queue[i] # o

Popped(q, l, x) == l = [q EXCEPT ![x].queue = Tail(@)]

(* The head of a queue leaves it. *)
LEMMA HeadLeaves ==
  ASSUME NEW c, NEW q \in [c.connections -> Line(c)], NEW p \in [c.operations -> Call(c)], NEW x \in c.connections,
         q[x].queue # <<>>, InLine(c, q, p),
         NEW l, Popped(q, l, x), NEW o, o = Head(q[x].queue)
  PROVE  /\ o \in c.operations /\ p[o].pc = "waits" /\ p[o].conn = x
         /\ l \in [c.connections -> Line(c)] /\ InLine(c, l, p) /\ Absent(c, l, o)
         /\ Ahead(c, q, p) => /\ Ahead(c, l, p)
                              /\ \A i \in 1..Len(l[x].queue) :
                                    p[l[x].queue[i]].kind = "set" => p[o].no < p[l[x].queue[i]].no
                              /\ p[o].kind = "set" =>
                                    \A y \in c.operations : p[y].conn = x /\ p[y].pc \in {"done", "failed"}
                                       => p[y].no < p[o].no
<1> DEFINE n == Len(q[x].queue)
           rest == Tail(q[x].queue)
<1>1. q[x] \in Line(c) /\ q[x].queue \in Seq(c.operations)
  BY DEF Line
<1>2. /\ n \in Nat /\ n >= 1 /\ o = q[x].queue[1] /\ o \in c.operations
      /\ rest \in Seq(c.operations) /\ Len(rest) = n - 1
      /\ \A i \in 1..(n - 1) : rest[i] = q[x].queue[i + 1] /\ i + 1 \in 1..n
  <2> DEFINE u == q[x].queue
  <2> HIDE DEF u
  <2>1. u \in Seq(c.operations) /\ u # <<>>
    BY <1>1 DEF u
  <2>2. Len(u) \in Nat /\ Len(u) >= 1 /\ Head(u) = u[1] /\ u[1] \in c.operations
    BY <2>1
  <2>3. Tail(u) \in Seq(c.operations) /\ Len(Tail(u)) = Len(u) - 1 /\ \A i \in 1..(Len(u) - 1) : Tail(u)[i] = u[i + 1]
    BY <2>1, <2>2
  <2>4. \A i \in 1..(Len(u) - 1) : i + 1 \in 1..Len(u)
    BY <2>2
  <2> QED
    BY <2>2, <2>3, <2>4 DEF u
<1>3. /\ l \in [c.connections -> Line(c)] /\ l[x].queue = rest
      /\ \A y \in c.connections : y # x => l[y] = q[y]
  BY <1>1, <1>2 DEF Line, Popped
<1>4. p[o].pc = "waits" /\ p[o].conn = x
  BY <1>2 DEF InLine
<1> HIDE DEF n, rest
<1>5. InLine(c, l, p)
  <2> SUFFICES ASSUME NEW y \in c.connections, NEW i \in 1..Len(l[y].queue)
               PROVE  /\ p[l[y].queue[i]].pc = "waits" /\ p[l[y].queue[i]].conn = y
                      /\ \A j \in 1..Len(l[y].queue) : l[y].queue[j] = l[y].queue[i] => j = i
    BY DEF InLine
  <2>1. CASE y # x
    BY <1>3, <2>1 DEF InLine
  <2>2. CASE y = x
    <3>1. i \in 1..(n - 1) /\ l[y].queue[i] = q[x].queue[i + 1] /\ i + 1 \in 1..n
      BY <1>2, <1>3, <2>2
    <3>2. \A j \in 1..Len(l[y].queue) : j \in 1..(n - 1) /\ l[y].queue[j] = q[x].queue[j + 1] /\ j + 1 \in 1..n
      BY <1>2, <1>3, <2>2
    <3>3. \A j \in 1..n : q[x].queue[j] = q[x].queue[i + 1] => j = i + 1
      BY <3>1 DEF InLine, n
    <3>4. p[q[x].queue[i + 1]].pc = "waits" /\ p[q[x].queue[i + 1]].conn = x
      BY <3>1 DEF InLine, n
    <3> QED
      BY <1>2, <2>2, <3>1, <3>2, <3>3, <3>4
  <2> QED
    BY <2>1, <2>2
<1>6. Absent(c, l, o)
  <2> SUFFICES ASSUME NEW y \in c.connections, NEW i \in 1..Len(l[y].queue), l[y].queue[i] = o PROVE FALSE
    BY DEF Absent
  <2>1. y = x
    BY <1>4, <1>5 DEF InLine
  <2>2. i \in 1..(n - 1) /\ q[x].queue[i + 1] = o /\ i + 1 \in 1..n /\ 1 \in 1..n
    BY <1>2, <1>3, <2>1
  <2>3. \A j, k \in 1..n : q[x].queue[j] = q[x].queue[k] => j = k
    BY DEF InLine, n
  <2>4. 1 = i + 1
    BY <1>2, <2>2, <2>3
  <2> QED
    BY <2>2, <2>4
<1>7. ASSUME Ahead(c, q, p)
      PROVE  /\ Ahead(c, l, p)
             /\ \A i \in 1..Len(l[x].queue) : p[l[x].queue[i]].kind = "set" => p[o].no < p[l[x].queue[i]].no
             /\ p[o].kind = "set" => \A y \in c.operations : p[y].conn = x /\ p[y].pc \in {"done", "failed"}
                                         => p[y].no < p[o].no
  <2>1. \A i \in 1..n : p[q[x].queue[i]].kind = "set" =>
           /\ \A j \in 1..(i - 1) : p[q[x].queue[j]].no < p[q[x].queue[i]].no
           /\ \A y \in c.operations :
                 p[y].conn = x /\ p[y].pc \in {"done", "failed"} => p[y].no < p[q[x].queue[i]].no
    BY <1>7 DEF Ahead, n
  <2>2. ASSUME NEW i \in 1..Len(l[x].queue), p[l[x].queue[i]].kind = "set"
        PROVE  /\ p[o].no < p[l[x].queue[i]].no
               /\ \A j \in 1..(i - 1) : p[l[x].queue[j]].no < p[l[x].queue[i]].no
               /\ \A y \in c.operations :
                     p[y].conn = x /\ p[y].pc \in {"done", "failed"} => p[y].no < p[l[x].queue[i]].no
    <3>1. i \in 1..(n - 1) /\ l[x].queue[i] = q[x].queue[i + 1] /\ i + 1 \in 1..n
      BY <1>2, <1>3
    <3>2. \A j \in 1..(i - 1) : l[x].queue[j] = q[x].queue[j + 1] /\ j + 1 \in 1..((i + 1) - 1)
      BY <1>2, <1>3, <3>1
    <3>3. 1 \in 1..((i + 1) - 1)
      BY <3>1, <1>2
    <3>4. /\ \A j \in 1..((i + 1) - 1) : p[q[x].queue[j]].no < p[q[x].queue[i + 1]].no
          /\ \A y \in c.operations :
                p[y].conn = x /\ p[y].pc \in {"done", "failed"} => p[y].no < p[q[x].queue[i + 1]].no
      BY <2>1, <2>2, <3>1
    <3> QED
      BY <1>2, <3>1, <3>2, <3>3, <3>4
  <2>3. Ahead(c, l, p)
    <3> SUFFICES ASSUME NEW y \in c.connections, NEW i \in 1..Len(l[y].queue), p[l[y].queue[i]].kind = "set"
                 PROVE  /\ \A j \in 1..(i - 1) : p[l[y].queue[j]].no < p[l[y].queue[i]].no
                        /\ \A z \in c.operations :
                              p[z].conn = y /\ p[z].pc \in {"done", "failed"} => p[z].no < p[l[y].queue[i]].no
      BY DEF Ahead
    <3>1. CASE y = x
      BY <2>2, <3>1
    <3>2. CASE y # x
      <4>1. l[y] = q[y]
        BY <1>3, <3>2
      <4> QED
        BY <1>7, <4>1 DEF Ahead
    <3> QED
      BY <3>1, <3>2
  <2>4. p[o].kind = "set" => \A y \in c.operations : p[y].conn = x /\ p[y].pc \in {"done", "failed"}
                                => p[y].no < p[o].no
    <3>1. 1 \in 1..n /\ q[x].queue[1] = o
      BY <1>2
    <3> QED
      BY <2>1, <3>1
  <2> QED
    BY <2>2, <2>3, <2>4
<1> QED
  BY <1>2, <1>3, <1>4, <1>5, <1>6, <1>7

\* No write in q was asked for before w, on its connection.
Before(c, q, p, w) ==
    \A x \in c.connections : \A i \in 1..Len(q[x].queue) :
       w.conn = x /\ p[q[x].queue[i]].kind = "set" => w.no < p[q[x].queue[i]].no

(* A call that is in no queue changes. *)
LEMMA OutsideChanges ==
  ASSUME NEW c, NEW q \in [c.connections -> Line(c)], NEW p \in [c.operations -> Call(c)], NEW o \in c.operations,
         NEW w \in Call(c), InLine(c, q, p), Absent(c, q, o), NEW r, r = [p EXCEPT ![o] = w]
  PROVE  /\ r \in [c.operations -> Call(c)] /\ InLine(c, q, r)
         /\ /\ Ahead(c, q, p)
            /\ w.pc \in {"done", "failed"} => Before(c, q, p, w)
            => Ahead(c, q, r)
<1>1. r \in [c.operations -> Call(c)] /\ r[o] = w /\ \A y \in c.operations : y # o => r[y] = p[y]
  OBVIOUS
<1>2. \A x \in c.connections : q[x].queue \in Seq(c.operations)
  BY DEF Line
<1>3. ASSUME NEW x \in c.connections, NEW i \in 1..Len(q[x].queue) PROVE r[q[x].queue[i]] = p[q[x].queue[i]]
  <2>1. q[x].queue[i] \in c.operations
    BY <1>2
  <2>2. q[x].queue[i] # o
    BY DEF Absent
  <2> QED
    BY <1>1, <2>1, <2>2
<1>4. InLine(c, q, r)
  BY <1>3 DEF InLine
<1>5. ASSUME Ahead(c, q, p), w.pc \in {"done", "failed"} => Before(c, q, p, w)
      PROVE  Ahead(c, q, r)
  <2> SUFFICES ASSUME NEW x \in c.connections, NEW i \in 1..Len(q[x].queue), r[q[x].queue[i]].kind = "set"
               PROVE  /\ \A j \in 1..(i - 1) : r[q[x].queue[j]].no < r[q[x].queue[i]].no
                      /\ \A y \in c.operations :
                            r[y].conn = x /\ r[y].pc \in {"done", "failed"} => r[y].no < r[q[x].queue[i]].no
    BY DEF Ahead
  <2>1. r[q[x].queue[i]] = p[q[x].queue[i]]
    BY <1>3
  <2>2. \A j \in 1..(i - 1) : r[q[x].queue[j]] = p[q[x].queue[j]]
    <3>1. Len(q[x].queue) \in Nat
      BY <1>2
    <3>2. \A j \in 1..(i - 1) : j \in 1..Len(q[x].queue)
      BY <3>1
    <3> QED
      BY <1>3, <3>2
  <2>3. /\ \A j \in 1..(i - 1) : p[q[x].queue[j]].no < p[q[x].queue[i]].no
        /\ \A y \in c.operations :
              p[y].conn = x /\ p[y].pc \in {"done", "failed"} => p[y].no < p[q[x].queue[i]].no
    BY <1>5, <2>1 DEF Ahead
  <2>4. ASSUME NEW y \in c.operations, r[y].conn = x, r[y].pc \in {"done", "failed"}
        PROVE  r[y].no < r[q[x].queue[i]].no
    <3>1. CASE y = o
      BY <1>1, <1>5, <2>1, <2>4, <3>1 DEF Before
    <3>2. CASE y # o
      BY <1>1, <2>1, <2>3, <2>4, <3>2
    <3> QED
      BY <3>1, <3>2
  <2> QED
    BY <2>1, <2>2, <2>3, <2>4
<1> QED
  BY <1>1, <1>4, <1>5

Joined(q, l, x, s, o) ==
    \/ l = [q EXCEPT ![x].queue = Append(@, o)]
    \/ l = [q EXCEPT ![x] = [state |-> "opening", of |-> s, queue |-> <<o>>]]

LEMMA Singleton == ASSUME NEW S, NEW e \in S PROVE <<e>> \in Seq(S)
  OBVIOUS

(* A call joins a queue at its end, or the queue of a new connection. *)
LEMMA CallJoins ==
  ASSUME NEW c, NEW q \in [c.connections -> Line(c)], NEW p \in [c.operations -> Call(c)], NEW o \in c.operations,
         NEW x \in c.connections, NEW s \in c.stores, InLine(c, q, p), Absent(c, q, o), p[o].pc = "waits", p[o].conn = x,
         NEW l, Joined(q, l, x, s, o)
  PROVE  /\ l \in [c.connections -> Line(c)] /\ InLine(c, l, p)
         /\ /\ Ahead(c, q, p)
            /\ p[o].kind = "set" => \A y \in c.operations : y # o => p[y].no < p[o].no
            => Ahead(c, l, p)
<1>1. q[x] \in Line(c) /\ \A y \in c.connections : q[y].queue \in Seq(c.operations)
  BY DEF Line
<1>2. CASE l = [q EXCEPT ![x] = [state |-> "opening", of |-> s, queue |-> <<o>>]]
  <2> DEFINE u == <<o>>
  <2>1. u \in Seq(c.operations) /\ Len(u) = 1 /\ u[1] = o
    <3>1. u \in Seq(c.operations)
      BY Singleton
    <3>2. Len(u) = 1
      OBVIOUS
    <3> QED
      BY <3>1, <3>2
  <2> HIDE DEF u
  <2>2. /\ l \in [c.connections -> Line(c)] /\ l[x].queue = u
        /\ \A y \in c.connections : y # x => l[y] = q[y]
    BY <1>2, <2>1 DEF Line, u
  <2>3. \A i \in 1..Len(l[x].queue) : i = 1 /\ l[x].queue[i] = o
    <3>1. \A i \in 1..Len(u) : i = 1 /\ u[i] = o
      BY <2>1
    <3> QED
      BY <2>2, <3>1
  <2>4. InLine(c, l, p)
    <3> SUFFICES ASSUME NEW y \in c.connections, NEW i \in 1..Len(l[y].queue)
                 PROVE  /\ p[l[y].queue[i]].pc = "waits" /\ p[l[y].queue[i]].conn = y
                        /\ \A j \in 1..Len(l[y].queue) : l[y].queue[j] = l[y].queue[i] => j = i
      BY DEF InLine
    <3>1. CASE y = x
      BY <2>3, <3>1
    <3>2. CASE y # x
      BY <2>2, <3>2 DEF InLine
    <3> QED
      BY <3>1, <3>2
  <2>5. ASSUME Ahead(c, q, p), p[o].kind = "set" => \A y \in c.operations : y # o => p[y].no < p[o].no
        PROVE  Ahead(c, l, p)
    <3> SUFFICES ASSUME NEW y \in c.connections, NEW i \in 1..Len(l[y].queue), p[l[y].queue[i]].kind = "set"
                 PROVE  /\ \A j \in 1..(i - 1) : p[l[y].queue[j]].no < p[l[y].queue[i]].no
                        /\ \A z \in c.operations :
                              p[z].conn = y /\ p[z].pc \in {"done", "failed"} => p[z].no < p[l[y].queue[i]].no
      BY DEF Ahead
    <3>1. CASE y = x
      <4>1. i = 1 /\ l[y].queue[i] = o /\ 1..(i - 1) = {}
        BY <2>3, <3>1
      <4>2. \A z \in c.operations : p[z].pc \in {"done", "failed"} => z # o
        OBVIOUS
      <4> QED
        BY <2>5, <4>1, <4>2
    <3>2. CASE y # x
      BY <2>2, <2>5, <3>2 DEF Ahead
    <3> QED
      BY <3>1, <3>2
  <2> QED
    BY <2>2, <2>4, <2>5
<1>3. CASE l = [q EXCEPT ![x].queue = Append(@, o)]
  <2> DEFINE v == q[x].queue
             u == Append(v, o)
             n == Len(v)
  <2>1. v \in Seq(c.operations)
    BY <1>1
  <2> HIDE DEF v
  <2>2. /\ u \in Seq(c.operations) /\ Len(u) = n + 1 /\ n \in Nat /\ u[n + 1] = o
        /\ \A i \in 1..n : u[i] = v[i]
    BY <2>1
  <2> HIDE DEF u, n
  <2>3. /\ l \in [c.connections -> Line(c)] /\ l[x].queue = u
        /\ \A y \in c.connections : y # x => l[y] = q[y]
    BY <1>1, <1>3, <2>2 DEF Line, u, v
  <2>4. \A i \in 1..Len(u) : i \in 1..n \/ i = n + 1
    BY <2>2
  <2>5. \A i \in 1..n : v[i] # o /\ v[i] \in c.operations
    BY <2>1 DEF Absent, v, n
  <2>6. /\ \A i \in 1..n : /\ p[v[i]].pc = "waits" /\ p[v[i]].conn = x
                           /\ \A j \in 1..n : v[j] = v[i] => j = i
    BY DEF InLine, v, n
  <2>7. \A i \in 1..Len(u) : /\ p[u[i]].pc = "waits" /\ p[u[i]].conn = x
                            /\ \A j \in 1..Len(u) : u[j] = u[i] => j = i
    <3> SUFFICES ASSUME NEW i \in 1..Len(u)
                 PROVE  /\ p[u[i]].pc = "waits" /\ p[u[i]].conn = x
                        /\ \A j \in 1..Len(u) : u[j] = u[i] => j = i
      OBVIOUS
    <3>1. CASE i \in 1..n
      <4>1. p[u[i]].pc = "waits" /\ p[u[i]].conn = x
        BY <2>2, <2>6, <3>1
      <4>2. ASSUME NEW j \in 1..Len(u), u[j] = u[i] PROVE j = i
        BY <2>2, <2>4, <2>5, <2>6, <3>1, <4>2
      <4> QED
        BY <4>1, <4>2
    <3>2. CASE i = n + 1
      <4>1. ASSUME NEW j \in 1..Len(u), u[j] = u[i] PROVE j = i
        BY <2>2, <2>4, <2>5, <3>2, <4>1
      <4> QED
        BY <2>2, <3>2, <4>1
    <3> QED
      BY <2>4, <3>1, <3>2
  <2>8. InLine(c, l, p)
    <3> SUFFICES ASSUME NEW y \in c.connections, NEW i \in 1..Len(l[y].queue)
                 PROVE  /\ p[l[y].queue[i]].pc = "waits" /\ p[l[y].queue[i]].conn = y
                        /\ \A j \in 1..Len(l[y].queue) : l[y].queue[j] = l[y].queue[i] => j = i
      BY DEF InLine
    <3>1. CASE y = x
      BY <2>3, <2>7, <3>1
    <3>2. CASE y # x
      BY <2>3, <3>2 DEF InLine
    <3> QED
      BY <3>1, <3>2
  <2>9. ASSUME Ahead(c, q, p), p[o].kind = "set" => \A y \in c.operations : y # o => p[y].no < p[o].no
        PROVE  Ahead(c, l, p)
    <3>1. \A i \in 1..n : p[v[i]].kind = "set" =>
             /\ \A j \in 1..(i - 1) : p[v[j]].no < p[v[i]].no
             /\ \A z \in c.operations : p[z].conn = x /\ p[z].pc \in {"done", "failed"} => p[z].no < p[v[i]].no
      BY <2>9 DEF Ahead, v, n
    <3>2. ASSUME NEW i \in 1..Len(u), p[u[i]].kind = "set"
          PROVE  /\ \A j \in 1..(i - 1) : p[u[j]].no < p[u[i]].no
                 /\ \A z \in c.operations : p[z].conn = x /\ p[z].pc \in {"done", "failed"} => p[z].no < p[u[i]].no
      <4>1. CASE i \in 1..n
        <5>1. \A j \in 1..(i - 1) : j \in 1..n
          BY <2>2, <4>1
        <5> QED
          BY <2>2, <3>1, <3>2, <4>1, <5>1
      <4>2. CASE i = n + 1
        <5>1. \A j \in 1..(i - 1) : j \in 1..n
          BY <2>2, <4>2
        <5>2. \A y \in c.operations : y # o => p[y].no < p[o].no
          BY <2>2, <2>9, <3>2, <4>2
        <5>3. \A z \in c.operations : p[z].pc \in {"done", "failed"} => z # o
          OBVIOUS
        <5> QED
          BY <2>2, <2>5, <4>2, <5>1, <5>2, <5>3
      <4> QED
        BY <2>4, <4>1, <4>2
    <3> SUFFICES ASSUME NEW y \in c.connections, NEW i \in 1..Len(l[y].queue), p[l[y].queue[i]].kind = "set"
                 PROVE  /\ \A j \in 1..(i - 1) : p[l[y].queue[j]].no < p[l[y].queue[i]].no
                        /\ \A z \in c.operations :
                              p[z].conn = y /\ p[z].pc \in {"done", "failed"} => p[z].no < p[l[y].queue[i]].no
      BY DEF Ahead
    <3>3. CASE y = x
      BY <2>3, <3>2, <3>3
    <3>4. CASE y # x
      BY <2>3, <2>9, <3>4 DEF Ahead
    <3> QED
      BY <3>3, <3>4
  <2> QED
    BY <2>3, <2>8, <2>9
<1> QED
  BY <1>2, <1>3 DEF Joined

----------------------------------------------------------------------------
\* IndexedDB: the object store

Table(c) == [Databases(c)!Slot -> Databases(c)!Record \cup {None}]

\* Nothing in e that was not in d, as what it was written and by whom.
Thinned(c, d, e) ==
    \A s \in Databases(c)!Slot :
       e[s] # None => /\ d[s] # None /\ e[s].by = d[s].by
                      /\ e[s].sort = d[s].sort /\ e[s].version = d[s].version

LEMMA MinusThins ==
  ASSUME NEW c, NEW d \in Table(c), NEW gone
  PROVE  LET e == Databases(c)!Minus(d, gone)
         IN  e \in Table(c) /\ Thinned(c, d, e) /\ \A s \in Databases(c)!Slot : s \in gone => e[s] = None
  BY DEF Table, Thinned, Databases!Minus

(* A write leaves the record it wrote, and some of those that were there.   *)
LEMMA WrittenFacts ==
  ASSUME NEW c, NEW d \in Table(c), NEW v, NEW s \in Databases(c)!Slot, NEW r \in Databases(c)!Record,
         NEW w, w = Databases(c)!Written(v, d, s, r)
  PROVE  /\ w \in Table(c)
         /\ \A t \in Databases(c)!Slot : w[t] # None => (t = s /\ w[t] = r) \/ (d[t] # None /\ w[t] = d[t])
<1> DEFINE put == [d EXCEPT ![s] = r]
           gone == Databases(c)!Outdated(v, put)
           kept == Databases(c)!Minus(put, gone)
           over == Databases(c)!Evicted(kept, Databases(c)!Current(v, kept), s)
           e == Databases(c)!Minus(kept, over)
<1>1. CASE s \in Databases(c)!Future(v, d)
  <2>1. w = d
    BY <1>1 DEF Databases!Written
  <2> QED
    BY <2>1
<1>2. CASE s \notin Databases(c)!Future(v, d)
  <2>1. w = e
    BY <1>2 DEF Databases!Written
  <2> HIDE DEF gone, over
  <2>2. put \in Table(c) /\ put[s] = r /\ \A t \in Databases(c)!Slot : t # s => put[t] = d[t]
    BY DEF Table
  <2> HIDE DEF put
  <2>3. kept = [t \in Databases(c)!Slot |-> IF t \in gone THEN None ELSE put[t]]
    BY DEF Databases!Minus
  <2>4. e = [t \in Databases(c)!Slot |-> IF t \in over THEN None ELSE kept[t]]
    BY DEF Databases!Minus
  <2> HIDE DEF kept, e
  <2>5. kept \in Table(c)
    BY <2>2, <2>3 DEF Table
  <2>6. e \in Table(c)
    BY <2>4, <2>5 DEF Table
  <2>7. ASSUME NEW t \in Databases(c)!Slot, e[t] # None
        PROVE  (t = s /\ e[t] = r) \/ (d[t] # None /\ e[t] = d[t])
    <3>1. e[t] = kept[t] /\ kept[t] # None
      BY <2>4, <2>7
    <3>2. kept[t] = put[t] /\ put[t] # None
      BY <2>3, <3>1
    <3> QED
      BY <2>2, <3>1, <3>2
  <2> QED
    BY <2>1, <2>6, <2>7
<1> QED
  BY <1>1, <1>2

(* What a version finds of its own is outdated or current. *)
LEMMA OwnVersion ==
  ASSUME NEW c, Databases(c)!IndexedDBAssumption, NEW d, NEW s \in Databases(c)!Slot, d[s] # None, d[s].version = s[1]
  PROVE  s \in Databases(c)!Outdated(s[1], d) \cup Databases(c)!Current(s[1], d)
<1>1. s[1] \in Nat
  BY DEF Databases!Slot, Databases!Version, Databases!IndexedDBAssumption
<1>2. Databases(c)!Disposition(s[1], d, s) \in {"malformed", "current"}
  BY <1>1 DEF Databases!Disposition
<1> QED
  BY <1>2 DEF Databases!Outdated, Databases!Current, Databases!Stored

----------------------------------------------------------------------------
\* IndexedDB: the invariant

Live == {"waits", "admits", "recovers", "rewrites"}
Removal == {"delete", "clear", "tags"}

\* A write goes on in the step in which its call is answered.
Immediate(c) == ~c.policy /\ ~(c.failures /\ c.recovery)

\* No call removes, and no write turns into a removal.
NoRemovals(c) ==
    /\ c.kinds \intersect Removal = {} /\ ~c.policy /\ c.entries # 0 /\ c.bytes # 0
    /\ \A size \in c.sizes : size <= c.bytes

DbTyped(c) ==
    /\ now \in 0..c.time /\ db \in Table(c) /\ memo \in [c.stores -> c.connections \cup {None}]
    /\ conn \in [c.connections -> Line(c)] /\ op \in [c.operations -> Call(c)]

Called(c) ==
    \A o \in c.operations :
       LET p == op[o]
       IN  /\ p.pc # "new" /\ p.kind # "close" => p.store \in c.stores /\ p.slot \in OwnSlots(c, p.store)
           /\ p.pc \in Live /\ p.kind = "set" =>
                 p.record \in Databases(c)!Record /\ p.record.by = o /\ p.record.size \in c.sizes
                 /\ p.record.version = p.slot[1]
           /\ p.pc \in {"admits", "recovers", "rewrites"} => p.kind = "set"
           /\ p.pc = "admits" => c.policy
           /\ p.no <= Cardinality(Databases(c)!Asked)
           /\ NoRemovals(c) /\ p.pc # "new" => p.kind \notin Removal

Recorded(c) ==
    \A s \in Databases(c)!Slot :
       db[s] # None /\ db[s].by # None =>
          op[db[s].by].pc = "done" /\ op[db[s].by].kind = "set" /\ db[s].version = s[1]

Outcome(c) ==
    \A s \in Databases(c)!Slot, o \in c.operations :
       db[s] # None /\ db[s].by # None /\ Databases(c)!Removes(o, s) /\ op[o].conn = op[db[s].by].conn
          => op[o].no < op[db[s].by].no

DbInv(c) ==
    /\ DbTyped(c) /\ InLine(c, conn, op) /\ Called(c) /\ Recorded(c)
    /\ Immediate(c) => /\ \A o \in c.operations : op[o].pc \notin {"admits", "recovers", "rewrites"}
                       /\ Ahead(c, conn, op) /\ Outcome(c)

(* The component counts as the library does. *)
LEMMA Counted ==
  ASSUME NEW c, NEW S
  PROVE  Databases(c)!Cardinality(S) = Cardinality(S) /\ (Databases(c)!IsFiniteSet(S) <=> IsFiniteSet(S))
<1>1. Databases(c)!Cardinality(S) = Cardinality(S)
  BY DEF Databases!Cardinality, Cardinality
<1>2. Databases(c)!IsFiniteSet(S) <=> IsFiniteSet(S)
  BY DEF Databases!IsFiniteSet, IsFiniteSet
<1> QED
  BY <1>1, <1>2

(* The calls made so far, before and after a step of one of them. *)
LEMMA AskedFacts ==
  ASSUME NEW CONSTANT c, Databases(c)!IndexedDBAssumption, op \in [c.operations -> Call(c)],
         NEW o \in c.operations, NEW p \in Call(c), op' = [op EXCEPT ![o] = p], p.pc # "new"
  PROVE  LET n == Cardinality(Databases(c)!Asked)
             m == Cardinality(Databases(c)!Asked)'
         IN  /\ n \in Nat /\ m \in Nat
             /\ op[o].pc = "new" => m = n + 1
             /\ op[o].pc # "new" => m = n
<1> DEFINE S == {x \in c.operations : op[x].pc # "new"}
           T == {x \in c.operations : op'[x].pc # "new"}
<1>1. Databases(c)!Asked = S /\ Databases(c)!Asked' = T
  BY DEF Databases!Asked
<1>2. IsFiniteSet(c.operations)
  BY Counted DEF Databases!IndexedDBAssumption
<1>3. IsFiniteSet(S) /\ Cardinality(S) \in Nat
  BY <1>2, FS_Subset, FS_CardinalityType
<1>4. \A x \in c.operations : op'[x] = IF x = o THEN p ELSE op[x]
  OBVIOUS
<1>5. CASE op[o].pc = "new"
  <2>1. T = S \cup {o} /\ o \notin S
    BY <1>4, <1>5
  <2> HIDE DEF S, T
  <2>2. Cardinality(T) = Cardinality(S) + 1
    BY <1>3, <2>1, FS_AddElement
  <2> QED
    BY <1>1, <1>3, <1>5, <2>2
<1>6. CASE op[o].pc # "new"
  <2>1. T = S
    BY <1>4, <1>6
  <2> QED
    BY <1>1, <1>3, <1>6, <2>1
<1> QED
  BY <1>5, <1>6

(* The states of the connections move nobody.                               *)
LEMMA QueuesDecide ==
  ASSUME NEW c, NEW q, NEW l, NEW p, \A x \in c.connections : l[x].queue = q[x].queue
  PROVE  (InLine(c, q, p) => InLine(c, l, p)) /\ (Ahead(c, q, p) => Ahead(c, l, p))
<1>1. InLine(c, q, p) => InLine(c, l, p)
  BY DEF InLine
<1>2. Ahead(c, q, p) => Ahead(c, l, p)
  BY DEF Ahead
<1> QED
  BY <1>1, <1>2

(* A call waits for a connection: a new one, or one whose write was not to  *)
(* be. *)
LEMMA WaitingKeeps ==
  ASSUME NEW CONSTANT c, Databases(c)!IndexedDBAssumption, DbInv(c),
         NEW o \in c.operations, NEW q \in [c.connections -> Line(c)], InLine(c, q, op), Absent(c, q, o),
         Immediate(c) => Ahead(c, q, op),
         NEW p \in Call(c), op' = [op EXCEPT ![o] = p], p.pc = "waits",
         op[o].pc = "new" \/ (op[o].pc \in Live /\ p.no = op[o].no /\ p.kind # "set"),
         p.no <= Cardinality(Databases(c)!Asked) + 1,
         p.kind = "set" => /\ p.no = Cardinality(Databases(c)!Asked) + 1
                           /\ p.record \in Databases(c)!Record /\ p.record.by = o /\ p.record.size \in c.sizes
                              /\ p.record.version = p.slot[1],
         p.kind # "close" => p.store \in c.stores /\ p.slot \in OwnSlots(c, p.store),
         NoRemovals(c) => p.kind \notin Removal,
         p.conn \in c.connections,
         NEW s \in c.stores, Joined(q, conn', p.conn, s, o),
         memo' \in [c.stores -> c.connections \cup {None}], db' = db, now' = now
  PROVE  DbInv(c)'
<1>1. op \in [c.operations -> Call(c)] /\ InLine(c, conn, op) /\ Called(c) /\ Recorded(c)
  BY DEF DbInv, DbTyped
<1>2. op' \in [c.operations -> Call(c)] /\ op'[o] = p /\ \A x \in c.operations : x # o => op'[x] = op[x]
  BY <1>1
<1>3. InLine(c, q, op') /\ (Ahead(c, q, op) => Ahead(c, q, op'))
  BY <1>1, OutsideChanges
<1>4. /\ conn' \in [c.connections -> Line(c)] /\ InLine(c, conn', op')
      /\ /\ Ahead(c, q, op')
         /\ p.kind = "set" => \A y \in c.operations : y # o => op'[y].no < p.no
         => Ahead(c, conn', op')
  <2> DEFINE r == op'
             l == conn'
             x == p.conn
  <2>1. r \in [c.operations -> Call(c)] /\ InLine(c, q, r) /\ r[o].pc = "waits" /\ r[o].conn = x /\ r[o] = p
    BY <1>2, <1>3
  <2>2. Joined(q, l, x, s, o)
    OBVIOUS
  <2>3. x \in c.connections
    OBVIOUS
  <2> HIDE DEF r, l, x
  <2>4. /\ l \in [c.connections -> Line(c)] /\ InLine(c, l, r)
        /\ /\ Ahead(c, q, r)
           /\ r[o].kind = "set" => \A y \in c.operations : y # o => r[y].no < r[o].no
           => Ahead(c, l, r)
    BY <2>1, <2>2, <2>3, CallJoins
  <2> QED
    BY <2>1, <2>4 DEF r, l
<1>5. DbTyped(c)'
  BY <1>2, <1>4 DEF DbInv, DbTyped, Table
<1>6. /\ Cardinality(Databases(c)!Asked) \in Nat /\ Cardinality(Databases(c)!Asked)' \in Nat
      /\ op[o].pc = "new" => Cardinality(Databases(c)!Asked)' = Cardinality(Databases(c)!Asked) + 1
      /\ op[o].pc # "new" => Cardinality(Databases(c)!Asked)' = Cardinality(Databases(c)!Asked)
  BY <1>1, AskedFacts
<1>7. Called(c)'
  <2> SUFFICES ASSUME NEW x \in c.operations
               PROVE  LET p_ == op'[x]
                      IN  /\ p_.pc # "new" /\ p_.kind # "close" =>
                                p_.store \in c.stores /\ p_.slot \in OwnSlots(c, p_.store)
                          /\ p_.pc \in Live /\ p_.kind = "set" =>
                                p_.record \in Databases(c)!Record /\ p_.record.by = x /\ p_.record.size \in c.sizes
                                /\ p_.record.version = p_.slot[1]
                          /\ p_.pc \in {"admits", "recovers", "rewrites"} => p_.kind = "set"
                          /\ p_.pc = "admits" => c.policy
                          /\ p_.no <= Cardinality(Databases(c)!Asked)'
                          /\ NoRemovals(c) /\ p_.pc # "new" => p_.kind \notin Removal
    BY DEF Called
  <2>1. CASE x # o
    <3>1. op'[x] = op[x] /\ op[x].no \in Nat
      BY <1>1, <1>2, <2>1 DEF Call
    <3>2. op[x].no <= Cardinality(Databases(c)!Asked)'
      BY <1>1, <1>6, <3>1 DEF Called, Live
    <3> QED
      BY <1>1, <3>1, <3>2 DEF Called
  <2>2. CASE x = o
    <3>1. p.no \in Nat
      BY DEF Call
    <3>2. op[o].pc # "new" => op[o].no <= Cardinality(Databases(c)!Asked) /\ p.no = op[o].no
      BY <1>1 DEF Called
    <3>3. p.no <= Cardinality(Databases(c)!Asked)'
      BY <1>6, <3>1, <3>2
    <3> QED
      BY <1>2, <2>2, <3>3
  <2> QED
    BY <2>1, <2>2
<1>8. Recorded(c)'
  <2> SUFFICES ASSUME NEW s_ \in Databases(c)!Slot, db'[s_] # None, db'[s_].by # None
               PROVE  op'[db'[s_].by].pc = "done" /\ op'[db'[s_].by].kind = "set" /\ db'[s_].version = s_[1]
    BY DEF Recorded
  <2>1. db[s_].by \in c.operations
    BY DEF DbInv, DbTyped, Table, Databases!Record
  <2>2. op[db[s_].by].pc = "done" /\ op[db[s_].by].kind = "set" /\ db[s_].version = s_[1]
    BY <1>1 DEF Recorded
  <2>3. db[s_].by # o
    BY <2>2 DEF Live
  <2> QED
    BY <1>2, <2>1, <2>2, <2>3
<1>9. ASSUME Immediate(c)
      PROVE  /\ \A x \in c.operations : op'[x].pc \notin {"admits", "recovers", "rewrites"}
             /\ Ahead(c, conn', op') /\ Outcome(c)'
  <2>1. \A x \in c.operations : op'[x].pc \notin {"admits", "recovers", "rewrites"}
    BY <1>2, <1>9 DEF DbInv
  <2>2. Ahead(c, conn', op')
    <3>1. ASSUME p.kind = "set", NEW y \in c.operations, y # o PROVE op'[y].no < p.no
      <4>1. op'[y] = op[y] /\ op[y].no \in Nat /\ op[y].no <= Cardinality(Databases(c)!Asked)
        BY <1>1, <1>2, <3>1 DEF Call, Called
      <4>2. p.no = Cardinality(Databases(c)!Asked) + 1
        BY <3>1
      <4> QED
        BY <1>6, <4>1, <4>2
    <3> QED
      BY <1>3, <1>4, <1>9, <3>1
  <2>3. Outcome(c)'
    <3> SUFFICES ASSUME NEW s_ \in Databases(c)!Slot, NEW x \in c.operations,
                        db'[s_] # None, db'[s_].by # None, Databases(c)!Removes(x, s_)',
                        op'[x].conn = op'[db'[s_].by].conn
                 PROVE  op'[x].no < op'[db'[s_].by].no
      BY DEF Outcome
    <3>1. db[s_].by \in c.operations /\ op[db[s_].by].pc = "done"
      BY <1>1 DEF DbInv, DbTyped, Table, Databases!Record, Recorded
    <3>2. op'[db[s_].by] = op[db[s_].by]
      BY <1>2, <3>1 DEF Live
    <3>3. op'[x].pc = "done" /\ op'[x] = op[x]
      BY <1>2 DEF Databases!Removes
    <3>4. Databases(c)!Removes(x, s_)
      BY <3>3 DEF Databases!Removes
    <3>5. Outcome(c)
      BY <1>9 DEF DbInv
    <3> QED
      BY <3>2, <3>3, <3>4, <3>5 DEF Outcome
  <2> QED
    BY <2>1, <2>2, <2>3
<1> QED
  BY <1>4, <1>5, <1>7, <1>8, <1>9 DEF DbInv, Immediate

\* What call p removes from d.
Removed(c, p, d, s) ==
    \/ p.kind = "delete" /\ p.slot = s
    \/ p.kind = "clear" /\ c.versions[p.store] = s[1]
    \/ p.kind = "tags" /\ c.versions[p.store] = s[1] /\ d[s].sort = "tagged"

\* p is how call o, in no queue of q, goes on or ends.
Goes(c, q, o, p) ==
    /\ p.pc \in {"admits", "recovers", "rewrites", "done", "failed"}
    /\ p.kind = op[o].kind /\ p.store = op[o].store /\ p.slot = op[o].slot /\ p.conn = op[o].conn /\ p.no = op[o].no
    /\ p.pc = "admits" => c.policy
    /\ p.pc \in Live =>
          ~Immediate(c) /\ p.kind = "set" /\ p.record \in Databases(c)!Record /\ p.record.by = o /\ p.record.size \in c.sizes
                                             /\ p.record.version = p.slot[1]
    /\ Immediate(c) =>
          /\ Ahead(c, q, op) /\ Before(c, q, op, p)
          /\ p.kind = "set" => \A y \in c.operations : op[y].conn = p.conn /\ op[y].pc \in {"done", "failed"}
                                   => op[y].no < p.no

\* d is what it leaves.
Results(c, o, p, d) ==
    /\ d \in Table(c)
    /\ \A s \in Databases(c)!Slot :
          d[s] # None => \/ (p.pc = "done" /\ p.kind = "set" /\ d[s].by = o /\ d[s].version = s[1])
                         \/ (db[s] # None /\ d[s].by = db[s].by /\ d[s].sort = db[s].sort /\ d[s].version = db[s].version)
    /\ p.pc = "done" => \A s \in Databases(c)!Slot : d[s] # None /\ d[s].by # None => ~Removed(c, p, d, s)

(* A call goes on, out of its queue: its transaction leaves the records it  *)
(* found, less some, or the record it wrote; a removal leaves nothing that  *)
(* it was to remove. *)
LEMMA GoingOnKeeps ==
  ASSUME NEW CONSTANT c, Databases(c)!IndexedDBAssumption, DbInv(c),
         NEW o \in c.operations, NEW q \in [c.connections -> Line(c)], InLine(c, q, op), Absent(c, q, o),
         op[o].pc \in Live, NEW p \in Call(c), op' = [op EXCEPT ![o] = p],
         Goes(c, q, o, p), Results(c, o, p, db'),
         conn' \in [c.connections -> Line(c)], \A x \in c.connections : conn'[x].queue = q[x].queue,
         memo' \in [c.stores -> c.connections \cup {None}], now' = now
  PROVE  DbInv(c)'
<1>0. /\ p.pc \in {"admits", "recovers", "rewrites", "done", "failed"}
      /\ p.kind = op[o].kind /\ p.store = op[o].store /\ p.slot = op[o].slot /\ p.conn = op[o].conn /\ p.no = op[o].no
      /\ p.pc = "admits" => c.policy
      /\ p.pc \in Live =>
            ~Immediate(c) /\ p.kind = "set" /\ p.record \in Databases(c)!Record /\ p.record.by = o /\ p.record.size \in c.sizes
                                               /\ p.record.version = p.slot[1]
      /\ Immediate(c) =>
            /\ Ahead(c, q, op) /\ Before(c, q, op, p)
            /\ p.kind = "set" => \A y \in c.operations : op[y].conn = p.conn /\ op[y].pc \in {"done", "failed"}
                                     => op[y].no < p.no
      /\ db' \in Table(c)
      /\ \A s \in Databases(c)!Slot :
            db'[s] # None => \/ (p.pc = "done" /\ p.kind = "set" /\ db'[s].by = o /\ db'[s].version = s[1])
                            \/ (db[s] # None /\ db'[s].by = db[s].by /\ db'[s].sort = db[s].sort
                                /\ db'[s].version = db[s].version)
      /\ p.pc = "done" => \A s \in Databases(c)!Slot : db'[s] # None /\ db'[s].by # None => ~Removed(c, p, db', s)
  BY DEF Goes, Results
<1> USE <1>0
<1>1. op \in [c.operations -> Call(c)] /\ Called(c) /\ Recorded(c)
  BY DEF DbInv, DbTyped
<1>2. op' \in [c.operations -> Call(c)] /\ op'[o] = p /\ \A x \in c.operations : x # o => op'[x] = op[x]
  BY <1>1
<1>3. InLine(c, q, op')
  BY <1>1, OutsideChanges
<1>4. DbTyped(c)'
  BY <1>2 DEF DbInv, DbTyped
<1>5. InLine(c, conn', op') /\ (Ahead(c, q, op') => Ahead(c, conn', op'))
  <2> DEFINE l == conn'
             r == op'
  <2>1. InLine(c, q, r) /\ \A x \in c.connections : l[x].queue = q[x].queue
    BY <1>3
  <2> HIDE DEF l, r
  <2>2. InLine(c, l, r) /\ (Ahead(c, q, r) => Ahead(c, l, r))
    BY <2>1, QueuesDecide
  <2> QED
    BY <2>2 DEF l, r
<1>6. Cardinality(Databases(c)!Asked)' = Cardinality(Databases(c)!Asked)
  <2>1. op[o].pc # "new" /\ p.pc # "new"
    BY DEF Live
  <2> QED
    BY <1>1, <2>1, AskedFacts
<1>7. Called(c)'
  <2> SUFFICES ASSUME NEW x \in c.operations
               PROVE  LET p_ == op'[x]
                      IN  /\ p_.pc # "new" /\ p_.kind # "close" =>
                                p_.store \in c.stores /\ p_.slot \in OwnSlots(c, p_.store)
                          /\ p_.pc \in Live /\ p_.kind = "set" =>
                                p_.record \in Databases(c)!Record /\ p_.record.by = x /\ p_.record.size \in c.sizes
                                /\ p_.record.version = p_.slot[1]
                          /\ p_.pc \in {"admits", "recovers", "rewrites"} => p_.kind = "set"
                          /\ p_.pc = "admits" => c.policy
                          /\ p_.no <= Cardinality(Databases(c)!Asked)'
                          /\ NoRemovals(c) /\ p_.pc # "new" => p_.kind \notin Removal
    BY DEF Called
  <2>1. CASE x # o
    BY <1>1, <1>2, <1>6, <2>1 DEF Called
  <2>2. CASE x = o
    <3>1. op[o].pc # "new" /\ op[o].no <= Cardinality(Databases(c)!Asked)
      BY <1>1 DEF Called, Live
    <3>2. p.kind # "close" => p.store \in c.stores /\ p.slot \in OwnSlots(c, p.store)
      BY <1>1, <3>1 DEF Called
    <3>3. NoRemovals(c) => p.kind \notin Removal
      BY <1>1, <3>1 DEF Called
    <3>4. p.pc \in {"admits", "recovers", "rewrites"} => p.pc \in Live
      BY DEF Live
    <3> QED
      BY <1>2, <1>6, <2>2, <3>1, <3>2, <3>3, <3>4
  <2> QED
    BY <2>1, <2>2
<1>8. ASSUME NEW s \in Databases(c)!Slot, db'[s] # None, db'[s].by # None
      PROVE  /\ db'[s].by \in c.operations
             /\ db'[s].version = s[1]
             /\ \/ db'[s].by = o /\ p.pc = "done" /\ p.kind = "set"
                \/ /\ db[s] # None /\ db[s].by # None /\ db'[s].by = db[s].by /\ db'[s].sort = db[s].sort
                      /\ db'[s].version = db[s].version
                   /\ db[s].by # o /\ op'[db[s].by] = op[db[s].by]
                   /\ op[db[s].by].pc = "done" /\ op[db[s].by].kind = "set"
  <2>1. db'[s].by \in c.operations
    BY <1>8 DEF Table, Databases!Record
  <2>2. CASE db[s] # None /\ db'[s].by = db[s].by /\ db'[s].sort = db[s].sort /\ db'[s].version = db[s].version
    <3>1. op[db[s].by].pc = "done" /\ op[db[s].by].kind = "set" /\ db[s].version = s[1]
      BY <1>1, <1>8, <2>2 DEF Recorded
    <3>2. db[s].by # o
      BY <3>1 DEF Live
    <3> QED
      BY <1>2, <1>8, <2>1, <2>2, <3>1, <3>2
  <2> QED
    BY <1>8, <2>1, <2>2
<1>9. Recorded(c)'
  <2> SUFFICES ASSUME NEW s \in Databases(c)!Slot, db'[s] # None, db'[s].by # None
               PROVE  op'[db'[s].by].pc = "done" /\ op'[db'[s].by].kind = "set" /\ db'[s].version = s[1]
    BY DEF Recorded
  <2> QED
    BY <1>2, <1>8
<1>10. ASSUME Immediate(c)
       PROVE  /\ \A x \in c.operations : op'[x].pc \notin {"admits", "recovers", "rewrites"}
              /\ Ahead(c, conn', op') /\ Outcome(c)'
  <2>1. \A x \in c.operations : op'[x].pc \notin {"admits", "recovers", "rewrites"}
    BY <1>2, <1>10 DEF DbInv, Live
  <2>2. Ahead(c, q, op')
    BY <1>1, <1>10, OutsideChanges
  <2>3. Ahead(c, conn', op')
    BY <1>5, <2>2
  <2>4. Outcome(c)'
    <3> SUFFICES ASSUME NEW s \in Databases(c)!Slot, NEW x \in c.operations,
                        db'[s] # None, db'[s].by # None, Databases(c)!Removes(x, s)',
                        op'[x].conn = op'[db'[s].by].conn
                 PROVE  op'[x].no < op'[db'[s].by].no
      BY DEF Outcome
    <3>1. op'[x].pc = "done" /\ Removed(c, op'[x], db', s)
      BY DEF Databases!Removes, Removed
    <3>2. x # o
      BY <1>2, <3>1
    <3>3. op'[x] = op[x] /\ op[x].pc = "done"
      BY <1>2, <3>1, <3>2
    <3>4. CASE db'[s].by = o /\ p.pc = "done" /\ p.kind = "set"
      BY <1>2, <1>10, <3>3, <3>4
    <3>5. CASE /\ db[s] # None /\ db[s].by # None /\ db'[s].by = db[s].by /\ db'[s].sort = db[s].sort
                  /\ db'[s].version = db[s].version
               /\ op'[db[s].by] = op[db[s].by]
      <4>1. Databases(c)!Removes(x, s)
        BY <3>1, <3>3, <3>5 DEF Databases!Removes, Removed
      <4>2. Outcome(c)
        BY <1>10 DEF DbInv
      <4> QED
        BY <3>3, <3>5, <4>1, <4>2 DEF Outcome
    <3> QED
      BY <1>8, <3>4, <3>5
  <2> QED
    BY <2>1, <2>3, <2>4
<1> QED
  BY <1>4, <1>5, <1>7, <1>9, <1>10 DEF DbInv, Immediate

(* What a connection does between calls removes at most records.            *)
LEMMA BetweenCallsKeeps ==
  ASSUME NEW CONSTANT c, DbInv(c), op' = op, memo' = memo, now' \in 0..c.time,
         conn' \in [c.connections -> Line(c)], \A x \in c.connections : conn'[x].queue = conn[x].queue,
         db' \in Table(c), Thinned(c, db, db')
  PROVE  DbInv(c)'
<1>1. DbTyped(c)'
  BY DEF DbInv, DbTyped
<1>2. InLine(c, conn', op')
  BY DEF DbInv, InLine
<1>3. Databases(c)!Asked' = Databases(c)!Asked
  BY DEF Databases!Asked
<1>4. Called(c)'
  BY <1>3 DEF DbInv, Called
<1>5. \A s \in Databases(c)!Slot :
         db'[s] # None => db[s] # None /\ db'[s].by = db[s].by /\ db'[s].sort = db[s].sort /\ db'[s].version = db[s].version
  BY DEF Thinned
<1>6. Recorded(c)'
  BY <1>5 DEF DbInv, Recorded
<1>7. Ahead(c, conn, op) => Ahead(c, conn', op')
  BY DEF Ahead
<1>8. ASSUME Outcome(c) PROVE Outcome(c)'
  <2> SUFFICES ASSUME NEW s \in Databases(c)!Slot, NEW x \in c.operations,
                      db'[s] # None, db'[s].by # None, Databases(c)!Removes(x, s)', op'[x].conn = op'[db'[s].by].conn
               PROVE  op'[x].no < op'[db'[s].by].no
    BY DEF Outcome
  <2>1. Databases(c)!Removes(x, s)
    BY <1>5 DEF Databases!Removes
  <2> QED
    BY <1>5, <1>8, <2>1 DEF Outcome
<1> QED
  BY <1>1, <1>2, <1>4, <1>6, <1>7, <1>8 DEF DbInv, Immediate

----------------------------------------------------------------------------
\* IndexedDB: the steps

(* A call waits for the memoized connection of its store, or for a new one. *)
LEMMA AwaitFacts ==
  ASSUME NEW CONSTANT c, memo \in [c.stores -> c.connections \cup {None}], NEW o, NEW r, r.store \in c.stores, NEW q,
         Databases(c)!Await(o, r, q)
  PROVE  \E x \in c.connections :
            /\ op' = [op EXCEPT ![o] = [r EXCEPT !.pc = "waits", !.conn = x]]
            /\ Joined(q, conn', x, r.store, o) /\ memo' \in [c.stores -> c.connections \cup {None}]
<1>1. CASE memo[r.store] # None
  <2>1. /\ op' = [op EXCEPT ![o] = [r EXCEPT !.pc = "waits", !.conn = memo[r.store]]]
        /\ conn' = [q EXCEPT ![memo[r.store]].queue = Append(@, o)] /\ memo' = memo
    BY <1>1 DEF Databases!Await
  <2>2. memo[r.store] \in c.connections
    BY <1>1
  <2> QED
    BY <2>1, <2>2, Zenon DEF Joined
<1>2. CASE memo[r.store] = None
  <2>1. PICK x \in c.connections :
           /\ op' = [op EXCEPT ![o] = [r EXCEPT !.pc = "waits", !.conn = x]]
           /\ conn' = [q EXCEPT ![x] = [state |-> "opening", of |-> r.store, queue |-> <<o>>]]
           /\ memo' = [memo EXCEPT ![r.store] = x]
    BY <1>2, Zenon DEF Databases!Await
  <2>2. memo' \in [c.stores -> c.connections \cup {None}]
    BY <2>1
  <2> QED
    BY <2>1, <2>2, Zenon DEF Joined
<1> QED
  BY <1>1, <1>2

Asking(c, kind, s, r) ==
    /\ r \in Call(c) /\ r.store = s /\ r.slot \in OwnSlots(c, s)
    /\ r.no = Cardinality(Databases(c)!Asked) + 1 /\ r.kind \in {kind, "delete"}
    /\ NoRemovals(c) => r.kind = kind

LEMMA AsksFacts ==
  ASSUME NEW CONSTANT c, Databases(c)!IndexedDBAssumption, DbInv(c),
         NEW kind \in c.kinds \cup {"set"}, NEW s \in c.stores, NEW k \in c.keys
  PROVE  Asking(c, kind, s, Databases(c)!Asks(kind, s, k))
<1> DEFINE n == Cardinality(Databases(c)!Asked)
           turned == kind \in {"get", "set"} /\ 0 \in {c.entries, c.bytes}
           what == IF turned THEN "delete" ELSE kind
           r == [pc |-> "new", kind |-> what, store |-> s, slot |-> <<c.versions[s], k>>, record |-> None,
                 conn |-> None, no |-> n + 1]
<1>1. n \in Nat
  <2>1. IsFiniteSet(c.operations) /\ Databases(c)!Asked \subseteq c.operations
    BY Counted DEF Databases!IndexedDBAssumption, Databases!Asked
  <2> QED
    BY <2>1, FS_Subset, FS_CardinalityType
<1>2. Databases(c)!Asks(kind, s, k) = r
  <2> DEFINE m == Databases(c)!Cardinality(Databases(c)!Asked)
             none == Databases(c)!NoOperation
  <2>1. none = [pc |-> "new", kind |-> None, store |-> None, slot |-> None, record |-> None, conn |-> None, no |-> 0]
    BY DEF Databases!NoOperation
  <2> HIDE DEF none, m
  <2>2. Databases(c)!Asks(kind, s, k) =
          [none EXCEPT !.store = s, !.slot = <<c.versions[s], k>>, !.no = m + 1, !.kind = what]
    BY Zenon DEF Databases!Asks, m, none
  <2>3. m = n
    BY Counted DEF m
  <2> HIDE DEF n, what
  <2> QED
    BY <2>1, <2>2, <2>3
<1>3. <<c.versions[s], k>> \in OwnSlots(c, s)
  BY DEF OwnSlots, Databases!Slot, Databases!Version
<1> HIDE DEF n, turned
<1>4. r \in Call(c) /\ r.store = s /\ r.slot \in OwnSlots(c, s) /\ r.no = n + 1 /\ r.kind = what
  BY <1>1, <1>3 DEF Call, OwnSlots, Databases!PC
<1>5. what \in {kind, "delete"} /\ (NoRemovals(c) => what = kind)
  BY DEF turned, NoRemovals
<1> HIDE DEF r, what
<1>6. Asking(c, kind, s, r)
  BY <1>4, <1>5 DEF n, Asking
<1> QED
  BY <1>2, <1>6

LEMMA CallKeeps ==
  ASSUME NEW CONSTANT c, Databases(c)!IndexedDBAssumption, DbInv(c), NEW o \in c.operations,
         NEW kind \in c.kinds, NEW s \in c.stores, NEW k \in c.keys, Databases(c)!Call(o, kind, s, k)
  PROVE  DbInv(c)'
<1> DEFINE r == Databases(c)!Asks(kind, s, k)
           n == Cardinality(Databases(c)!Asked)
<1>1. /\ op[o].pc = "new" /\ kind \notin {"set", "close"} /\ Databases(c)!Await(o, r, conn) /\ db' = db /\ now' = now
  BY DEF Databases!Call
<1>2. /\ r \in Call(c) /\ r.store = s /\ r.slot \in OwnSlots(c, s) /\ r.no = n + 1 /\ r.kind \in {kind, "delete"}
      /\ NoRemovals(c) => r.kind = kind
  <2>1. Asking(c, kind, s, r)
    BY AsksFacts
  <2> HIDE DEF r
  <2> QED
    BY <2>1 DEF Asking
<1>3. /\ memo \in [c.stores -> c.connections \cup {None}] /\ conn \in [c.connections -> Line(c)]
      /\ InLine(c, conn, op) /\ (Immediate(c) => Ahead(c, conn, op))
  BY DEF DbInv, DbTyped
<1>4. Absent(c, conn, o)
  BY <1>1, <1>3 DEF Absent, InLine
<1> HIDE DEF r
<1>5. PICK x \in c.connections :
         /\ op' = [op EXCEPT ![o] = [r EXCEPT !.pc = "waits", !.conn = x]]
         /\ Joined(conn, conn', x, r.store, o) /\ memo' \in [c.stores -> c.connections \cup {None}]
  BY <1>1, <1>2, <1>3, AwaitFacts
<1> DEFINE p == [r EXCEPT !.pc = "waits", !.conn = x]
<1>6. /\ p \in Call(c) /\ p.pc = "waits" /\ p.conn = x /\ p.kind = r.kind /\ p.store = r.store /\ p.slot = r.slot
      /\ p.no = r.no
  BY <1>2 DEF Call, Databases!PC
<1>7. op' = [op EXCEPT ![o] = p] /\ n \in Nat
  BY <1>5, <1>3, <1>6, AskedFacts DEF DbInv, DbTyped
<1>8. p.kind # "set" /\ (NoRemovals(c) => p.kind \notin Removal)
  BY <1>1, <1>2, <1>6 DEF NoRemovals
<1>9. p.no <= n + 1
  BY <1>2, <1>6, <1>7
<1> HIDE DEF p, n
<1> QED
  BY <1>1, <1>2, <1>3, <1>4, <1>5, <1>6, <1>7, <1>8, <1>9, WaitingKeeps DEF n

LEMMA SetKeeps ==
  ASSUME NEW CONSTANT c, Databases(c)!IndexedDBAssumption, DbInv(c), NEW o \in c.operations,
         NEW s \in c.stores, NEW k \in c.keys, Databases(c)!Set(o, s, k)
  PROVE  DbInv(c)'
<1> DEFINE a == Databases(c)!Asks("set", s, k)
           left == Databases(c)!Left(c.versions[s])
           n == Cardinality(Databases(c)!Asked)
<1>1. /\ op[o].pc = "new" /\ db' = db /\ now' = now
  BY DEF Databases!Set
<1>2. PICK size \in c.sizes, sort \in {"plain", "tagged", "expired"} :
         Databases(c)!Await(o, [a EXCEPT !.record = [left EXCEPT !.by = o, !.size = size, !.sort = sort]], conn)
  BY Zenon DEF Databases!Set
<1> DEFINE written == [left EXCEPT !.by = o, !.size = size, !.sort = sort]
           r == [a EXCEPT !.record = written]
<1>3. written \in Databases(c)!Record /\ written.by = o /\ written.size = size /\ written.version = c.versions[s]
  <2>1. left \in Databases(c)!Record /\ left.version = c.versions[s]
    BY DEF Databases!Left, Databases!Record, Databases!Version, Databases!IndexedDBAssumption
  <2> HIDE DEF left
  <2> QED
    BY <2>1 DEF Databases!Record
<1> HIDE DEF written
<1>4. /\ a \in Call(c) /\ a.store = s /\ a.slot \in OwnSlots(c, s) /\ a.no = n + 1 /\ a.kind \in {"set", "delete"}
      /\ NoRemovals(c) => a.kind = "set"
  <2>1. "set" \in c.kinds \cup {"set"}
    OBVIOUS
  <2>2. Asking(c, "set", s, a)
    BY <2>1, AsksFacts
  <2> HIDE DEF a
  <2> QED
    BY <2>2 DEF Asking
<1> HIDE DEF a
<1>5. /\ r \in Call(c) /\ r.store = s /\ r.slot \in OwnSlots(c, s) /\ r.no = n + 1 /\ r.kind = a.kind
      /\ r.record = written
  BY <1>3, <1>4 DEF Call
<1>6. /\ memo \in [c.stores -> c.connections \cup {None}] /\ conn \in [c.connections -> Line(c)]
      /\ InLine(c, conn, op) /\ (Immediate(c) => Ahead(c, conn, op))
  BY DEF DbInv, DbTyped
<1>7. Absent(c, conn, o)
  BY <1>1, <1>6 DEF Absent, InLine
<1>8. Databases(c)!Await(o, r, conn)
  BY <1>2 DEF written
<1> HIDE DEF r
<1>9. PICK x \in c.connections :
         /\ op' = [op EXCEPT ![o] = [r EXCEPT !.pc = "waits", !.conn = x]]
         /\ Joined(conn, conn', x, r.store, o) /\ memo' \in [c.stores -> c.connections \cup {None}]
  BY <1>5, <1>6, <1>8, AwaitFacts
<1> DEFINE p == [r EXCEPT !.pc = "waits", !.conn = x]
<1>10. /\ p \in Call(c) /\ p.pc = "waits" /\ p.conn = x /\ p.kind = r.kind /\ p.store = r.store /\ p.slot = r.slot
       /\ p.no = r.no /\ p.record = r.record
  BY <1>5 DEF Call, Databases!PC
<1>11. op' = [op EXCEPT ![o] = p] /\ n \in Nat
  BY <1>6, <1>9, <1>10, AskedFacts DEF DbInv, DbTyped
<1>12. NoRemovals(c) => p.kind \notin Removal
  BY <1>4, <1>5, <1>10 DEF Removal
<1>13. p.no = n + 1 /\ p.no <= n + 1
  BY <1>5, <1>10, <1>11
<1>14. p.record \in Databases(c)!Record /\ p.record.by = o /\ p.record.size \in c.sizes /\ p.record.version = p.slot[1]
  BY <1>3, <1>5, <1>10 DEF OwnSlots
<1>15. p.store \in c.stores /\ p.slot \in OwnSlots(c, p.store)
  BY <1>5, <1>10
<1>16. Joined(conn, conn', p.conn, s, o) /\ p.conn \in c.connections
  BY <1>5, <1>9, <1>10
<1> HIDE DEF p, r
<1> QED
  BY <1>1, <1>6, <1>7, <1>9, <1>10, <1>11, <1>12, <1>13, <1>14, <1>15, <1>16, WaitingKeeps

LEMMA CloseKeeps ==
  ASSUME NEW CONSTANT c, Databases(c)!IndexedDBAssumption, DbInv(c), NEW o \in c.operations,
         NEW s \in c.stores, Databases(c)!Close(o, s)
  PROVE  DbInv(c)'
<1> DEFINE x == memo[s]
           none == Databases(c)!NoOperation
           p == [none EXCEPT !.pc = "waits", !.kind = "close", !.conn = x]
           n == Cardinality(Databases(c)!Asked)
<1>1. /\ op[o].pc = "new" /\ memo[s] # None /\ db' = db /\ now' = now /\ memo' = [memo EXCEPT ![s] = None]
  BY DEF Databases!Close
<1>2. op' = [op EXCEPT ![o] = p] /\ conn' = [conn EXCEPT ![x].queue = Append(@, o)]
  BY Zenon DEF Databases!Close
<1>3. /\ memo \in [c.stores -> c.connections \cup {None}] /\ conn \in [c.connections -> Line(c)]
      /\ InLine(c, conn, op) /\ (Immediate(c) => Ahead(c, conn, op)) /\ op \in [c.operations -> Call(c)]
  BY DEF DbInv, DbTyped
<1>4. x \in c.connections /\ memo' \in [c.stores -> c.connections \cup {None}]
  BY <1>1, <1>3
<1>5. Absent(c, conn, o)
  BY <1>1, <1>3 DEF Absent, InLine
<1>6. Joined(conn, conn', x, s, o)
  BY <1>2, Zenon DEF Joined
<1> HIDE DEF x
<1>7. p \in Call(c) /\ p.pc = "waits" /\ p.kind = "close" /\ p.conn = x /\ p.no = 0
  BY <1>4 DEF Call, Databases!NoOperation, Databases!PC
<1> HIDE DEF p
<1>8. n \in Nat
  BY <1>2, <1>3, <1>7, AskedFacts
<1>9. p.no <= n + 1 /\ p.kind # "set" /\ p.kind \notin Removal
  BY <1>7, <1>8 DEF Removal
<1> HIDE DEF n
<1> QED
  BY <1>1, <1>2, <1>3, <1>4, <1>5, <1>6, <1>7, <1>8, <1>9, WaitingKeeps DEF n

LEMMA OpenKeeps ==
  ASSUME NEW CONSTANT c, DbInv(c), NEW x \in c.connections, Databases(c)!Open(x)
  PROVE  DbInv(c)'
<1>1. conn \in [c.connections -> Line(c)] /\ now \in 0..c.time /\ db \in Table(c)
  BY DEF DbInv, DbTyped
<1>2. op' = op /\ memo' = memo /\ now' \in 0..c.time
  BY <1>1 DEF Databases!Open
<1>3. PICK state \in {"open", "failed"} : conn' = [conn EXCEPT ![x].state = state]
  BY DEF Databases!Open
<1>4. conn' \in [c.connections -> Line(c)] /\ \A y \in c.connections : conn'[y].queue = conn[y].queue
  BY <1>1, <1>3 DEF Line
<1>5. db' \in Table(c) /\ Thinned(c, db, db')
  <2>1. CASE db' = Databases(c)!Minus(db, Databases(c)!Outdated(c.versions[conn[x].of], db))
    BY <1>1, <2>1, MinusThins
  <2>2. CASE db' = db
    BY <1>1, <2>2 DEF Thinned
  <2> QED
    BY <2>1, <2>2 DEF Databases!Open
<1> QED
  BY <1>2, <1>4, <1>5, BetweenCallsKeeps

LEMMA VersionChangeKeeps ==
  ASSUME NEW CONSTANT c, DbInv(c), NEW x \in c.connections, Databases(c)!VersionChange(x)
  PROVE  DbInv(c)'
<1>1. conn \in [c.connections -> Line(c)] /\ now \in 0..c.time /\ db \in Table(c)
  BY DEF DbInv, DbTyped
<1>2. op' = op /\ memo' = memo /\ now' \in 0..c.time /\ conn' = [conn EXCEPT ![x].state = "closed"] /\ db' = db
  BY <1>1 DEF Databases!VersionChange
<1>3. conn' \in [c.connections -> Line(c)] /\ \A y \in c.connections : conn'[y].queue = conn[y].queue
  BY <1>1, <1>2 DEF Line
<1>4. db' \in Table(c) /\ Thinned(c, db, db')
  BY <1>1, <1>2 DEF Thinned
<1> QED
  BY <1>2, <1>3, <1>4, BetweenCallsKeeps

LEMMA DbTickKeeps ==
  ASSUME NEW CONSTANT c, Databases(c)!IndexedDBAssumption, DbInv(c), Databases(c)!Tick
  PROVE  DbInv(c)'
<1>1. conn \in [c.connections -> Line(c)] /\ now \in 0..c.time /\ db \in Table(c)
  BY DEF DbInv, DbTyped
<1>2. op' = op /\ memo' = memo /\ now' \in 0..c.time /\ conn' = conn /\ db' = db
  BY <1>1 DEF Databases!Tick, Databases!IndexedDBAssumption
<1>3. Thinned(c, db, db')
  BY <1>2 DEF Thinned
<1> QED
  BY <1>1, <1>2, <1>3, BetweenCallsKeeps

\* The call that goes on is in no queue of q, and its place was before those of q.
Out(c, q, o) ==
    /\ q \in [c.connections -> Line(c)] /\ InLine(c, q, op) /\ Absent(c, q, o) /\ op[o].pc \in Live
    /\ Immediate(c) =>
          /\ Ahead(c, q, op) /\ Before(c, q, op, op[o])
          /\ op[o].kind = "set" => \A y \in c.operations : op[y].conn = op[o].conn /\ op[y].pc \in {"done", "failed"}
                                       => op[y].no < op[o].no

\* What the transaction of o may leave.
Leaves(c, o, d) ==
    /\ d \in Table(c)
    /\ \A s \in Databases(c)!Slot :
          d[s] # None =>
             /\ \/ op[o].kind = "set" /\ d[s].by = o /\ d[s].version = s[1]
                \/ db[s] # None /\ d[s].by = db[s].by /\ d[s].sort = db[s].sort /\ d[s].version = db[s].version
             /\ d[s].by # None => ~Removed(c, op[o], d, s)

LEMMA EndKeeps ==
  ASSUME NEW CONSTANT c, Databases(c)!IndexedDBAssumption, DbInv(c), NEW o \in c.operations, NEW q, Out(c, q, o),
         \/ Databases(c)!Ends(o, "done") /\ Leaves(c, o, db')
         \/ Databases(c)!Ends(o, "failed") /\ db' = db,
         conn' \in [c.connections -> Line(c)], \A x \in c.connections : conn'[x].queue = q[x].queue,
         memo' \in [c.stores -> c.connections \cup {None}], now' = now
  PROVE  DbInv(c)'
<1>1. PICK pc \in {"done", "failed"} :
         /\ op' = [op EXCEPT ![o] = [@ EXCEPT !.pc = pc, !.record = None]]
         /\ pc = "done" => Leaves(c, o, db')
         /\ pc = "failed" => db' = db
  BY Zenon DEF Databases!Ends
<1> DEFINE p == [op[o] EXCEPT !.pc = pc, !.record = None]
<1>2. op[o] \in Call(c) /\ db \in Table(c)
  BY DEF DbInv, DbTyped
<1>3. /\ p \in Call(c) /\ p.pc = pc /\ p.kind = op[o].kind /\ p.store = op[o].store /\ p.slot = op[o].slot
      /\ p.conn = op[o].conn /\ p.no = op[o].no
  BY <1>2 DEF Call, Databases!PC
<1>4. op' = [op EXCEPT ![o] = p] /\ p.pc \in {"admits", "recovers", "rewrites", "done", "failed"}
      /\ p.pc \notin Live /\ p.pc # "admits"
  BY <1>1, <1>3 DEF Live
<1> HIDE DEF p
<1>5. /\ q \in [c.connections -> Line(c)] /\ InLine(c, q, op) /\ Absent(c, q, o) /\ op[o].pc \in Live
      /\ Immediate(c) =>
          /\ Ahead(c, q, op) /\ Before(c, q, op, p)
          /\ p.kind = "set" => \A y \in c.operations : op[y].conn = p.conn /\ op[y].pc \in {"done", "failed"}
                                   => op[y].no < p.no
  BY <1>3 DEF Out, Before
<1>6. Goes(c, q, o, p)
  BY <1>3, <1>4, <1>5 DEF Goes
<1>7. CASE pc = "done"
  <2>1. Leaves(c, o, db')
    BY <1>1, <1>7
  <2>2. db' \in Table(c)
    BY <2>1 DEF Leaves
  <2>3. ASSUME NEW s \in Databases(c)!Slot, db'[s] # None
        PROVE  /\ \/ (p.pc = "done" /\ p.kind = "set" /\ db'[s].by = o /\ db'[s].version = s[1])
                  \/ (db[s] # None /\ db'[s].by = db[s].by /\ db'[s].sort = db[s].sort /\ db'[s].version = db[s].version)
               /\ db'[s].by # None => ~Removed(c, p, db', s)
    BY <1>3, <1>7, <2>1, <2>3 DEF Leaves, Removed
  <2>4. Results(c, o, p, db')
    BY <2>2, <2>3 DEF Results
  <2> QED
    BY <1>3, <1>4, <1>5, <1>6, <2>4, GoingOnKeeps
<1>8. CASE pc = "failed"
  <2>1. db' = db
    BY <1>1, <1>8
  <2>2. Results(c, o, p, db')
    BY <1>2, <1>3, <1>8, <2>1 DEF Results
  <2> QED
    BY <1>3, <1>4, <1>5, <1>6, <2>2, GoingOnKeeps
<1> QED
  BY <1>7, <1>8

(* A failed connection or transaction leaves everything as it was. *)
LEMMA TransactionKeeps ==
  ASSUME NEW CONSTANT c, Databases(c)!IndexedDBAssumption, DbInv(c), NEW o \in c.operations, NEW q, Out(c, q, o),
         NEW d, Leaves(c, o, d), Databases(c)!Transaction(o, d),
         conn' \in [c.connections -> Line(c)], \A x \in c.connections : conn'[x].queue = q[x].queue,
         memo' \in [c.stores -> c.connections \cup {None}], now' = now
  PROVE  DbInv(c)'
<1>1. \/ Databases(c)!Ends(o, "done") /\ db' = d
      \/ Databases(c)!Ends(o, "failed") /\ db' = db
  BY Zenon DEF Databases!Transaction, Databases!Fails
<1>2. \/ Databases(c)!Ends(o, "done") /\ Leaves(c, o, db')
      \/ Databases(c)!Ends(o, "failed") /\ db' = db
  BY <1>1
<1> QED
  BY <1>2, EndKeeps

(* A write waits, for shouldPersist or to be tried again.                   *)
LEMMA HoldKeeps ==
  ASSUME NEW CONSTANT c, Databases(c)!IndexedDBAssumption, DbInv(c), NEW o \in c.operations, NEW q, Out(c, q, o),
         ~Immediate(c), NEW p \in Call(c), op' = [op EXCEPT ![o] = p], p.pc \in {"admits", "recovers", "rewrites"},
         p.pc = "admits" => c.policy, p.kind = "set",
         p.kind = op[o].kind, p.store = op[o].store, p.slot = op[o].slot, p.conn = op[o].conn, p.no = op[o].no,
         p.record \in Databases(c)!Record, p.record.by = o, p.record.size \in c.sizes /\ p.record.version = p.slot[1],
         db' \in Table(c), Thinned(c, db, db'), conn' = q,
         memo' \in [c.stores -> c.connections \cup {None}], now' = now
  PROVE  DbInv(c)'
<1>1. q \in [c.connections -> Line(c)] /\ InLine(c, q, op) /\ Absent(c, q, o) /\ op[o].pc \in Live
  BY DEF Out
<1>2. \A s \in Databases(c)!Slot : db'[s] # None => db[s] # None /\ db'[s].by = db[s].by /\ db'[s].sort = db[s].sort
                                                    /\ db'[s].version = db[s].version
  BY DEF Thinned
<1>3. Goes(c, q, o, p)
  BY DEF Goes
<1>4. Results(c, o, p, db')
  BY <1>2 DEF Results
<1>5. \A x \in c.connections : conn'[x].queue = q[x].queue
  OBVIOUS
<1> QED
  BY <1>1, <1>3, <1>4, <1>5, GoingOnKeeps

LEMMA SameTable == ASSUME NEW CONSTANT c, DbInv(c), db' = db PROVE db' \in Table(c) /\ Thinned(c, db, db')
  BY DEF DbInv, DbTyped, Thinned

(* get(), and what else removes nothing that it is asked for.               *)
LEMMA TouchedLeaves ==
  ASSUME NEW CONSTANT c, DbInv(c), NEW o \in c.operations, op[o].kind = "get", op[o].slot \in Databases(c)!Slot
  PROVE  Leaves(c, o, Databases(c)!Touched(o))
<1> DEFINE s == op[o].slot
           v == Databases(c)!V(o)
           marked == [db EXCEPT ![s].at = now]
           gone == {s} \cap Databases(c)!Outdated(v, db)
           d == Databases(c)!Touched(o)
<1>1. db \in Table(c) /\ now \in 0..c.time
  BY DEF DbInv, DbTyped
<1>2. d = IF s \in Databases(c)!Current(v, db) THEN marked ELSE Databases(c)!Minus(db, gone)
  BY DEF Databases!Touched
<1>3. s \in Databases(c)!Current(v, db) => db[s] # None
  BY DEF Databases!Current, Databases!Stored
<1> HIDE DEF d, s, v, gone
<1>4. d \in Table(c) /\ Thinned(c, db, d)
  <2>1. CASE d = Databases(c)!Minus(db, gone)
    BY <1>1, <2>1, MinusThins
  <2>2. CASE d = marked /\ db[s] # None
    <3> DEFINE r == [db[s] EXCEPT !.at = now]
    <3>1. s \in Databases(c)!Slot /\ db[s] \in Databases(c)!Record
      BY <1>1, <2>2 DEF Table, s
    <3>2. r \in Databases(c)!Record /\ r.by = db[s].by /\ r.sort = db[s].sort /\ r.version = db[s].version
      BY <1>1, <3>1 DEF Databases!Record
    <3>3. d = [db EXCEPT ![s] = r]
      BY <2>2
    <3> HIDE DEF r
    <3> QED
      BY <1>1, <2>2, <3>1, <3>2, <3>3 DEF Thinned, Table
  <2> QED
    BY <1>2, <1>3, <2>1, <2>2
<1> QED
  BY <1>4 DEF Leaves, Thinned, Removed, d

(* delete(): what a store wrote to its slot is of its version. *)
LEMMA DeletedLeaves ==
  ASSUME NEW CONSTANT c, Databases(c)!IndexedDBAssumption, DbInv(c), NEW o \in c.operations, op[o].kind = "delete",
         op[o].store \in c.stores, op[o].slot \in OwnSlots(c, op[o].store)
  PROVE  Leaves(c, o, Databases(c)!Deleted(o))
<1> DEFINE v == c.versions[op[o].store]
           future == Databases(c)!Future(v, db)
           gone == {op[o].slot} \ future
           d == Databases(c)!Minus(db, gone)
<1>1. Databases(c)!Deleted(o) = d
  BY DEF Databases!Deleted, Databases!V
<1>2. d \in Table(c) /\ Thinned(c, db, d) /\ \A s \in Databases(c)!Slot : s \in gone => d[s] = None
  BY MinusThins DEF DbInv, DbTyped
<1>3. ASSUME db[op[o].slot] # None, db[op[o].slot].by # None PROVE op[o].slot \notin future
  <2>1. op[o].slot \in Databases(c)!Slot /\ op[o].slot[1] = v /\ v \in Nat
    BY DEF OwnSlots, Databases!IndexedDBAssumption
  <2>2. db[op[o].slot].version = v
    BY <1>3, <2>1 DEF DbInv, Recorded
  <2>3. Databases(c)!Disposition(v, db, op[o].slot) # "future"
    BY <2>1, <2>2 DEF Databases!Disposition
  <2> QED
    BY <2>3 DEF Databases!Future
<1> HIDE DEF d, future
<1>4. ASSUME NEW s \in Databases(c)!Slot, d[s] # None, d[s].by # None PROVE ~Removed(c, op[o], d, s)
  <2>1. s \notin gone /\ db[s] # None /\ db[s].by # None
    BY <1>2, <1>4 DEF Thinned
  <2>2. op[o].slot # s
    BY <1>3, <2>1
  <2> QED
    BY <2>2 DEF Removed
<1> HIDE DEF gone
<1> QED
  BY <1>1, <1>2, <1>4 DEF Leaves, Thinned

(* clear() and invalidateTags(): what is of their version is outdated, or   *)
(* current and theirs to remove. *)
LEMMA VisitedLeaves ==
  ASSUME NEW CONSTANT c, Databases(c)!IndexedDBAssumption, DbInv(c), NEW o \in c.operations, op[o].kind \in {"clear", "tags"}
  PROVE  Leaves(c, o, Databases(c)!Visited(o))
<1> DEFINE v == Databases(c)!V(o)
           outdated == Databases(c)!Outdated(v, db)
           current == Databases(c)!Current(v, db)
           gone == outdated \cup {s \in current : op[o].kind = "clear" \/ db[s].sort = "tagged"}
           d == Databases(c)!Minus(db, gone)
<1>1. Databases(c)!Visited(o) = d
  BY DEF Databases!Visited
<1>2. v = c.versions[op[o].store]
  BY DEF Databases!V
<1>3. \A s \in Databases(c)!Slot : db[s] # None /\ db[s].by # None /\ s[1] = v => s \in outdated \cup current
  <2>1. \A s \in Databases(c)!Slot : db[s] # None /\ db[s].by # None => db[s].version = s[1]
    BY DEF DbInv, Recorded
  <2> QED
    BY <2>1, OwnVersion
<1> HIDE DEF v, outdated, current
<1>4. d \in Table(c) /\ Thinned(c, db, d) /\ \A s \in Databases(c)!Slot : s \in gone => d[s] = None
  BY MinusThins DEF DbInv, DbTyped
<1> HIDE DEF d
<1>5. ASSUME NEW s \in Databases(c)!Slot, d[s] # None, d[s].by # None PROVE ~Removed(c, op[o], d, s)
  <2>1. s \notin gone /\ db[s] # None /\ d[s].sort = db[s].sort /\ d[s].by = db[s].by
    BY <1>4, <1>5 DEF Thinned
  <2>2. s[1] = v => op[o].kind # "clear" /\ db[s].sort # "tagged"
    BY <1>3, <1>5, <2>1
  <2> QED
    BY <1>2, <2>1, <2>2 DEF Removed
<1> HIDE DEF gone
<1> QED
  BY <1>1, <1>4, <1>5 DEF Leaves, Thinned

(* compact(), which removes what nobody asked to remove. *)
LEMMA CompactedLeaves ==
  ASSUME NEW CONSTANT c, DbInv(c), NEW o \in c.operations, op[o].kind \notin Removal, NEW gone
  PROVE  Leaves(c, o, Databases(c)!Minus(db, gone))
<1> DEFINE d == Databases(c)!Minus(db, gone)
<1>1. d \in Table(c) /\ Thinned(c, db, d)
  BY MinusThins DEF DbInv, DbTyped
<1> HIDE DEF d
<1> QED
  BY <1>1 DEF Leaves, Thinned, Removed, Removal, d

(* set(), whose record lands in its own slot. *)
LEMMA WrittenLeaves ==
  ASSUME NEW CONSTANT c, DbInv(c), NEW o \in c.operations, op[o].kind = "set", NEW v, NEW s \in Databases(c)!Slot,
         NEW r \in Databases(c)!Record, r.by = o, r.version = s[1]
  PROVE  Leaves(c, o, Databases(c)!Written(v, db, s, r))
<1> DEFINE d == Databases(c)!Written(v, db, s, r)
<1>1. d \in Table(c) /\ \A t \in Databases(c)!Slot : d[t] # None => \/ (t = s /\ d[t] = r)
                                                               \/ (db[t] # None /\ d[t] = db[t])
  <2>1. db \in Table(c)
    BY DEF DbInv, DbTyped
  <2>2. d = Databases(c)!Written(v, db, s, r)
    OBVIOUS
  <2> HIDE DEF d
  <2> QED
    BY <2>1, <2>2, WrittenFacts, Z3
<1> HIDE DEF d
<1> QED
  BY <1>1 DEF Leaves, Removed, d

(* A write, at once or after admission or quota recovery. *)
LEMMA WriteKeeps ==
  ASSUME NEW CONSTANT c, Databases(c)!IndexedDBAssumption, DbInv(c), NEW o \in c.operations, NEW q, Out(c, q, o),
         op[o].kind = "set", NEW r \in Call(c), r.kind = "set", r.store = op[o].store, r.slot = op[o].slot,
         r.conn = op[o].conn, r.no = op[o].no,
         r.record \in Databases(c)!Record, r.record.by = o, r.record.size \in c.sizes /\ r.record.version = r.slot[1],
         Databases(c)!Write(o, r), conn' = q,
         memo' \in [c.stores -> c.connections \cup {None}], now' = now
  PROVE  DbInv(c)'
<1>1. /\ op[o].slot \in Databases(c)!Slot /\ op[o].pc \in Live
      /\ conn' \in [c.connections -> Line(c)] /\ \A x \in c.connections : conn'[x].queue = q[x].queue
  BY DEF DbInv, Called, Out, OwnSlots, Live
<1>2. CASE db' = Databases(c)!Written(Databases(c)!V(o), db, r.slot, r.record) /\ Databases(c)!Ends(o, "done")
  <2>1. Leaves(c, o, db')
    BY <1>1, <1>2, WrittenLeaves
  <2> QED
    BY <1>1, <1>2, <2>1, EndKeeps
<1>3. CASE db' = db /\ Databases(c)!Ends(o, "failed")
  BY <1>1, <1>3, EndKeeps
<1>4. CASE c.failures /\ c.recovery /\ op' = [op EXCEPT ![o] = [r EXCEPT !.pc = "recovers"]] /\ db' = db
  <2> DEFINE p == [r EXCEPT !.pc = "recovers"]
  <2>1. /\ p \in Call(c) /\ p.pc = "recovers" /\ p.kind = "set" /\ p.store = op[o].store /\ p.slot = op[o].slot
        /\ p.conn = op[o].conn /\ p.no = op[o].no /\ p.record = r.record
    BY DEF Call, Databases!PC
  <2>2. op' = [op EXCEPT ![o] = p] /\ ~Immediate(c)
    BY <1>4 DEF Immediate
  <2> HIDE DEF p
  <2>3. db' \in Table(c) /\ Thinned(c, db, db')
    BY <1>4, SameTable
  <2>4. p.pc \in {"admits", "recovers", "rewrites"} /\ p.pc # "admits"
    BY <2>1
  <2> QED
    BY <2>1, <2>2, <2>3, <2>4, HoldKeeps
<1> QED
  BY <1>2, <1>3, <1>4 DEF Databases!Write, Databases!Fails

(* The head of a queue may go on. *)
LEMMA HeadIsOut ==
  ASSUME NEW CONSTANT c, DbInv(c), NEW x \in c.connections, conn[x].queue # <<>>,
         NEW q, Popped(conn, q, x), NEW o, o = Head(conn[x].queue)
  PROVE  o \in c.operations /\ Out(c, q, o) /\ op[o].pc = "waits" /\ op[o].conn = x
<1>1. /\ conn \in [c.connections -> Line(c)] /\ op \in [c.operations -> Call(c)] /\ InLine(c, conn, op)
      /\ Immediate(c) => Ahead(c, conn, op)
  BY DEF DbInv, DbTyped
<1>2. /\ o \in c.operations /\ op[o].pc = "waits" /\ op[o].conn = x
      /\ q \in [c.connections -> Line(c)] /\ InLine(c, q, op) /\ Absent(c, q, o)
      /\ Ahead(c, conn, op) => /\ Ahead(c, q, op)
                               /\ \A i \in 1..Len(q[x].queue) :
                                     op[q[x].queue[i]].kind = "set" => op[o].no < op[q[x].queue[i]].no
                               /\ op[o].kind = "set" =>
                                     \A y \in c.operations : op[y].conn = x /\ op[y].pc \in {"done", "failed"}
                                        => op[y].no < op[o].no
  BY <1>1, HeadLeaves
<1>3. Ahead(c, conn, op) => Before(c, q, op, op[o])
  BY <1>2 DEF Before
<1> QED
  BY <1>1, <1>2, <1>3 DEF Out, Live

(* A write of what is too large for the store, or not to be kept, becomes a *)
(* removal of what was kept before it. *)
LEMMA RejectedKeeps ==
  ASSUME NEW CONSTANT c, Databases(c)!IndexedDBAssumption, DbInv(c), ~NoRemovals(c), NEW o \in c.operations,
         NEW q, Out(c, q, o), op[o].kind = "set",
         NEW r \in Call(c), r.store = op[o].store, r.slot = op[o].slot, r.no = op[o].no,
         Databases(c)!Await(o, Databases(c)!Rejected(r), q), db' = db, now' = now
  PROVE  DbInv(c)'
<1> DEFINE t == Databases(c)!Rejected(r)
           n == Cardinality(Databases(c)!Asked)
<1>1. /\ op[o].store \in c.stores /\ op[o].slot \in OwnSlots(c, op[o].store) /\ op[o].no <= n
      /\ memo \in [c.stores -> c.connections \cup {None}] /\ op \in [c.operations -> Call(c)]
  BY DEF DbInv, DbTyped, Called, Out, Live
<1>2. t \in Call(c) /\ t.kind = "delete" /\ t.store = op[o].store /\ t.slot = op[o].slot /\ t.no = op[o].no
  BY DEF Databases!Rejected, Call
<1>3. Databases(c)!Await(o, t, q)
  OBVIOUS
<1> HIDE DEF t
<1>4. PICK x \in c.connections :
         /\ op' = [op EXCEPT ![o] = [t EXCEPT !.pc = "waits", !.conn = x]]
         /\ Joined(q, conn', x, t.store, o) /\ memo' \in [c.stores -> c.connections \cup {None}]
  BY <1>1, <1>2, <1>3, AwaitFacts
<1> DEFINE p == [t EXCEPT !.pc = "waits", !.conn = x]
<1>5. /\ p \in Call(c) /\ p.pc = "waits" /\ p.conn = x /\ p.kind = "delete" /\ p.store = t.store /\ p.slot = t.slot
      /\ p.no = t.no
  BY <1>2 DEF Call, Databases!PC
<1>6. op' = [op EXCEPT ![o] = p]
  BY <1>4
<1> HIDE DEF p
<1>7. n \in Nat
  BY <1>1, <1>5, <1>6, AskedFacts
<1>8. p.no = op[o].no /\ p.no <= n + 1 /\ p.kind # "set"
  <2>1. p.no \in Nat
    BY <1>5 DEF Call
  <2> QED
    BY <1>1, <1>2, <1>5, <1>7, <2>1
<1>9. /\ q \in [c.connections -> Line(c)] /\ InLine(c, q, op) /\ Absent(c, q, o) /\ op[o].pc \in Live
      /\ Immediate(c) => Ahead(c, q, op)
  BY DEF Out
<1>10. p.store \in c.stores /\ p.slot \in OwnSlots(c, p.store) /\ p.conn \in c.connections /\ t.store \in c.stores
       /\ Joined(q, conn', p.conn, t.store, o)
  BY <1>1, <1>2, <1>4, <1>5
<1> HIDE DEF n
<1> QED
  BY <1>4, <1>5, <1>6, <1>8, <1>9, <1>10, WaitingKeeps DEF n

LEMMA ProceedKeeps ==
  ASSUME NEW CONSTANT c, Databases(c)!IndexedDBAssumption, DbInv(c), NEW x \in c.connections, Databases(c)!Proceed(x)
  PROVE  DbInv(c)'
<1> DEFINE o == Head(conn[x].queue)
           q == [conn EXCEPT ![x].queue = Tail(@)]
           dated == IF op[o].record = None THEN None ELSE [op[o].record EXCEPT !.at = now]
           r == [op[o] EXCEPT !.record = dated]
<1>1. conn[x].queue # <<>> /\ now' = now
  BY DEF Databases!Proceed
<1>2. o \in c.operations /\ Out(c, q, o) /\ op[o].pc = "waits" /\ op[o].conn = x
  <2>1. Popped(conn, q, x) /\ o = Head(conn[x].queue)
    BY DEF Popped
  <2> HIDE DEF q, o
  <2> QED
    BY <1>1, <2>1, HeadIsOut
<1>3. /\ op \in [c.operations -> Call(c)] /\ now \in 0..c.time /\ memo \in [c.stores -> c.connections \cup {None}]
      /\ q \in [c.connections -> Line(c)]
  BY <1>2 DEF DbInv, DbTyped, Out
<1>4. CASE op[o].kind = "close"
  <2>1. /\ conn' = [q EXCEPT ![x].state = IF @ = "failed" THEN @ ELSE "closed"]
        /\ Databases(c)!Ends(o, "done") /\ db' = db /\ memo' = memo
    BY <1>4 DEF Databases!Proceed
  <2> HIDE DEF q, o, r
  <2>2. conn' \in [c.connections -> Line(c)] /\ \A y \in c.connections : conn'[y].queue = q[y].queue
    <3>1. PICK state \in {"failed", "closed"} : conn' = [q EXCEPT ![x].state = state]
      BY <2>1, Zenon
    <3> QED
      BY <1>3, <3>1 DEF Line
  <2>3. Leaves(c, o, db')
    BY <1>4, <2>1 DEF Leaves, Removed, DbInv, DbTyped
  <2> QED
    BY <1>1, <1>2, <1>3, <2>1, <2>2, <2>3, EndKeeps
<1>5. CASE op[o].kind # "close" /\ conn[x].state = "failed"
  <2>1. Databases(c)!Fails(o) /\ conn' = q /\ memo' = memo
    BY <1>5 DEF Databases!Proceed
  <2> HIDE DEF q, o, r
  <2> QED
    BY <1>1, <1>2, <1>3, <2>1, EndKeeps DEF Databases!Fails
<1>6. CASE op[o].kind = "set" /\ conn[x].state # "failed"
  <2>1. IF r.record.size > c.bytes THEN Databases(c)!Await(o, Databases(c)!Rejected(r), q) /\ db' = db
        ELSE Databases(c)!Admission(o, r) /\ conn' = q /\ memo' = memo
    BY <1>6 DEF Databases!Proceed
  <2>2. op[o].record \in Databases(c)!Record /\ op[o].record.by = o /\ op[o].record.size \in c.sizes
        /\ op[o].record.version = op[o].slot[1]
    BY <1>2, <1>6 DEF DbInv, Called, Live
  <2>3. dated \in Databases(c)!Record /\ dated.by = o /\ dated.size \in c.sizes /\ dated.version = op[o].slot[1]
    BY <1>3, <2>2 DEF Databases!Record
  <2> HIDE DEF q, o, dated
  <2>4. /\ r \in Call(c) /\ r.kind = "set" /\ r.store = op[o].store /\ r.slot = op[o].slot /\ r.conn = op[o].conn
        /\ r.no = op[o].no /\ r.record = dated
    BY <1>2, <1>3, <1>6, <2>3 DEF Call
  <2> HIDE DEF r
  <2>5. CASE r.record.size > c.bytes
    <3>1. ~NoRemovals(c)
      <4>1. r.record.size \in Nat /\ c.bytes \in Nat
        BY <2>3, <2>4 DEF Databases!IndexedDBAssumption
      <4> QED
        BY <2>3, <2>4, <2>5, <4>1 DEF NoRemovals
    <3> QED
      BY <1>1, <1>2, <1>6, <2>1, <2>4, <2>5, <3>1, RejectedKeeps
  <2>6. CASE ~(r.record.size > c.bytes) /\ c.policy
    <3>1. op' = [op EXCEPT ![o] = [r EXCEPT !.pc = "admits"]] /\ db' = db /\ conn' = q /\ memo' = memo
      BY <2>1, <2>6 DEF Databases!Admission
    <3> DEFINE p == [r EXCEPT !.pc = "admits"]
    <3>2. /\ p \in Call(c) /\ p.pc = "admits" /\ p.kind = op[o].kind /\ p.store = op[o].store /\ p.slot = op[o].slot
          /\ p.conn = op[o].conn /\ p.no = op[o].no /\ p.record = dated /\ dated.version = p.slot[1]
      BY <1>6, <2>3, <2>4 DEF Call, Databases!PC
    <3>3. op' = [op EXCEPT ![o] = p] /\ ~Immediate(c) /\ p.kind = "set" /\ p.pc # "done"
      BY <1>6, <2>6, <3>1, <3>2 DEF Immediate
    <3> HIDE DEF p
    <3>4. db' \in Table(c) /\ Thinned(c, db, db')
      BY <3>1, SameTable
    <3>5. p.pc \in {"admits", "recovers", "rewrites"}
      BY <3>2
    <3> QED
      BY <1>1, <1>2, <1>3, <2>3, <2>6, <3>1, <3>2, <3>3, <3>4, <3>5, HoldKeeps
  <2>7. CASE ~(r.record.size > c.bytes) /\ ~c.policy
    <3>1. Databases(c)!Write(o, r) /\ conn' = q /\ memo' = memo
      BY <2>1, <2>7 DEF Databases!Admission
    <3> QED
      BY <1>1, <1>2, <1>3, <1>6, <2>3, <2>4, <3>1, WriteKeeps
  <2> QED
    BY <2>5, <2>6, <2>7
<1>7. CASE op[o].kind \notin {"close", "set"} /\ conn[x].state # "failed"
  <2>1. /\ conn' = q /\ memo' = memo
        /\ \/ op[o].kind = "get" /\ Databases(c)!Transaction(o, Databases(c)!Touched(o))
           \/ op[o].kind = "delete" /\ Databases(c)!Transaction(o, Databases(c)!Deleted(o))
           \/ op[o].kind \in {"tags", "clear"} /\ Databases(c)!Transaction(o, Databases(c)!Visited(o))
           \/ op[o].kind = "compact" /\ Databases(c)!Compact(o)
    BY <1>7 DEF Databases!Proceed
  <2> HIDE DEF q, o, r
  <2>2. op[o].slot \in Databases(c)!Slot /\ op[o].store \in c.stores /\ op[o].slot \in OwnSlots(c, op[o].store)
    BY <1>2, <1>7 DEF DbInv, Called, OwnSlots
  <2>3. ASSUME NEW d, Leaves(c, o, d), Databases(c)!Transaction(o, d) PROVE DbInv(c)'
    BY <1>1, <1>2, <1>3, <2>1, <2>3, TransactionKeeps
  <2>4. CASE op[o].kind = "get" /\ Databases(c)!Transaction(o, Databases(c)!Touched(o))
    BY <1>2, <2>2, <2>3, <2>4, TouchedLeaves
  <2>5. CASE op[o].kind = "delete" /\ Databases(c)!Transaction(o, Databases(c)!Deleted(o))
    BY <1>2, <2>2, <2>3, <2>5, DeletedLeaves
  <2>6. CASE op[o].kind \in {"tags", "clear"} /\ Databases(c)!Transaction(o, Databases(c)!Visited(o))
    BY <1>2, <2>3, <2>6, VisitedLeaves
  <2>7. CASE op[o].kind = "compact" /\ Databases(c)!Compact(o)
    <3>1. PICK gone : Databases(c)!Transaction(o, Databases(c)!Minus(db, gone))
      BY <2>7, Zenon DEF Databases!Compact
    <3>2. Leaves(c, o, Databases(c)!Minus(db, gone))
      BY <1>2, <2>7, CompactedLeaves DEF Removal
    <3> QED
      BY <2>3, <3>1, <3>2
  <2> QED
    BY <2>1, <2>4, <2>5, <2>6, <2>7
<1> QED
  BY <1>4, <1>5, <1>6, <1>7

(* A write that was admitted, or tried once, is in no queue.                *)
LEMMA HeldIsOut ==
  ASSUME NEW CONSTANT c, DbInv(c), NEW o \in c.operations, op[o].pc \in {"admits", "recovers", "rewrites"}
  PROVE  /\ Out(c, conn, o) /\ ~Immediate(c) /\ op[o] \in Call(c) /\ op[o].kind = "set"
         /\ op[o].record \in Databases(c)!Record /\ op[o].record.by = o /\ op[o].record.size \in c.sizes
            /\ op[o].record.version = op[o].slot[1]
         /\ op[o].slot \in Databases(c)!Slot
<1>1. /\ conn \in [c.connections -> Line(c)] /\ op[o] \in Call(c) /\ InLine(c, conn, op) /\ ~Immediate(c)
      /\ op[o].pc # "waits" /\ op[o].pc \in Live
  BY DEF DbInv, DbTyped, Live
<1>2. Absent(c, conn, o)
  BY <1>1 DEF Absent, InLine
<1> QED
  BY <1>1, <1>2 DEF Out, DbInv, Called, OwnSlots, Live

LEMMA AdmitKeeps ==
  ASSUME NEW CONSTANT c, Databases(c)!IndexedDBAssumption, DbInv(c), NEW o \in c.operations, Databases(c)!Admit(o)
  PROVE  DbInv(c)'
<1>1. op[o].pc = "admits" /\ now' = now
  BY DEF Databases!Admit
<1>2. /\ Out(c, conn, o) /\ ~Immediate(c) /\ op[o] \in Call(c) /\ op[o].kind = "set"
      /\ op[o].record \in Databases(c)!Record /\ op[o].record.by = o /\ op[o].record.size \in c.sizes
         /\ op[o].record.version = op[o].slot[1]
  BY <1>1, HeldIsOut
<1>3. ~NoRemovals(c)
  BY <1>1 DEF DbInv, Called, NoRemovals
<1>4. conn \in [c.connections -> Line(c)] /\ memo \in [c.stores -> c.connections \cup {None}]
  BY DEF DbInv, DbTyped
<1>5. CASE Databases(c)!Write(o, op[o]) /\ conn' = conn /\ memo' = memo
  BY <1>1, <1>2, <1>4, <1>5, WriteKeeps
<1>6. CASE Databases(c)!Await(o, Databases(c)!Rejected(op[o]), conn) /\ db' = db
  BY <1>1, <1>2, <1>3, <1>6, RejectedKeeps
<1>7. CASE Databases(c)!Fails(o) /\ conn' = conn /\ memo' = memo
  BY <1>1, <1>2, <1>4, <1>7, EndKeeps DEF Databases!Fails
<1> QED
  BY <1>5, <1>6, <1>7 DEF Databases!Admit

LEMMA RewriteKeeps ==
  ASSUME NEW CONSTANT c, Databases(c)!IndexedDBAssumption, DbInv(c), NEW o \in c.operations, Databases(c)!Rewrite(o)
  PROVE  DbInv(c)'
<1>1. op[o].pc = "rewrites" /\ now' = now /\ conn' = conn /\ memo' = memo /\ Databases(c)!Write(o, op[o])
  BY DEF Databases!Rewrite
<1>2. /\ Out(c, conn, o) /\ ~Immediate(c) /\ op[o] \in Call(c) /\ op[o].kind = "set"
      /\ op[o].record \in Databases(c)!Record /\ op[o].record.by = o /\ op[o].record.size \in c.sizes
         /\ op[o].record.version = op[o].slot[1]
  BY <1>1, HeldIsOut
<1>3. conn \in [c.connections -> Line(c)] /\ memo \in [c.stores -> c.connections \cup {None}]
  BY DEF DbInv, DbTyped
<1> QED
  BY <1>1, <1>2, <1>3, WriteKeeps

LEMMA RecoverKeeps ==
  ASSUME NEW CONSTANT c, Databases(c)!IndexedDBAssumption, DbInv(c), NEW o \in c.operations, Databases(c)!Recover(o)
  PROVE  DbInv(c)'
<1> DEFINE d == Databases(c)!Recovered(Databases(c)!V(o), db)
<1>1. op[o].pc = "recovers" /\ now' = now /\ conn' = conn /\ memo' = memo
  BY DEF Databases!Recover
<1>2. /\ Out(c, conn, o) /\ ~Immediate(c) /\ op[o] \in Call(c) /\ op[o].kind = "set"
      /\ op[o].record \in Databases(c)!Record /\ op[o].record.by = o /\ op[o].record.size \in c.sizes
         /\ op[o].record.version = op[o].slot[1]
  BY <1>1, HeldIsOut
<1>3. conn \in [c.connections -> Line(c)] /\ memo \in [c.stores -> c.connections \cup {None}] /\ db \in Table(c)
  BY DEF DbInv, DbTyped
<1>4. d \in Table(c) /\ Thinned(c, db, d)
  BY <1>3, MinusThins DEF Databases!Recovered
<1>5. \/ db' = db /\ Databases(c)!Ends(o, "failed")
      \/ db' = d /\ op' = [op EXCEPT ![o].pc = "rewrites"]
  BY Zenon DEF Databases!Recover, Databases!Fails
<1>6. CASE db' = db /\ Databases(c)!Ends(o, "failed")
  BY <1>1, <1>2, <1>3, <1>6, EndKeeps
<1>7. CASE db' = d /\ op' = [op EXCEPT ![o].pc = "rewrites"]
  <2> DEFINE p == [op[o] EXCEPT !.pc = "rewrites"]
  <2>1. /\ p \in Call(c) /\ p.pc = "rewrites" /\ p.kind = op[o].kind /\ p.store = op[o].store /\ p.slot = op[o].slot
        /\ p.conn = op[o].conn /\ p.no = op[o].no /\ p.record = op[o].record
    BY <1>2 DEF Call, Databases!PC
  <2>2. op' = [op EXCEPT ![o] = p]
    BY <1>7
  <2> HIDE DEF p, d
  <2>3. db' \in Table(c) /\ Thinned(c, db, db')
    BY <1>4, <1>7
  <2>4. p.pc \in {"admits", "recovers", "rewrites"} /\ p.pc # "admits"
    BY <2>1
  <2> QED
    BY <1>1, <1>2, <1>3, <2>1, <2>2, <2>3, <2>4, HoldKeeps
<1> QED
  BY <1>5, <1>6, <1>7

LEMMA DbStep ==
  ASSUME NEW CONSTANT c, Databases(c)!IndexedDBAssumption, DbInv(c), [Databases(c)!Next]_(Databases(c)!vars)
  PROVE  DbInv(c)'
<1>1. ASSUME NEW o \in c.operations, NEW s \in c.stores, NEW k \in c.keys,
             (\E kind \in c.kinds : Databases(c)!Call(o, kind, s, k)) \/ Databases(c)!Set(o, s, k)
      PROVE  DbInv(c)'
  BY <1>1, CallKeeps, SetKeeps
<1>2. ASSUME NEW o \in c.operations, NEW s \in c.stores, Databases(c)!Close(o, s) PROVE DbInv(c)'
  BY <1>2, CloseKeeps
<1>3. ASSUME NEW x \in c.connections,
             Databases(c)!Open(x) \/ Databases(c)!VersionChange(x) \/ Databases(c)!Proceed(x)
      PROVE  DbInv(c)'
  BY <1>3, OpenKeeps, VersionChangeKeeps, ProceedKeeps
<1>4. ASSUME NEW o \in c.operations,
             Databases(c)!Admit(o) \/ Databases(c)!Recover(o) \/ Databases(c)!Rewrite(o)
      PROVE  DbInv(c)'
  BY <1>4, AdmitKeeps, RecoverKeeps, RewriteKeeps
<1>5. CASE Databases(c)!Tick
  BY <1>5, DbTickKeeps
<1>6. CASE UNCHANGED Databases(c)!vars
  <2>1. op' = op /\ memo' = memo /\ now' = now /\ conn' = conn /\ db' = db
    BY <1>6 DEF Databases!vars
  <2>2. conn \in [c.connections -> Line(c)] /\ now \in 0..c.time /\ db \in Table(c)
    BY DEF DbInv, DbTyped
  <2>3. Thinned(c, db, db')
    BY <2>1 DEF Thinned
  <2> QED
    BY <2>1, <2>2, <2>3, BetweenCallsKeeps
<1> QED
  BY <1>1, <1>2, <1>3, <1>4, <1>5, <1>6 DEF Databases!Next, Databases!Finished

(* Initially there are records of earlier sessions, and no call. *)
LEMMA DbInit ==
  ASSUME NEW CONSTANT c, Databases(c)!IndexedDBAssumption, Databases(c)!Init
  PROVE  DbInv(c)
<1>1. \A r \in Databases(c)!Leftover : r \in Databases(c)!Record /\ r.by = None
  <2> DEFINE left(v) == Databases(c)!Left(v)
  <2>1. \A v \in Databases(c)!Version \cup {None} : left(v) \in Databases(c)!Record /\ left(v).by = None
    BY DEF Databases!Left, Databases!Record, Databases!IndexedDBAssumption
  <2> HIDE DEF left
  <2>2. \A v \in Databases(c)!Version :
           [left(v) EXCEPT !.valid = FALSE] \in Databases(c)!Record /\ [left(v) EXCEPT !.valid = FALSE].by = None
    <3> SUFFICES ASSUME NEW r \in Databases(c)!Record, r.by = None
                 PROVE  [r EXCEPT !.valid = FALSE] \in Databases(c)!Record /\ [r EXCEPT !.valid = FALSE].by = None
      BY <2>1, Zenon
    <3> QED
      BY DEF Databases!Record
  <2> QED
    BY <2>1, <2>2, Zenon DEF Databases!Leftover, left
<1>2. db \in [Databases(c)!Slot -> Databases(c)!Leftover \cup {None}]
  BY DEF Databases!Init
<1>4. db \in Table(c) /\ \A s \in Databases(c)!Slot : db[s] # None => db[s].by = None
  BY <1>1, <1>2 DEF Table
<1> DEFINE idle == [state |-> "none", of |-> None, queue |-> <<>>]
           none == Databases(c)!NoOperation
<1>5. conn = [x \in c.connections |-> idle] /\ op = [o \in c.operations |-> none] /\ memo = [s \in c.stores |-> None]
  BY DEF Databases!Init
<1>6. idle \in Line(c) /\ Len(idle.queue) = 0
  BY DEF Line
<1>7. none \in Call(c) /\ none.pc = "new" /\ none.no = 0
  BY DEF Call, Databases!NoOperation, Databases!PC
<1> HIDE DEF idle, none
<1>8. DbTyped(c)
  BY <1>4, <1>5, <1>6, <1>7 DEF DbTyped, Databases!Init, Databases!IndexedDBAssumption
<1>9. InLine(c, conn, op) /\ Ahead(c, conn, op)
  <2>1. \A x \in c.connections : 1..Len(conn[x].queue) = {}
    BY <1>5, <1>6
  <2> QED
    BY <2>1 DEF InLine, Ahead
<1>10. Called(c)
  <2>1. Cardinality(Databases(c)!Asked) = 0
    <3>1. Databases(c)!Asked = {}
      BY <1>5, <1>7 DEF Databases!Asked
    <3> QED
      BY <3>1, FS_EmptySet
  <2> QED
    BY <1>5, <1>7, <2>1 DEF Called, Live
<1>11. Recorded(c) /\ Outcome(c)
  BY <1>4 DEF Recorded, Outcome
<1>12. \A o \in c.operations : op[o].pc = "new"
  BY <1>5, <1>7
<1> QED
  BY <1>8, <1>9, <1>10, <1>11, <1>12 DEF DbInv

----------------------------------------------------------------------------
\* IndexedDB: the order of a write and a removal

(* When writes go on at once, when nothing removes, and for a single call.  *)
Orderly(c) == Immediate(c) \/ NoRemovals(c) \/ \A o, p \in c.operations : o = p

LEMMA RemovalsWin ==
  ASSUME NEW CONSTANT c, Databases(c)!IndexedDBAssumption, DbInv(c), Orderly(c)
  PROVE  Databases(c)!RemovalWins
<1>1. Databases(c)!TypeOK
  <2>1. \A s \in Databases(c)!Slot : db[s] = None \/ db[s] \in Databases(c)!Record
    BY DEF DbInv, DbTyped, Table
  <2>2. ASSUME NEW x \in c.connections
        PROVE  /\ conn[x].state \in {"none", "opening", "open", "failed", "closed"}
               /\ \A i \in DOMAIN conn[x].queue : op[conn[x].queue[i]].pc = "waits"
    <3>1. conn[x] \in Line(c)
      BY DEF DbInv, DbTyped
    <3>2. conn[x].queue \in Seq(c.operations) /\ conn[x].state \in {"none", "opening", "open", "failed", "closed"}
      BY <3>1 DEF Line
    <3>3. DOMAIN conn[x].queue = 1..Len(conn[x].queue)
      BY <3>2
    <3> QED
      BY <3>2, <3>3 DEF DbInv, InLine
  <2>3. Cardinality(Databases(c)!Asked) \in Nat /\ Cardinality(c.operations) \in Nat
        /\ Cardinality(Databases(c)!Asked) <= Cardinality(c.operations)
    <3>1. IsFiniteSet(c.operations) /\ Databases(c)!Asked \subseteq c.operations
      BY Counted DEF Databases!IndexedDBAssumption, Databases!Asked
    <3> QED
      BY <3>1, FS_Subset, FS_CardinalityType
  <2>4. ASSUME NEW o \in c.operations PROVE op[o].pc \in Databases(c)!PC /\ op[o].no \in Databases(c)!Number
    <3>1. op[o].pc \in Databases(c)!PC /\ op[o].no \in Nat /\ op[o].no <= Cardinality(Databases(c)!Asked)
      BY DEF DbInv, DbTyped, Called, Call
    <3>2. Databases(c)!Number = 0..Cardinality(c.operations)
      BY Counted DEF Databases!Number
    <3> QED
      BY <2>3, <3>1, <3>2
  <2>5. memo \in [c.stores -> c.connections \cup {None}]
    BY DEF DbInv, DbTyped
  <2> QED
    BY <2>1, <2>2, <2>4, <2>5 DEF Databases!TypeOK
<1>2. ASSUME NEW s \in Databases(c)!Slot, NEW o \in c.operations, db[s] # None, db[s].by # None,
             Databases(c)!Removes(o, s), op[o].conn = op[db[s].by].conn
      PROVE  op[o].no < op[db[s].by].no
  <2>1. op[o].pc = "done" /\ op[o].kind \in Removal
    BY <1>2 DEF Databases!Removes, Removal
  <2>2. CASE Immediate(c)
    BY <1>2, <2>2 DEF DbInv, Outcome
  <2>3. CASE NoRemovals(c)
    BY <2>1, <2>3 DEF DbInv, Called
  <2>4. CASE \A x, y \in c.operations : x = y
    <3>1. db[s].by \in c.operations /\ op[db[s].by].kind = "set"
      BY <1>2 DEF DbInv, DbTyped, Table, Databases!Record, Recorded
    <3>2. db[s].by = o
      BY <2>4, <3>1
    <3> QED
      BY <2>1, <3>1, <3>2 DEF Removal
  <2> QED
    BY <2>2, <2>3, <2>4 DEF Orderly
<1> QED
  BY <1>1, <1>2 DEF Databases!RemovalWins

(* IndexedDBCacheStore: a record does not survive a removal that was asked  *)
(* for after its write over the same connection, for any stores, keys,      *)
(* versions, limits and number of calls, if a write neither waits for       *)
(* shouldPersist nor retries after quota recovery, or nothing is removed.   *)
THEOREM OrderlyRemovalsWin ==
  ASSUME NEW CONSTANT c, Databases(c)!IndexedDBAssumption, Orderly(c)
  PROVE  Databases(c)!Spec => []Databases(c)!RemovalWins
<1>1. Databases(c)!Init => DbInv(c)
  BY DbInit
<1>2. DbInv(c) /\ [Databases(c)!Next]_(Databases(c)!vars) => DbInv(c)'
  BY DbStep
<1>3. DbInv(c) => Databases(c)!RemovalWins
  BY RemovalsWin
<1> QED
  BY <1>1, <1>2, <1>3, PTL DEF Databases!Spec

LEMMA PartsAreOrderly == \A c \in {Versions, Limits, Faults, Policy} : Orderly(c)
<1>1. Orderly(Versions) /\ Orderly(Limits)
  BY DEF Orderly, Immediate, Versions, Limits
<1>2. Orderly(Faults)
  BY DEF Orderly, NoRemovals, Removal, Faults
<1>3. Orderly(Policy)
  BY DEF Orderly, Policy
<1> QED
  BY <1>1, <1>2, <1>3

(* The same of the composition that the run checks, without the part whose  *)
(* write waits for shouldPersist beside a removal. *)
THEOREM RemovalWinsHolds == ASSUME "admission" \notin Parts PROVE MCSpec => []RemovalWins
<1> DEFINE Inv == /\ part \in Parts
                  /\ part = "versions" => DbInv(Versions)
                  /\ part = "limits" => DbInv(Limits)
                  /\ part = "faults" => DbInv(Faults)
                  /\ part = "policy" => DbInv(Policy)
<1>1. MCInit => Inv
  <2> SUFFICES ASSUME MCInit PROVE Inv
    OBVIOUS
  <2>1. part \in Parts /\ (part \in IndexedPart => InIndexed(Databases(Versions)!Init, Databases(Limits)!Init,
           Databases(Faults)!Init, Databases(Policy)!Init, Databases(Admission)!Init))
    BY DEF MCInit, TieredPart, IndexedPart
  <2> QED
    BY <2>1, DbInit, StoresAssumption DEF InIndexed, IndexedPart
<1>2. Inv /\ [MCNext]_mcvars => Inv'
  <2> SUFFICES ASSUME Inv, [MCNext]_mcvars PROVE Inv'
    OBVIOUS
  <2>1. part' = part
    BY DEF MCNext, mcvars
  <2>2. /\ part = "versions" => [Databases(Versions)!Next]_(Databases(Versions)!vars)
        /\ part = "limits" => [Databases(Limits)!Next]_(Databases(Limits)!vars)
        /\ part = "faults" => [Databases(Faults)!Next]_(Databases(Faults)!vars)
        /\ part = "policy" => [Databases(Policy)!Next]_(Databases(Policy)!vars)
    BY DEF MCNext, mcvars, indexed, Databases!vars
  <2> QED
    BY <2>1, <2>2, DbStep, StoresAssumption
<1>3. Inv => RemovalWins
  BY RemovalsWin, PartsAreOrderly, StoresAssumption DEF RemovalWins, InIndexed, IndexedPart
<1> QED
  BY <1>1, <1>2, <1>3, PTL DEF MCSpec

----------------------------------------------------------------------------
\* IndexedDB: records of a newer schema version

\* From d to e, no readable record of a version above v changes.
Spares(c, v, d, e) ==
    \A s \in Databases(c)!Slot : d[s] # None /\ d[s].version # None /\ e[s] # d[s] => v >= d[s].version

(* What is not a version's future is no newer than it.                      *)
LEMMA NoneNewer ==
  ASSUME NEW c, Databases(c)!IndexedDBAssumption, NEW x \in c.stores, NEW d \in Table(c), NEW s \in Databases(c)!Slot,
         d[s] # None, d[s].version # None
  PROVE  /\ s \in Databases(c)!Outdated(c.versions[x], d) => c.versions[x] >= d[s].version
         /\ s \in Databases(c)!Current(c.versions[x], d) => c.versions[x] >= d[s].version
         /\ s \notin Databases(c)!Future(c.versions[x], d) => c.versions[x] >= d[s].version
<1> DEFINE v == c.versions[x]
           n == d[s].version
<1>1. v \in Nat /\ n \in Nat
  <2>1. n \in Databases(c)!Version
    BY DEF Table, Databases!Record
  <2> QED
    BY <2>1 DEF Databases!Version, Databases!IndexedDBAssumption
<1>2. ~(v >= n) => Databases(c)!Disposition(v, d, s) = "future"
  BY <1>1 DEF Databases!Disposition
<1> HIDE DEF v, n
<1>3. /\ s \in Databases(c)!Outdated(v, d) => Databases(c)!Disposition(v, d, s) \in {"malformed", "schema-version"}
      /\ s \in Databases(c)!Current(v, d) => Databases(c)!Disposition(v, d, s) = "current"
      /\ s \notin Databases(c)!Future(v, d) => Databases(c)!Disposition(v, d, s) # "future"
  BY DEF Databases!Outdated, Databases!Current, Databases!Future, Databases!Stored
<1>4. /\ s \in Databases(c)!Outdated(v, d) => v >= n
      /\ s \in Databases(c)!Current(v, d) => v >= n
      /\ s \notin Databases(c)!Future(v, d) => v >= n
  BY <1>2, <1>3
<1> QED
  BY <1>4 DEF v, n

LEMMA MinusSpares ==
  ASSUME NEW c, Databases(c)!IndexedDBAssumption, NEW x \in c.stores, NEW d \in Table(c), NEW gone,
         \A s \in gone : \/ s \in Databases(c)!Outdated(c.versions[x], d)
                         \/ s \in Databases(c)!Current(c.versions[x], d)
                         \/ s \notin Databases(c)!Future(c.versions[x], d)
  PROVE  Spares(c, c.versions[x], d, Databases(c)!Minus(d, gone))
<1> DEFINE e == Databases(c)!Minus(d, gone)
<1>1. \A s \in Databases(c)!Slot : e[s] # d[s] => s \in gone
  BY DEF Databases!Minus
<1> HIDE DEF e
<1>2. ASSUME NEW s \in Databases(c)!Slot, d[s] # None, d[s].version # None, e[s] # d[s]
      PROVE  c.versions[x] >= d[s].version
  <2>1. \/ s \in Databases(c)!Outdated(c.versions[x], d)
        \/ s \in Databases(c)!Current(c.versions[x], d)
        \/ s \notin Databases(c)!Future(c.versions[x], d)
    BY <1>1, <1>2
  <2> QED
    BY <1>2, <2>1, NoneNewer
<1> QED
  BY <1>2 DEF Spares, e

(* A write puts its record where no newer one is, and drops no newer one.   *)
LEMMA WrittenSpares ==
  ASSUME NEW c, Databases(c)!IndexedDBAssumption, NEW x \in c.stores, NEW d \in Table(c), NEW s \in OwnSlots(c, x),
         NEW r \in Databases(c)!Record
  PROVE  Spares(c, c.versions[x], d, Databases(c)!Written(c.versions[x], d, s, r))
<1> DEFINE v == c.versions[x]
           put == [d EXCEPT ![s] = r]
           gone == Databases(c)!Outdated(v, put)
           kept == Databases(c)!Minus(put, gone)
           over == Databases(c)!Evicted(kept, Databases(c)!Current(v, kept), s)
           e == Databases(c)!Minus(kept, over)
<1>1. Databases(c)!Written(v, d, s, r) = IF s \in Databases(c)!Future(v, d) THEN d ELSE e
  BY DEF Databases!Written
<1>2. put \in Table(c) /\ \A t \in Databases(c)!Slot : t # s => put[t] = d[t]
  BY DEF Table, OwnSlots
<1>3. over \subseteq Databases(c)!Current(v, kept)
  BY DEF Databases!Evicted
<1> HIDE DEF put, gone, over
<1>4. kept \in Table(c) /\ \A t \in Databases(c)!Slot : kept[t] # put[t] => t \in gone
  BY <1>2 DEF Databases!Minus, Table
<1> HIDE DEF kept
<1>5. \A t \in Databases(c)!Slot : e[t] # kept[t] => t \in over
  BY DEF Databases!Minus
<1> HIDE DEF e, v
<1>6. ASSUME s \notin Databases(c)!Future(v, d),
             NEW t \in Databases(c)!Slot, d[t] # None, d[t].version # None, e[t] # d[t]
      PROVE  v >= d[t].version
  <2>1. CASE t = s
    BY <1>6, <2>1, NoneNewer DEF v
  <2>2. CASE t # s /\ t \in gone
    <3>1. put[t] = d[t]
      BY <1>2, <2>2
    <3>2. v >= put[t].version
      BY <1>2, <1>6, <2>2, <3>1, NoneNewer DEF v, gone
    <3> QED
      BY <3>1, <3>2
  <2>3. CASE t # s /\ t \notin gone /\ t \in over
    <3>1. kept[t] = d[t]
      BY <1>2, <1>4, <2>3
    <3>2. v >= kept[t].version
      BY <1>3, <1>4, <1>6, <2>3, <3>1, NoneNewer DEF v
    <3> QED
      BY <3>1, <3>2
  <2> QED
    BY <1>2, <1>4, <1>5, <1>6, <2>1, <2>2, <2>3
<1> QED
  BY <1>1, <1>6 DEF Spares, v

(* A change that spares newer records, in a step of a store of version v.   *)
LEMMA SparesKeepsNewer ==
  ASSUME NEW CONSTANT c, NEW x \in c.stores, Spares(c, c.versions[x], db, db'), Databases(c)!Acts(x)
  PROVE  Databases(c)!KeepsNewer
  BY DEF Spares, Databases!KeepsNewer

LEMMA SameKeepsNewer ==
  ASSUME NEW CONSTANT c, db' = db
  PROVE  Databases(c)!KeepsNewer
  BY DEF Databases!KeepsNewer

(* A call of x ends. *)
LEMMA EndsActs ==
  ASSUME NEW CONSTANT c, DbInv(c), NEW o \in c.operations, op[o].pc \in Live, NEW pc \in {"done", "failed", "rewrites"},
         op'[o].pc = pc, op[o].pc # pc
  PROVE  Databases(c)!Acts(op[o].store)
  BY DEF Databases!Acts

LEMMA EndsPc ==
  ASSUME NEW CONSTANT c, DbInv(c), NEW o \in c.operations, NEW pc, Databases(c)!Ends(o, pc)
  PROVE  op'[o].pc = pc
<1>1. op \in [c.operations -> Call(c)]
  BY DEF DbInv, DbTyped
<1>2. op[o] = [f \in DOMAIN op[o] |-> op[o][f]] /\ "pc" \in DOMAIN op[o]
  BY <1>1 DEF Call
<1> QED
  BY <1>1, <1>2 DEF Databases!Ends, Call

LEMMA TransactionSpares ==
  ASSUME NEW CONSTANT c, DbInv(c), NEW o \in c.operations, op[o].pc \in Live, op[o].store \in c.stores, NEW d,
         Spares(c, c.versions[op[o].store], db, d), Databases(c)!Transaction(o, d)
  PROVE  Databases(c)!KeepsNewer
<1>1. CASE db' = d /\ Databases(c)!Ends(o, "done")
  <2>1. op'[o].pc = "done" /\ op[o].pc # "done"
    BY <1>1, EndsPc DEF Live
  <2>2. Databases(c)!Acts(op[o].store)
    BY <2>1, EndsActs
  <2> QED
    BY <1>1, <2>2, SparesKeepsNewer
<1> QED
  BY <1>1, SameKeepsNewer DEF Databases!Transaction, Databases!Fails

LEMMA WriteSpares ==
  ASSUME NEW CONSTANT c, Databases(c)!IndexedDBAssumption, DbInv(c), NEW o \in c.operations, op[o].pc \in Live,
         op[o].store \in c.stores, NEW r, r.slot \in OwnSlots(c, op[o].store), r.record \in Databases(c)!Record,
         Databases(c)!Write(o, r)
  PROVE  Databases(c)!KeepsNewer
<1>1. CASE db' = Databases(c)!Written(c.versions[op[o].store], db, r.slot, r.record) /\ Databases(c)!Ends(o, "done")
  <2>1. op'[o].pc = "done" /\ op[o].pc # "done"
    BY <1>1, EndsPc DEF Live
  <2>2. Databases(c)!Acts(op[o].store)
    BY <2>1, EndsActs
  <2>3. db \in Table(c)
    BY DEF DbInv, DbTyped
  <2>4. Spares(c, c.versions[op[o].store], db, db')
    BY <1>1, <2>3, WrittenSpares
  <2> QED
    BY <2>2, <2>4, SparesKeepsNewer
<1>2. CASE db' = db
  BY <1>2, SameKeepsNewer
<1> QED
  BY <1>1, <1>2 DEF Databases!Write, Databases!Fails, Databases!V

(* get() changes a record of its version, or drops an outdated one. *)
LEMMA TouchedSpares ==
  ASSUME NEW CONSTANT c, Databases(c)!IndexedDBAssumption, DbInv(c), NEW o \in c.operations,
         op[o].store \in c.stores, op[o].slot \in OwnSlots(c, op[o].store)
  PROVE  Spares(c, c.versions[op[o].store], db, Databases(c)!Touched(o))
<1> DEFINE d == Databases(c)!Touched(o)
           v == c.versions[op[o].store]
<1>1. db \in Table(c)
  BY DEF DbInv, DbTyped
<1>2. \A s \in Databases(c)!Slot :
         d[s] # db[s] => s \in Databases(c)!Current(v, db) \/ s \in Databases(c)!Outdated(v, db)
  BY <1>1 DEF Databases!Touched, Databases!Minus, Databases!V, Table
<1> HIDE DEF d
<1> QED
  BY <1>1, <1>2, NoneNewer DEF Spares, d

LEMMA OpenSpares ==
  ASSUME NEW CONSTANT c, Databases(c)!IndexedDBAssumption, DbInv(c), NEW x \in c.connections, Databases(c)!Open(x)
  PROVE  Databases(c)!KeepsNewer
<1>1. /\ conn[x] \in Line(c) /\ conn \in [c.connections -> Line(c)] /\ db \in Table(c)
      /\ conn[x].state = "opening" /\ conn[x].of \in c.stores
  BY DEF DbInv, DbTyped, Line, Databases!Open
<1>2. CASE /\ conn' = [conn EXCEPT ![x].state = "open"]
           /\ db' = Databases(c)!Minus(db, Databases(c)!Outdated(c.versions[conn[x].of], db))
  <2>1. conn'[x].state = "open"
    BY <1>1, <1>2 DEF Line
  <2>2. Databases(c)!Acts(conn[x].of)
    BY <1>1, <2>1 DEF Databases!Acts
  <2>3. Spares(c, c.versions[conn[x].of], db, db')
    BY <1>1, <1>2, MinusSpares
  <2> QED
    BY <1>1, <2>2, <2>3, SparesKeepsNewer
<1>3. CASE db' = db
  BY <1>3, SameKeepsNewer
<1> QED
  BY <1>2, <1>3 DEF Databases!Open

LEMMA ProceedSpares ==
  ASSUME NEW CONSTANT c, Databases(c)!IndexedDBAssumption, DbInv(c), NEW x \in c.connections, Databases(c)!Proceed(x)
  PROVE  Databases(c)!KeepsNewer
<1> DEFINE o == Head(conn[x].queue)
           q == [conn EXCEPT ![x].queue = Tail(@)]
           dated == IF op[o].record = None THEN None ELSE [op[o].record EXCEPT !.at = now]
           r == [op[o] EXCEPT !.record = dated]
           s == op[o].store
<1>1. conn[x].queue # <<>>
  BY DEF Databases!Proceed
<1>2. o \in c.operations /\ op[o].pc = "waits" /\ op[o].pc \in Live /\ op[o] \in Call(c)
  <2>1. Popped(conn, q, x) /\ o = Head(conn[x].queue)
    BY DEF Popped
  <2> HIDE DEF q, o
  <2> QED
    BY <1>1, <2>1, HeadIsOut DEF Live, DbInv, DbTyped
<1>3. op[o].kind # "close" => s \in c.stores /\ op[o].slot \in OwnSlots(c, s)
  BY <1>2 DEF DbInv, Called
<1>4. db \in Table(c)
  BY DEF DbInv, DbTyped
<1>5. CASE op[o].kind = "close"
  <2>1. db' = db
    BY <1>5 DEF Databases!Proceed
  <2> QED
    BY <2>1, SameKeepsNewer
<1>6. CASE op[o].kind # "close" /\ conn[x].state = "failed"
  <2>1. Databases(c)!Fails(o)
    BY <1>6 DEF Databases!Proceed
  <2>2. db' = db
    BY <2>1 DEF Databases!Fails
  <2> QED
    BY <2>2, SameKeepsNewer
<1>7. CASE op[o].kind = "set" /\ conn[x].state # "failed"
  <2>1. IF r.record.size > c.bytes THEN Databases(c)!Await(o, Databases(c)!Rejected(r), q) /\ db' = db
        ELSE Databases(c)!Admission(o, r) /\ conn' = q /\ memo' = memo
    BY <1>7 DEF Databases!Proceed
  <2>6. dated \in Databases(c)!Record
    <3>1. op[o].record \in Databases(c)!Record /\ now \in 0..c.time
      BY <1>2, <1>7 DEF DbInv, DbTyped, Called
    <3> QED
      BY <3>1 DEF Databases!Record
  <2> HIDE DEF q, o, dated
  <2>2. r.slot = op[o].slot /\ r.record = dated
    BY <1>2 DEF Call
  <2> HIDE DEF r, s
  <2>3. db' = db \/ Databases(c)!Write(o, r)
    BY <2>1, Zenon DEF Databases!Admission
  <2>4. op[o].kind # "close"
    BY <1>7
  <2>5. op[o].store \in c.stores /\ r.slot \in OwnSlots(c, op[o].store)
    BY <1>3, <2>2, <2>4 DEF s
  <2> QED
    BY <1>2, <2>2, <2>3, <2>5, <2>6, WriteSpares, SameKeepsNewer
<1>8. CASE op[o].kind \notin {"close", "set"} /\ conn[x].state # "failed"
  <2>1. \/ op[o].kind = "get" /\ Databases(c)!Transaction(o, Databases(c)!Touched(o))
        \/ op[o].kind = "delete" /\ Databases(c)!Transaction(o, Databases(c)!Deleted(o))
        \/ op[o].kind \in {"tags", "clear"} /\ Databases(c)!Transaction(o, Databases(c)!Visited(o))
        \/ op[o].kind = "compact" /\ Databases(c)!Compact(o)
    BY <1>8 DEF Databases!Proceed
  <2> HIDE DEF o
  <2>2. s \in c.stores /\ op[o].slot \in OwnSlots(c, s)
    BY <1>3, <1>8
  <2>3. ASSUME NEW d, Spares(c, c.versions[s], db, d), Databases(c)!Transaction(o, d)
        PROVE  Databases(c)!KeepsNewer
    BY <1>2, <2>2, <2>3, TransactionSpares
  <2>4. CASE Databases(c)!Transaction(o, Databases(c)!Touched(o))
    BY <1>2, <2>2, <2>3, <2>4, TouchedSpares
  <2>5. CASE Databases(c)!Transaction(o, Databases(c)!Deleted(o))
    <3>1. Spares(c, c.versions[s], db, Databases(c)!Deleted(o))
      BY <1>4, <2>2, MinusSpares DEF Databases!Deleted, Databases!V
    <3> QED
      BY <2>3, <2>5, <3>1
  <2>6. CASE Databases(c)!Transaction(o, Databases(c)!Visited(o))
    <3>1. Spares(c, c.versions[s], db, Databases(c)!Visited(o))
      BY <1>4, <2>2, MinusSpares DEF Databases!Visited, Databases!V
    <3> QED
      BY <2>3, <2>6, <3>1
  <2>7. CASE Databases(c)!Compact(o)
    <3>1. PICK gone \in SUBSET (Databases(c)!Outdated(c.versions[s], db) \cup Databases(c)!Current(c.versions[s], db)) :
             Databases(c)!Transaction(o, Databases(c)!Minus(db, gone))
      BY <2>7, Zenon DEF Databases!Compact, Databases!V
    <3>2. Spares(c, c.versions[s], db, Databases(c)!Minus(db, gone))
      BY <1>4, <2>2, MinusSpares
    <3> QED
      BY <2>3, <3>1, <3>2
  <2> QED
    BY <2>1, <2>4, <2>5, <2>6, <2>7
<1> QED
  BY <1>5, <1>6, <1>7, <1>8

LEMMA HeldSpares ==
  ASSUME NEW CONSTANT c, Databases(c)!IndexedDBAssumption, DbInv(c), NEW o \in c.operations,
         Databases(c)!Admit(o) \/ Databases(c)!Recover(o) \/ Databases(c)!Rewrite(o)
  PROVE  Databases(c)!KeepsNewer
<1> DEFINE s == op[o].store
           v == c.versions[s]
           d == Databases(c)!Recovered(v, db)
<1>1. op[o].pc \in {"admits", "recovers", "rewrites"}
  BY DEF Databases!Admit, Databases!Recover, Databases!Rewrite
<1>2. op[o].pc \in Live /\ op[o].kind = "set" /\ op[o].record \in Databases(c)!Record
  BY <1>1, HeldIsOut DEF Live
<1>3. op[o].pc # "new" /\ op[o].kind # "close"
  BY <1>1, <1>2
<1>4. s \in c.stores /\ op[o].slot \in OwnSlots(c, s)
  BY <1>3 DEF DbInv, Called
<1>5. db \in Table(c) /\ op \in [c.operations -> Call(c)]
  BY DEF DbInv, DbTyped
<1>6. CASE Databases(c)!Write(o, op[o])
  BY <1>2, <1>4, <1>6, WriteSpares
<1>7. CASE db' = db
  BY <1>7, SameKeepsNewer
<1>8. CASE /\ op[o].pc = "recovers" /\ db' = d
           /\ op' = [op EXCEPT ![o].pc = "rewrites"]
  <2>1. op'[o].pc = "rewrites" /\ op[o].pc # "rewrites"
    BY <1>5, <1>8 DEF Call
  <2>2. Databases(c)!Acts(s)
    BY <1>2, <2>1, EndsActs
  <2>3. Spares(c, v, db, d)
    BY <1>4, <1>5, MinusSpares DEF Databases!Recovered, Databases!OldHalf
  <2> QED
    BY <1>4, <1>8, <2>2, <2>3, SparesKeepsNewer
<1> HIDE DEF s, d
<1>9. Databases(c)!V(o) = v
  BY DEF Databases!V, s
<1>10. \/ Databases(c)!Write(o, op[o])
       \/ db' = db
       \/ op[o].pc = "recovers" /\ db' = d /\ op' = [op EXCEPT ![o].pc = "rewrites"]
  BY <1>9, Zenon DEF Databases!Admit, Databases!Recover, Databases!Rewrite, Databases!Fails, d
<1> QED
  BY <1>6, <1>7, <1>8, <1>10

LEMMA DbStepSpares ==
  ASSUME NEW CONSTANT c, Databases(c)!IndexedDBAssumption, DbInv(c), [Databases(c)!Next]_(Databases(c)!vars)
  PROVE  Databases(c)!KeepsNewer
<1>1. ASSUME NEW o \in c.operations, NEW s \in c.stores, NEW k \in c.keys,
             (\E kind \in c.kinds : Databases(c)!Call(o, kind, s, k)) \/ Databases(c)!Set(o, s, k)
      PROVE  Databases(c)!KeepsNewer
  BY <1>1, SameKeepsNewer DEF Databases!Call, Databases!Set
<1>2. ASSUME NEW o \in c.operations, NEW s \in c.stores, Databases(c)!Close(o, s) PROVE Databases(c)!KeepsNewer
  BY <1>2, SameKeepsNewer DEF Databases!Close
<1>3. ASSUME NEW x \in c.connections,
             Databases(c)!Open(x) \/ Databases(c)!VersionChange(x) \/ Databases(c)!Proceed(x)
      PROVE  Databases(c)!KeepsNewer
  <2>1. CASE Databases(c)!VersionChange(x)
    BY <2>1, SameKeepsNewer DEF Databases!VersionChange
  <2> QED
    BY <1>3, <2>1, OpenSpares, ProceedSpares
<1>4. ASSUME NEW o \in c.operations,
             Databases(c)!Admit(o) \/ Databases(c)!Recover(o) \/ Databases(c)!Rewrite(o)
      PROVE  Databases(c)!KeepsNewer
  BY <1>4, HeldSpares
<1>5. CASE Databases(c)!Tick \/ UNCHANGED Databases(c)!vars
  BY <1>5, SameKeepsNewer DEF Databases!Tick, Databases!vars
<1> QED
  BY <1>1, <1>2, <1>3, <1>4, <1>5 DEF Databases!Next, Databases!Finished

(* For every set of stores, versions, limits and calls: nothing that a store *)
(* of an older schema version does (opening and pruning, get(), set() with   *)
(* its evictions and quota recovery, delete(), clear(), invalidateTags(),    *)
(* compact()) changes a readable record of a newer one.                      *)
THEOREM NewerRecordsKept ==
  ASSUME NEW CONSTANT c, Databases(c)!IndexedDBAssumption
  PROVE  Databases(c)!Spec => [][Databases(c)!KeepsNewer]_(Databases(c)!vars)
<1>1. Databases(c)!Init => DbInv(c)
  BY DbInit
<1>2. DbInv(c) /\ [Databases(c)!Next]_(Databases(c)!vars) => DbInv(c)'
  BY DbStep
<1>3. DbInv(c) /\ [Databases(c)!Next]_(Databases(c)!vars) => [Databases(c)!KeepsNewer]_(Databases(c)!vars)
  BY DbStepSpares
<1> QED
  BY <1>1, <1>2, <1>3, PTL DEF Databases!Spec

----------------------------------------------------------------------------
\* Tiered: parts of a sequence

\* What Select takes of s at the indices of I: how much, from where, and that
\* the last element stays the last.
Selected(S, s, I, r) ==
    /\ r \in Seq(S) /\ Len(r) \in Nat /\ Len(r) = Cardinality(I) /\ Len(r) <= Len(s)
    /\ (I # 1..Len(s) => Len(r) < Len(s))
    /\ \E at \in [1..Len(r) -> I] : /\ \A m \in 1..Len(r) : r[m] = s[at[m]]
                                    /\ \A m, p \in 1..Len(r) : at[m] = at[p] => m = p
    /\ Len(s) \in I => Len(r) > 0 /\ r[Len(r)] = s[Len(s)]

LEMMA Least ==
  ASSUME NEW T \in SUBSET Nat, T # {}
  PROVE  \E m \in T : \A n \in T : m <= n
<1>1. PICK m \in T : \A n \in T : <<n, m>> \notin OpToRel(<, Nat)
  BY NatLessThanWellFounded, WFMin, Zenon
<1>2. \A n \in T : ~(n < m)
  BY <1>1 DEF OpToRel
<1> QED
  BY <1>2

LEMMA Counts ==
  ASSUME NEW CONSTANT c, NEW S
  PROVE  Tiers(c)!Memory!Cardinality(S) = Cardinality(S) /\ Tiers(c)!Cardinality(S) = Cardinality(S)
<1>1. Tiers(c)!Memory!Cardinality(S) = Cardinality(S)
  BY DEF Tiers!Memory!Cardinality, Cardinality
<1>2. Tiers(c)!Cardinality(S) = Cardinality(S)
  BY DEF Tiers!Cardinality, Cardinality
<1> QED
  BY <1>1, <1>2

LEMMA SelectFacts ==
  ASSUME NEW CONSTANT c, NEW S, NEW s \in Seq(S), NEW I \in SUBSET (1..Len(s))
  PROVE  Selected(S, s, I, Tiers(c)!Memory!Select(s, I))
<1> DEFINE N == Len(s)
           M == Cardinality(I)
           upTo(i) == {j \in I : j <= i}
           rank == [i \in I |-> Cardinality(upTo(i))]
           pick(m) == CHOOSE i \in I : Tiers(c)!Memory!Cardinality(upTo(i)) = m
           at == [m \in 1..M |-> pick(m)]
           r == Tiers(c)!Memory!Select(s, I)
<1>1. N \in Nat /\ \A i \in I : i \in Nat /\ i <= N /\ s[i] \in S
  OBVIOUS
<1>2. IsFiniteSet(1..N) /\ Cardinality(1..N) = N
  BY <1>1, FS_Interval
<1>3. IsFiniteSet(I) /\ M <= N /\ (I # 1..N => M # N)
  <2> HIDE DEF N
  <2>1. I \in SUBSET (1..N)
    BY DEF N
  <2> QED
    BY <1>2, <2>1, FS_Subset
<1>4. M \in Nat
  BY <1>3, FS_CardinalityType
<1>5. ASSUME NEW i \in I PROVE IsFiniteSet(upTo(i)) /\ rank[i] \in 1..M
  <2>1. upTo(i) \in SUBSET I /\ i \in upTo(i)
    BY <1>1
  <2>2. rank[i] = Cardinality(upTo(i))
    OBVIOUS
  <2> HIDE DEF upTo, M
  <2>3. IsFiniteSet(upTo(i)) /\ Cardinality(upTo(i)) <= Cardinality(I)
    BY <1>3, <2>1, FS_Subset
  <2>4. Cardinality(upTo(i)) \in Nat /\ Cardinality(upTo(i)) # 0
    BY <2>1, <2>3, FS_CardinalityType, FS_EmptySet
  <2> HIDE DEF rank
  <2> QED
    BY <1>4, <2>2, <2>3, <2>4 DEF M
<1>6. ASSUME NEW i \in I, NEW j \in I, i < j PROVE rank[i] < rank[j]
  <2>1. upTo(i) \in SUBSET upTo(j) /\ upTo(i) # upTo(j)
    <3>1. i \in Nat /\ j \in Nat /\ j \in upTo(j) /\ j \notin upTo(i)
      BY <1>1, <1>6
    <3>2. \A x \in I : x <= i => x <= j
      BY <1>1, <1>6
    <3>3. \A x \in upTo(i) : x \in upTo(j)
      BY <3>2
    <3> HIDE DEF upTo
    <3> QED
      BY <3>1, <3>3
  <2>2. rank[i] = Cardinality(upTo(i)) /\ rank[j] = Cardinality(upTo(j))
    OBVIOUS
  <2> HIDE DEF upTo, rank, M
  <2>3. IsFiniteSet(upTo(j)) /\ rank[i] \in Nat /\ rank[j] \in Nat
    <3>1. rank[i] \in 1..M /\ rank[j] \in 1..M
      BY <1>5
    <3> QED
      BY <1>4, <1>5, <3>1
  <2>4. Cardinality(upTo(i)) <= Cardinality(upTo(j)) /\ Cardinality(upTo(i)) # Cardinality(upTo(j))
    BY <2>1, <2>3, FS_Subset
  <2> QED
    BY <2>2, <2>3, <2>4
<1>7. \A i, j \in I : rank[i] = rank[j] => i = j
  <2> SUFFICES ASSUME NEW i \in I, NEW j \in I, rank[i] = rank[j] PROVE i = j
    OBVIOUS
  <2> HIDE DEF rank
  <2>1. rank[i] \in 1..M
    BY <1>5
  <2>2. rank[i] \in Int
    BY <1>4, <2>1
  <2> QED
    BY <1>1, <1>6, <2>2
<1>8. \A m \in 1..M : \E i \in I : rank[i] = m
  <2>1. IsFiniteSet(1..M) /\ Cardinality(1..M) = M
    BY <1>4, FS_Interval
  <2>2. rank \in [I -> 1..M]
    BY <1>5
  <2>3. M = Cardinality(I)
    OBVIOUS
  <2> HIDE DEF rank, M
  <2>4. rank \in Injection(I, 1..M)
    BY <1>7, <2>2 DEF Injection, IsInjective
  <2>5. rank \in Surjection(I, 1..M)
    BY <2>1, <2>3, <2>4, FS_Injection
  <2> QED
    BY <2>5 DEF Surjection
<1>9. ASSUME NEW m \in 1..M PROVE at[m] \in I /\ rank[at[m]] = m
  <2>1. \A i \in I : rank[i] = Tiers(c)!Memory!Cardinality(upTo(i))
    <3> SUFFICES ASSUME NEW i \in I PROVE rank[i] = Tiers(c)!Memory!Cardinality(upTo(i))
      OBVIOUS
    <3>1. rank[i] = Cardinality(upTo(i))
      OBVIOUS
    <3> HIDE DEF upTo, rank
    <3> QED
      BY <3>1, Counts
  <2>2. \E i \in I : rank[i] = m
    BY <1>8
  <2>3. at[m] = CHOOSE i \in I : Tiers(c)!Memory!Cardinality(upTo(i)) = m
    OBVIOUS
  <2> HIDE DEF upTo, rank, at
  <2> QED
    BY <2>1, <2>2, <2>3
<1>10. r = [m \in 1..M |-> s[at[m]]]
  <2>1. r = [m \in 1..(Tiers(c)!Memory!Cardinality(I)) |->
               s[pick(m)]]
    BY DEF Tiers!Memory!Select
  <2>2. \A m \in 1..M : at[m] = pick(m)
    OBVIOUS
  <2>3. Tiers(c)!Memory!Cardinality(I) = M
    BY Counts
  <2> HIDE DEF r, upTo, M, at, pick
  <2> QED
    BY <2>1, <2>2, <2>3
<1>11. \A m, p \in 1..M : at[m] = at[p] => m = p
  BY <1>9
<1> HIDE DEF r, at, pick, rank, M, N
<1>12. r \in Seq(S) /\ Len(r) = M /\ (\A m \in 1..M : r[m] = s[at[m]])
  <2>1. \A m \in 1..M : s[at[m]] \in S
    BY <1>1, <1>9
  <2> QED
    BY <1>4, <1>10, <2>1
<1>13. at \in [1..M -> I]
  <2>1. at = [m \in 1..M |-> at[m]]
    <3> HIDE DEF upTo
    <3> QED
      BY DEF at
  <2> QED
    BY <1>9, <2>1
<1>14. ASSUME N \in I PROVE M > 0 /\ r[M] = s[N]
  <2>1. rank[N] \in 1..M
    BY <1>5, <1>14
  <2>2. M \in 1..M
    BY <1>4, <2>1
  <2>3. at[M] \in I /\ rank[at[M]] = M
    BY <1>9, <2>2
  <2>4. at[M] <= N /\ at[M] \in Nat
    BY <1>1, <2>3
  <2>5. ~(at[M] < N)
    <3>1. SUFFICES ASSUME at[M] < N PROVE FALSE
      OBVIOUS
    <3>2. rank[at[M]] < rank[N]
      BY <1>6, <1>14, <2>3, <3>1
    <3> QED
      BY <1>4, <2>1, <2>3, <3>2
  <2>6. at[M] = N
    BY <1>1, <2>4, <2>5
  <2> QED
    BY <1>4, <1>12, <2>2, <2>6
<1>15. Len(r) \in Nat /\ Len(r) <= Len(s) /\ (I # 1..Len(s) => Len(r) < Len(s))
  BY <1>1, <1>3, <1>4, <1>12 DEF N
<1>16. \E a \in [1..Len(r) -> I] : /\ \A m \in 1..Len(r) : r[m] = s[a[m]]
                                   /\ \A m, p \in 1..Len(r) : a[m] = a[p] => m = p
  BY <1>11, <1>12, <1>13
<1> QED
  BY <1>12, <1>14, <1>15, <1>16 DEF Selected, N, M, r

----------------------------------------------------------------------------
\* Tiered: a primary store

Kept(c) == [key : c.keys, entry : Tiers(c)!Entry]
Store(c) == [entries : Seq(Kept(c)), newest : c.keys \cup {None}]
Holding(m, k, e) == \E i \in 1..Len(m.entries) : m.entries[i].key = k /\ m.entries[i].entry = e

\* A store within its bound whose most recently used entry stands at the end.
StoreInv(c, m) ==
    /\ m \in Store(c) /\ Len(m.entries) <= c.entries
    /\ m.newest \in c.keys /\ (\E i \in 1..Len(m.entries) : m.entries[i].key = m.newest)
          => m.entries[Len(m.entries)].key = m.newest

\* m holds no more than n does, and nothing of the keys in gone.
Fewer(m, n, gone) == \A k, e : Holding(m, k, e) => Holding(n, k, e) /\ k \notin gone

(* What the type of a store says. *)
LEMMA StoreParts ==
  ASSUME NEW CONSTANT c, NEW m \in Store(c)
  PROVE  /\ m.entries \in Seq(Kept(c)) /\ Len(m.entries) \in Nat /\ m.newest \in c.keys \cup {None}
         /\ \A i \in 1..Len(m.entries) : m.entries[i].key \in c.keys /\ m.entries[i].entry \in Tiers(c)!Entry
         /\ DOMAIN m.entries = 1..Len(m.entries)
<1>1. m.entries \in Seq(Kept(c)) /\ m.newest \in c.keys \cup {None}
  BY DEF Store
<1>2. \A i \in 1..Len(m.entries) : m.entries[i] \in Kept(c)
  BY <1>1
<1>3. Len(m.entries) \in Nat /\ DOMAIN m.entries = 1..Len(m.entries)
  BY <1>1
<1> QED
  BY <1>1, <1>2, <1>3 DEF Kept

(* An empty store is one, and holds nothing. *)
LEMMA EmptyFacts ==
  ASSUME NEW CONSTANT c, Tiers(c)!TieredAssumption
  PROVE  StoreInv(c, Tiers(c)!Memory!Empty) /\ \A k, e : ~Holding(Tiers(c)!Memory!Empty, k, e)
<1> DEFINE m == Tiers(c)!Memory!Empty
<1>1. m = [entries |-> <<>>, newest |-> None]
  BY DEF Tiers!Memory!Empty
<1> HIDE DEF m
<1>2. m.entries = <<>> /\ Len(m.entries) = 0 /\ 1..Len(m.entries) = {} /\ m.newest = None
  BY <1>1
<1>3. m \in Store(c)
  BY <1>1 DEF Store
<1>4. Len(m.entries) <= c.entries
  BY <1>2 DEF Tiers!TieredAssumption
<1> QED
  BY <1>2, <1>3, <1>4 DEF StoreInv, Holding, m

(* The entries at some indices of a store are a store: in their order, none *)
(* twice and the most recently used one, if it is among them, last.         *)
LEMMA StoreSelected ==
  ASSUME NEW CONSTANT c, NEW m, StoreInv(c, m), NEW I \in SUBSET (1..Len(m.entries)),
         NEW gone, \A i \in 1..Len(m.entries) : i \in I <=> m.entries[i].key \notin gone,
         NEW r, r.entries = Tiers(c)!Memory!Select(m.entries, I), r \in [entries : {r.entries}, newest : {r.newest}],
         r.newest = IF m.newest \in gone THEN None ELSE m.newest, Tiers(c)!TieredAssumption
  PROVE  StoreInv(c, r) /\ Fewer(r, m, gone) /\ (I # 1..Len(m.entries) => Len(r.entries) < Len(m.entries))
<1> DEFINE s == m.entries
           q == r.entries
<1>1. m \in Store(c) /\ Len(s) <= c.entries /\ Len(s) \in Nat /\ s \in Seq(Kept(c))
  BY StoreParts DEF StoreInv
<1>2. Selected(Kept(c), s, I, q)
  BY <1>1, SelectFacts
<1>3. /\ q \in Seq(Kept(c)) /\ Len(q) \in Nat /\ Len(q) <= Len(s)
      /\ (I # 1..Len(s) => Len(q) < Len(s))
      /\ Len(s) \in I => Len(q) > 0 /\ q[Len(q)] = s[Len(s)]
      /\ \A n \in 1..Len(q) : \E i \in I : q[n] = s[i]
  BY <1>2 DEF Selected
<1>4. r.newest \in c.keys \cup {None} /\ m.newest \in c.keys \cup {None}
  BY <1>1, StoreParts
<1>5. r \in Store(c)
  BY <1>3, <1>4 DEF Store
<1>6. Len(q) <= c.entries
  BY <1>1, <1>3 DEF Tiers!TieredAssumption
<1>7. ASSUME r.newest \in c.keys, NEW n \in 1..Len(q), q[n].key = r.newest
      PROVE  q[Len(q)].key = r.newest
  <2>1. r.newest = m.newest /\ m.newest \notin gone
    BY <1>7 DEF Tiers!TieredAssumption
  <2>2. PICK i \in I : q[n] = s[i]
    BY <1>3
  <2>3. s[i].key = m.newest
    BY <1>7, <2>1, <2>2
  <2>4. s[Len(s)].key = m.newest
    BY <1>7, <2>1, <2>3 DEF StoreInv
  <2>5. Len(s) \in 1..Len(s)
    BY <1>1, <2>2
  <2>6. Len(s) \in I
    BY <2>1, <2>4, <2>5
  <2> QED
    BY <1>3, <2>1, <2>4, <2>6
<1>8. Fewer(r, m, gone)
  <2> SUFFICES ASSUME NEW k, NEW e, Holding(r, k, e) PROVE Holding(m, k, e) /\ k \notin gone
    BY DEF Fewer
  <2>1. PICK n \in 1..Len(q) : q[n].key = k /\ q[n].entry = e
    BY DEF Holding
  <2>2. PICK i \in I : q[n] = s[i]
    BY <1>3
  <2> QED
    BY <2>1, <2>2 DEF Holding
<1> QED
  BY <1>3, <1>5, <1>6, <1>7, <1>8 DEF StoreInv

(* delete() and invalidateTags() leave the entries of the other keys. *)
LEMMA WithoutFacts ==
  ASSUME NEW CONSTANT c, Tiers(c)!TieredAssumption, NEW m, StoreInv(c, m), NEW gone
  PROVE  StoreInv(c, Tiers(c)!Memory!Without(m, gone)) /\ Fewer(Tiers(c)!Memory!Without(m, gone), m, gone)
<1> DEFINE s == m.entries
           I == {i \in DOMAIN s : s[i].key \notin gone}
           r == Tiers(c)!Memory!Without(m, gone)
<1>1. m \in Store(c) /\ DOMAIN s = 1..Len(s)
  BY StoreParts DEF StoreInv
<1>2. r = [entries |-> Tiers(c)!Memory!Select(s, I), newest |-> IF m.newest \in gone THEN None ELSE m.newest]
  BY DEF Tiers!Memory!Without
<1>3. I \in SUBSET (1..Len(s)) /\ \A i \in 1..Len(s) : i \in I <=> s[i].key \notin gone
  BY <1>1
<1> HIDE DEF r, I
<1>4. /\ r.entries = Tiers(c)!Memory!Select(s, I) /\ r \in [entries : {r.entries}, newest : {r.newest}]
      /\ r.newest = IF m.newest \in gone THEN None ELSE m.newest
  BY <1>2
<1>5. StoreInv(c, r) /\ Fewer(r, m, gone)
  BY <1>3, <1>4, StoreSelected
<1> QED
  BY <1>5 DEF r

(* Map.delete() of one key. *)
LEMMA OtherEntries ==
  ASSUME NEW CONSTANT c, Tiers(c)!TieredAssumption, NEW m, StoreInv(c, m), NEW k
  PROVE  /\ Tiers(c)!Memory!Others(m, k) \in Seq(Kept(c)) /\ Len(Tiers(c)!Memory!Others(m, k)) \in Nat
         /\ Len(Tiers(c)!Memory!Others(m, k)) <= Len(m.entries)
         /\ (\E i \in 1..Len(m.entries) : m.entries[i].key = k) => Len(Tiers(c)!Memory!Others(m, k)) < Len(m.entries)
         /\ \A n \in 1..Len(Tiers(c)!Memory!Others(m, k)) :
               /\ Tiers(c)!Memory!Others(m, k)[n].key # k
               /\ \E i \in 1..Len(m.entries) : Tiers(c)!Memory!Others(m, k)[n] = m.entries[i]
<1> DEFINE s == m.entries
           I == {i \in DOMAIN s : s[i].key # k}
           q == Tiers(c)!Memory!Others(m, k)
<1>1. m \in Store(c) /\ DOMAIN s = 1..Len(s) /\ s \in Seq(Kept(c))
  BY StoreParts DEF StoreInv
<1>2. q = Tiers(c)!Memory!Select(s, I)
  BY DEF Tiers!Memory!Others
<1>3. I \in SUBSET (1..Len(s)) /\ \A i \in 1..Len(s) : i \in I <=> s[i].key # k
  BY <1>1
<1> HIDE DEF q, I, s
<1>4. Selected(Kept(c), s, I, q)
  BY <1>1, <1>2, <1>3, SelectFacts
<1>5. /\ q \in Seq(Kept(c)) /\ Len(q) \in Nat /\ Len(q) <= Len(s) /\ (I # 1..Len(s) => Len(q) < Len(s))
      /\ \A n \in 1..Len(q) : \E i \in I : q[n] = s[i]
  BY <1>4 DEF Selected
<1>6. (\E i \in 1..Len(s) : s[i].key = k) => I # 1..Len(s)
  BY <1>3
<1>7. \A n \in 1..Len(q) : q[n].key # k /\ \E i \in 1..Len(s) : q[n] = s[i]
  BY <1>3, <1>5
<1> QED
  BY <1>5, <1>6, <1>7 DEF q, s

(* A read moves the entry it found to the end. *)
LEMMA TouchedFacts ==
  ASSUME NEW CONSTANT c, Tiers(c)!TieredAssumption, NEW m, StoreInv(c, m), NEW k \in c.keys
  PROVE  StoreInv(c, Tiers(c)!Memory!Touched(m, k)) /\ Fewer(Tiers(c)!Memory!Touched(m, k), m, {})
<1> DEFINE q == Tiers(c)!Memory!Others(m, k)
           e == Tiers(c)!Memory!Found(m, k)
           x == [key |-> k, entry |-> e]
           l == Append(q, x)
           r == Tiers(c)!Memory!Touched(m, k)
<1>1. /\ m \in Store(c) /\ DOMAIN m.entries = 1..Len(m.entries) /\ Len(m.entries) <= c.entries
      /\ Len(m.entries) \in Nat
      /\ \A i \in 1..Len(m.entries) : m.entries[i].key \in c.keys /\ m.entries[i].entry \in Tiers(c)!Entry
  BY StoreParts DEF StoreInv
<1>2. CASE r = m
  BY <1>2 DEF Fewer
<1>3. CASE r # m
  <2>1. Tiers(c)!Memory!Holds(m, k) /\ r = [entries |-> l, newest |-> k]
    BY <1>3 DEF Tiers!Memory!Touched
  <2>2. \E i \in DOMAIN m.entries : m.entries[i].key = k
    BY <2>1 DEF Tiers!Memory!Holds
  <2>3. e = m.entries[CHOOSE i \in DOMAIN m.entries : m.entries[i].key = k].entry
    BY <2>1 DEF Tiers!Memory!Found
  <2>4. PICK j \in DOMAIN m.entries : m.entries[j].key = k /\ e = m.entries[j].entry
    BY <2>2, <2>3
  <2> HIDE DEF q, e, r
  <2>5. x \in Kept(c) /\ x.key = k /\ x.entry = e
    BY <1>1, <2>4 DEF Kept
  <2>6. q \in Seq(Kept(c)) /\ Len(q) \in Nat /\ Len(q) < Len(m.entries)
    BY <1>1, <2>2, OtherEntries DEF q
  <2>7. \A n \in 1..Len(q) : \E i \in 1..Len(m.entries) : q[n] = m.entries[i]
    BY OtherEntries DEF q
  <2> HIDE DEF x
  <2>8. /\ l \in Seq(Kept(c)) /\ Len(l) = Len(q) + 1 /\ l[Len(l)] = x
        /\ \A n \in 1..Len(l) : l[n] = x \/ (n \in 1..Len(q) /\ l[n] = q[n])
    BY <2>5, <2>6
  <2> HIDE DEF l
  <2>9. r \in Store(c) /\ r.entries = l /\ r.newest = k
    BY <2>1, <2>8 DEF Store
  <2>10. Len(l) <= c.entries
    BY <1>1, <2>6, <2>8 DEF Tiers!TieredAssumption
  <2>11. StoreInv(c, r)
    BY <2>5, <2>8, <2>9, <2>10 DEF StoreInv
  <2>12. ASSUME NEW j1, NEW e1, Holding(r, j1, e1) PROVE Holding(m, j1, e1)
    <3>1. PICK n \in 1..Len(l) : l[n].key = j1 /\ l[n].entry = e1
      BY <2>9, <2>12 DEF Holding
    <3>2. CASE l[n] = x
      BY <1>1, <2>4, <2>5, <3>1, <3>2 DEF Holding
    <3>3. CASE n \in 1..Len(q) /\ l[n] = q[n]
      BY <2>7, <3>1, <3>3 DEF Holding
    <3> QED
      BY <2>8, <3>2, <3>3
  <2> QED
    BY <2>11, <2>12 DEF Fewer, r
<1> QED
  BY <1>2, <1>3

(* A write makes room: the oldest of the other entries go, the new one is last. *)
LEMMA StoredFacts ==
  ASSUME NEW CONSTANT c, Tiers(c)!TieredAssumption, NEW m, StoreInv(c, m), NEW k \in c.keys, NEW e \in Tiers(c)!Entry
  PROVE  /\ StoreInv(c, Tiers(c)!Memory!Stored(m, k, e))
         /\ \A j, d : Holding(Tiers(c)!Memory!Stored(m, k, e), j, d) =>
               (j = k /\ d = e) \/ (j # k /\ Holding(m, j, d))
<1> DEFINE q == Tiers(c)!Memory!Others(m, k)
           room == Tiers(c)!Memory!Room(m, k)
           x == [key |-> k, entry |-> e]
           l == Append(room, x)
           r == Tiers(c)!Memory!Stored(m, k, e)
<1>1. m \in Store(c) /\ Len(m.entries) <= c.entries /\ Len(m.entries) \in Nat /\ c.entries \in Nat
  BY StoreParts DEF StoreInv, Tiers!TieredAssumption
<1>2. CASE c.entries = 0
  <2>1. r = m
    BY <1>2 DEF Tiers!Memory!Stored
  <2>2. 1..Len(m.entries) = {}
    BY <1>1, <1>2
  <2> QED
    BY <2>1, <2>2 DEF Holding
<1>3. CASE c.entries # 0
  <2>1. r = [entries |-> l, newest |-> k]
    BY <1>3 DEF Tiers!Memory!Stored
  <2>2. room = IF Len(q) < c.entries THEN q ELSE SubSeq(q, Len(q) - c.entries + 2, Len(q))
    BY DEF Tiers!Memory!Room
  <2> HIDE DEF q, room, r
  <2>3. q \in Seq(Kept(c)) /\ Len(q) \in Nat /\ Len(q) <= Len(m.entries)
    BY OtherEntries DEF q
  <2>4. \A n \in 1..Len(q) : q[n].key # k /\ \E i \in 1..Len(m.entries) : q[n] = m.entries[i]
    BY OtherEntries DEF q
  <2>5. /\ room \in Seq(Kept(c)) /\ Len(room) \in Nat /\ Len(room) < c.entries
        /\ \A n \in 1..Len(room) : \E p \in 1..Len(q) : room[n] = q[p]
    <3>1. CASE Len(q) < c.entries
      BY <2>2, <2>3, <3>1
    <3>2. CASE ~(Len(q) < c.entries)
      <4> DEFINE a == Len(q) - c.entries + 2
      <4>1. Len(q) = c.entries /\ a = 2
        BY <1>1, <2>3, <3>2
      <4>2. room = SubSeq(q, 2, Len(q))
        BY <2>2, <3>2, <4>1
      <4>3. /\ room \in Seq(Kept(c)) /\ Len(room) = Len(q) - 1
            /\ \A n \in 1..Len(room) : room[n] = q[n + 1]
        BY <1>1, <1>3, <2>3, <4>1, <4>2
      <4>4. \A n \in 1..Len(room) : n + 1 \in 1..Len(q)
        BY <2>3, <4>3
      <4>5. Len(room) \in Nat /\ Len(room) < c.entries
        BY <1>1, <1>3, <2>3, <4>1, <4>3
      <4> QED
        BY <4>3, <4>4, <4>5
    <3> QED
      BY <3>1, <3>2
  <2>6. x \in Kept(c) /\ x.key = k /\ x.entry = e
    BY DEF Kept
  <2> HIDE DEF x
  <2>7. /\ l \in Seq(Kept(c)) /\ Len(l) = Len(room) + 1 /\ l[Len(l)] = x
        /\ \A n \in 1..Len(l) : l[n] = x \/ (n \in 1..Len(room) /\ l[n] = room[n])
    BY <2>5, <2>6
  <2> HIDE DEF l
  <2>8. r \in Store(c) /\ r.entries = l /\ r.newest = k
    BY <2>1, <2>7 DEF Store
  <2>9. Len(l) <= c.entries
    BY <1>1, <2>5, <2>7
  <2>10. StoreInv(c, r)
    BY <2>6, <2>7, <2>8, <2>9 DEF StoreInv
  <2>11. ASSUME NEW j, NEW d, Holding(r, j, d) PROVE (j = k /\ d = e) \/ (j # k /\ Holding(m, j, d))
    <3>1. PICK n \in 1..Len(l) : l[n].key = j /\ l[n].entry = d
      BY <2>8, <2>11 DEF Holding
    <3>2. CASE l[n] = x
      BY <2>6, <3>1, <3>2
    <3>3. CASE n \in 1..Len(room) /\ l[n] = room[n]
      <4>1. PICK p \in 1..Len(q) : room[n] = q[p]
        BY <2>5, <3>3
      <4>2. q[p].key = j /\ q[p].entry = d /\ j # k
        BY <2>4, <3>1, <3>3, <4>1
      <4> QED
        BY <2>4, <4>2 DEF Holding
    <3> QED
      BY <2>7, <3>2, <3>3
  <2> QED
    BY <2>10, <2>11 DEF r
<1> QED
  BY <1>2, <1>3

(* What get() finds is an entry of the store under that key. *)
LEMMA FoundFacts ==
  ASSUME NEW CONSTANT c, NEW m \in Store(c), NEW k
  PROVE  Tiers(c)!Memory!Found(m, k) = None \/ Holding(m, k, Tiers(c)!Memory!Found(m, k))
<1> DEFINE e == Tiers(c)!Memory!Found(m, k)
<1>1. DOMAIN m.entries = 1..Len(m.entries)
  BY StoreParts
<1>2. CASE ~Tiers(c)!Memory!Holds(m, k)
  BY <1>2 DEF Tiers!Memory!Found
<1>3. CASE Tiers(c)!Memory!Holds(m, k)
  <2>1. \E i \in DOMAIN m.entries : m.entries[i].key = k
    BY <1>3 DEF Tiers!Memory!Holds
  <2>2. e = m.entries[CHOOSE i \in DOMAIN m.entries : m.entries[i].key = k].entry
    BY <1>3 DEF Tiers!Memory!Found
  <2> HIDE DEF e
  <2>3. PICK j \in DOMAIN m.entries : m.entries[j].key = k /\ e = m.entries[j].entry
    BY <2>1, <2>2
  <2>4. Holding(m, k, e)
    BY <1>1, <2>3 DEF Holding
  <2> QED
    BY <2>4 DEF e
<1> QED
  BY <1>2, <1>3

(* The invariant of a store is the property that the run checks. *)
LEMMA NewestLast ==
  ASSUME NEW CONSTANT c, Tiers(c)!TieredAssumption, NEW m, StoreInv(c, m)
  PROVE  Tiers(c)!Memory!NewestIsLast(m)
<1>1. /\ DOMAIN m.entries = 1..Len(m.entries)
      /\ \A i \in 1..Len(m.entries) : m.entries[i].key \in c.keys
  BY StoreParts DEF StoreInv
<1> QED
  BY <1>1 DEF StoreInv, Tiers!Memory!NewestIsLast, Tiers!Memory!Holds

----------------------------------------------------------------------------
\* Tiered: the tracked keys

Injective(c) == \A j, k \in c.keys : c.prints[j] = c.prints[k] => j = k
Tracking(c) == [print : {c.prints[k] : k \in c.keys}, keys : SUBSET c.keys]

\* One key under each fingerprint, and each fingerprint once.
OrderInv(c, l) ==
    /\ l \in Seq(Tracking(c))
    /\ \A i \in 1..Len(l) : \E k \in c.keys : l[i].print = c.prints[k] /\ l[i].keys = {k}
    /\ \A i, j \in 1..Len(l) : l[i].print = l[j].print => i = j

TrackInv(c, t) ==
    /\ t \in [order : Seq(Tracking(c)), count : Nat]
    /\ OrderInv(c, t.order) /\ t.count = Len(t.order)

Listed(l, f) == \E i \in 1..Len(l) : l[i].print = f

(* Nothing tracked. *)
LEMMA NothingFacts ==
  ASSUME NEW CONSTANT c
  PROVE  TrackInv(c, Tiers(c)!NothingTracked)
<1> DEFINE l == <<>>
           t == Tiers(c)!NothingTracked
<1>1. t = [order |-> l, count |-> 0]
  BY DEF Tiers!NothingTracked
<1>2. l \in Seq(Tracking(c)) /\ Len(l) = 0 /\ 1..Len(l) = {}
  OBVIOUS
<1> HIDE DEF t, l
<1>3. t \in [order : Seq(Tracking(c)), count : Nat] /\ t.order = l /\ t.count = 0
  BY <1>1, <1>2
<1>4. OrderInv(c, l)
  BY <1>2 DEF OrderInv
<1> QED
  BY <1>2, <1>3, <1>4 DEF TrackInv, t

(* A fingerprint stands for the one key it belongs to. *)
LEMMA KeysOfFacts ==
  ASSUME NEW CONSTANT c, Injective(c), NEW t, OrderInv(c, t.order), NEW k \in c.keys
  PROVE  /\ Tiers(c)!KeysOf(t, c.prints[k]) = IF Listed(t.order, c.prints[k]) THEN {k} ELSE {}
         /\ Tiers(c)!IsTracked(t, c.prints[k]) <=> Listed(t.order, c.prints[k])
<1> DEFINE l == t.order
           f == c.prints[k]
           at == {j \in DOMAIN l : l[j].print = f}
<1>1. l \in Seq(Tracking(c)) /\ DOMAIN l = 1..Len(l)
  BY DEF OrderInv
<1>2. Tiers(c)!KeysOf(t, f) = UNION {l[i].keys : i \in at}
  BY DEF Tiers!KeysOf
<1>3. Tiers(c)!IsTracked(t, f) <=> \E i \in DOMAIN l : l[i].print = f
  BY DEF Tiers!IsTracked
<1>4. \A i \in at : l[i].keys = {k}
  <2> SUFFICES ASSUME NEW i \in at PROVE l[i].keys = {k}
    OBVIOUS
  <2>1. PICK j \in c.keys : l[i].print = c.prints[j] /\ l[i].keys = {j}
    BY <1>1 DEF OrderInv
  <2>2. j = k
    BY <2>1 DEF Injective
  <2> QED
    BY <2>1, <2>2
<1>5. (\E i \in at : TRUE) <=> Listed(l, f)
  BY <1>1 DEF Listed
<1> HIDE DEF l, at, f
<1>6. UNION {l[i].keys : i \in at} = IF Listed(l, f) THEN {k} ELSE {}
  BY <1>4, <1>5
<1> QED
  BY <1>1, <1>2, <1>3, <1>6 DEF Listed, l, f

(* The numbers up to n are n. *)
LEMMA CountTo ==
  ASSUME NEW n \in Nat
  PROVE  IsFiniteSet(1..n) /\ Cardinality(1..n) = n
BY FS_Interval

(* Map.delete() of a fingerprint. *)
LEMMA WithoutTracked ==
  ASSUME NEW CONSTANT c, NEW t, OrderInv(c, t.order), NEW f
  PROVE  /\ OrderInv(c, Tiers(c)!Without(t, f)) /\ ~Listed(Tiers(c)!Without(t, f), f)
         /\ Len(Tiers(c)!Without(t, f)) = IF Listed(t.order, f) THEN Len(t.order) - 1 ELSE Len(t.order)
<1> DEFINE l == t.order
           I == {i \in DOMAIN l : l[i].print # f}
           q == Tiers(c)!Without(t, f)
<1>1. l \in Seq(Tracking(c)) /\ DOMAIN l = 1..Len(l) /\ Len(l) \in Nat
  BY DEF OrderInv
<1>2. q = Tiers(c)!Memory!Select(l, I)
  BY DEF Tiers!Without
<1>3. I \in SUBSET (1..Len(l)) /\ \A i \in 1..Len(l) : i \in I <=> l[i].print # f
  BY <1>1
<1>4. OrderInv(c, l)
  OBVIOUS
<1> HIDE DEF q, I, l
<1>5. Selected(Tracking(c), l, I, q)
  BY <1>1, <1>2, <1>3, SelectFacts
<1>6. q \in Seq(Tracking(c)) /\ Len(q) = Cardinality(I) /\ Len(q) \in Nat
  BY <1>5 DEF Selected
<1>7. PICK at \in [1..Len(q) -> I] : /\ \A m \in 1..Len(q) : q[m] = l[at[m]]
                                     /\ \A m, p \in 1..Len(q) : at[m] = at[p] => m = p
  BY <1>5 DEF Selected
<1>8. ASSUME NEW m \in 1..Len(q) PROVE at[m] \in 1..Len(l) /\ q[m] = l[at[m]] /\ q[m].print # f
  <2>1. at[m] \in I /\ q[m] = l[at[m]]
    BY <1>7
  <2> QED
    BY <1>3, <2>1
<1>9. \A i \in 1..Len(q) : \E k \in c.keys : q[i].print = c.prints[k] /\ q[i].keys = {k}
  <2> SUFFICES ASSUME NEW i \in 1..Len(q) PROVE \E k \in c.keys : q[i].print = c.prints[k] /\ q[i].keys = {k}
    OBVIOUS
  <2>1. at[i] \in 1..Len(l) /\ q[i] = l[at[i]]
    BY <1>8
  <2> QED
    BY <1>4, <2>1 DEF OrderInv
<1>10. \A i, j \in 1..Len(q) : q[i].print = q[j].print => i = j
  <2> SUFFICES ASSUME NEW i \in 1..Len(q), NEW j \in 1..Len(q), q[i].print = q[j].print PROVE i = j
    OBVIOUS
  <2>1. at[i] = at[j]
    BY <1>4, <1>8 DEF OrderInv
  <2> QED
    BY <1>7, <2>1
<1>11. OrderInv(c, q) /\ ~Listed(q, f)
  <2>1. OrderInv(c, q)
    BY <1>6, <1>9, <1>10 DEF OrderInv
  <2>2. ~Listed(q, f)
    BY <1>8 DEF Listed
  <2> QED
    BY <2>1, <2>2
<1>12. IsFiniteSet(1..Len(l)) /\ Cardinality(1..Len(l)) = Len(l)
  BY <1>1, CountTo
<1>13. CASE ~Listed(l, f)
  <2>1. I = 1..Len(l)
    BY <1>3, <1>13 DEF Listed
  <2> QED
    BY <1>6, <1>11, <1>12, <1>13, <2>1 DEF l, q
<1>14. CASE Listed(l, f)
  <2>1. PICK i \in 1..Len(l) : l[i].print = f
    BY <1>14 DEF Listed
  <2>2. \A j \in 1..Len(l) : l[j].print = f => j = i
    BY <1>4, <2>1 DEF OrderInv
  <2>3. I = (1..Len(l)) \ {i}
    BY <1>3, <2>1, <2>2
  <2>4. Cardinality((1..Len(l)) \ {i}) = Len(l) - 1
    BY <1>12, <2>1, FS_RemoveElement
  <2> QED
    BY <1>6, <1>11, <1>14, <2>3, <2>4 DEF l, q
<1> QED
  BY <1>13, <1>14

(* One more fingerprint at the end. *)
LEMMA AppendTracked ==
  ASSUME NEW CONSTANT c, NEW l, OrderInv(c, l), NEW k \in c.keys, ~Listed(l, c.prints[k])
  PROVE  /\ OrderInv(c, Append(l, [print |-> c.prints[k], keys |-> {k}]))
         /\ Len(Append(l, [print |-> c.prints[k], keys |-> {k}])) = Len(l) + 1
<1> DEFINE x == [print |-> c.prints[k], keys |-> {k}]
           q == Append(l, x)
<1>1. l \in Seq(Tracking(c)) /\ Len(l) \in Nat
  BY DEF OrderInv
<1>2. x \in Tracking(c) /\ x.print = c.prints[k] /\ x.keys = {k}
  BY DEF Tracking
<1> HIDE DEF x
<1>3. /\ q \in Seq(Tracking(c)) /\ Len(q) = Len(l) + 1 /\ q[Len(l) + 1] = x
      /\ \A i \in 1..Len(l) : q[i] = l[i]
  BY <1>1, <1>2
<1> HIDE DEF q
<1>4. \A i \in 1..Len(q) : i = Len(l) + 1 \/ i \in 1..Len(l)
  BY <1>1, <1>3
<1>5. \A i \in 1..Len(q) : \E j \in c.keys : q[i].print = c.prints[j] /\ q[i].keys = {j}
  <2> SUFFICES ASSUME NEW i \in 1..Len(q) PROVE \E j \in c.keys : q[i].print = c.prints[j] /\ q[i].keys = {j}
    OBVIOUS
  <2>1. CASE i = Len(l) + 1
    BY <1>2, <1>3, <2>1
  <2>2. CASE i \in 1..Len(l)
    BY <1>3, <2>2 DEF OrderInv
  <2> QED
    BY <1>4, <2>1, <2>2
<1>6. \A i, j \in 1..Len(q) : q[i].print = q[j].print => i = j
  <2>1. \A i \in 1..Len(l) : q[i].print # x.print
    BY <1>2, <1>3 DEF Listed
  <2>2. \A i, j \in 1..Len(l) : q[i].print = q[j].print => i = j
    BY <1>3 DEF OrderInv
  <2> QED
    BY <1>3, <1>4, <2>1, <2>2
<1> QED
  BY <1>3, <1>5, <1>6 DEF OrderInv, q, x

(* As many keys as fingerprints. *)
LEMMA SizeIs ==
  ASSUME NEW CONSTANT c, Injective(c), NEW l, OrderInv(c, l), NEW n \in 0..Len(l)
  PROVE  Cardinality(UNION {l[i].keys : i \in 1..n}) = n
<1> DEFINE U == UNION {l[i].keys : i \in 1..n}
           key == [i \in 1..n |-> CHOOSE k \in c.keys : l[i].print = c.prints[k] /\ l[i].keys = {k}]
<1>1. Len(l) \in Nat /\ n \in Nat /\ \A i \in 1..n : i \in 1..Len(l)
  BY DEF OrderInv
<1>2. ASSUME NEW i \in 1..n PROVE key[i] \in c.keys /\ l[i].print = c.prints[key[i]] /\ l[i].keys = {key[i]}
  <2>1. \E k \in c.keys : l[i].print = c.prints[k] /\ l[i].keys = {k}
    BY <1>1 DEF OrderInv
  <2>2. key[i] = CHOOSE k \in c.keys : l[i].print = c.prints[k] /\ l[i].keys = {k}
    OBVIOUS
  <2> HIDE DEF key
  <2> QED
    BY <2>1, <2>2
<1>3. \A i \in 1..n : key[i] \in U
  <2> HIDE DEF key
  <2> QED
    BY <1>2
<1>4. \A k \in U : \E i \in 1..n : key[i] = k
  BY <1>2
<1>5. \A i, j \in 1..n : key[i] = key[j] => i = j
  <2> SUFFICES ASSUME NEW i \in 1..n, NEW j \in 1..n, key[i] = key[j] PROVE i = j
    OBVIOUS
  <2>1. i \in 1..Len(l) /\ j \in 1..Len(l) /\ l[i].print = l[j].print
    <3> HIDE DEF key
    <3> QED
      BY <1>1, <1>2
  <2> QED
    BY <2>1 DEF OrderInv
<1>6. key \in [1..n -> U]
  <2> DEFINE pick(i) == CHOOSE k \in c.keys : l[i].print = c.prints[k] /\ l[i].keys = {k}
  <2>1. key = [i \in 1..n |-> pick(i)]
    OBVIOUS
  <2>2. \A i \in 1..n : pick(i) \in U
    <3> HIDE DEF U, pick
    <3>1. \A i \in 1..n : key[i] = pick(i)
      BY <2>1
    <3> HIDE DEF key
    <3> QED
      BY <1>3, <3>1
  <2> HIDE DEF key, U, pick
  <2> QED
    BY <2>1, <2>2
<1> HIDE DEF key, U
<1>7. key \in Bijection(1..n, U)
  BY <1>4, <1>5, <1>6 DEF Bijection, Injection, Surjection, IsInjective
<1>8. ExistsBijection(1..n, U)
  BY <1>7 DEF ExistsBijection
<1>9. Cardinality(U) = n
  BY <1>1, <1>8, FS_CountingElements
<1> QED
  BY <1>9 DEF U

(* The count that triggers evictions is the number of tracked keys. *)
LEMMA CountIsExact ==
  ASSUME NEW CONSTANT c, Tiers(c)!TieredAssumption, Injective(c), NEW t, TrackInv(c, t)
  PROVE  t.count = Tiers(c)!Cardinality(UNION {Tiers(c)!KeysOf(t, f) : f \in Tiers(c)!Fingerprints})
<1> DEFINE l == t.order
           U == UNION {l[i].keys : i \in 1..Len(l)}
           W == UNION {Tiers(c)!KeysOf(t, f) : f \in Tiers(c)!Fingerprints}
<1>1. OrderInv(c, l) /\ Len(l) \in Nat /\ t.count = Len(l) /\ DOMAIN l = 1..Len(l)
  BY DEF TrackInv, OrderInv
<1>2. Tiers(c)!Fingerprints = {c.prints[k] : k \in c.keys}
  BY DEF Tiers!Fingerprints
<1>3. Cardinality(U) = Len(l)
  <2> HIDE DEF l
  <2> QED
    BY <1>1, SizeIs
<1>4. \A k \in c.keys : Tiers(c)!KeysOf(t, c.prints[k]) = IF Listed(l, c.prints[k]) THEN {k} ELSE {}
  BY <1>1, KeysOfFacts
<1> HIDE DEF l
<1>5. ASSUME NEW k \in W PROVE k \in U
  <2>1. PICK f \in Tiers(c)!Fingerprints : k \in Tiers(c)!KeysOf(t, f)
    BY <1>5
  <2>2. PICK j \in c.keys : f = c.prints[j]
    BY <1>2, <2>1
  <2>3. Listed(l, c.prints[j]) /\ k = j
    BY <1>4, <2>1, <2>2
  <2>4. PICK i \in 1..Len(l) : l[i].print = c.prints[j]
    BY <2>3 DEF Listed
  <2>5. PICK p \in c.keys : l[i].print = c.prints[p] /\ l[i].keys = {p}
    BY <1>1 DEF OrderInv
  <2>6. p = j
    BY <2>4, <2>5 DEF Injective
  <2> QED
    BY <2>3, <2>5, <2>6
<1>6. ASSUME NEW k \in U PROVE k \in W
  <2>1. PICK i \in 1..Len(l) : k \in l[i].keys
    BY <1>6
  <2>2. PICK p \in c.keys : l[i].print = c.prints[p] /\ l[i].keys = {p}
    BY <1>1 DEF OrderInv
  <2>3. p = k /\ Listed(l, c.prints[p])
    BY <2>1, <2>2 DEF Listed
  <2>4. k \in Tiers(c)!KeysOf(t, c.prints[p]) /\ c.prints[p] \in Tiers(c)!Fingerprints
    BY <1>2, <1>4, <2>3
  <2> QED
    BY <2>4
<1>7. W = U
  BY <1>5, <1>6
<1> HIDE DEF U, W
<1>8. t.count = Tiers(c)!Cardinality(W)
  BY <1>1, <1>3, <1>7, Counts
<1> QED
  BY <1>8 DEF W

(* The evictions drop the keys used least recently, and count them. *)
LEMMA EvictionsFacts ==
  ASSUME NEW CONSTANT c, Tiers(c)!TieredAssumption, Injective(c), NEW t, TrackInv(c, t)
  PROVE  /\ TrackInv(c, Tiers(c)!Evictions(t))
         /\ \A f : ~Listed(t.order, f) => ~Listed(Tiers(c)!Evictions(t).order, f)
<1> DEFINE l == t.order
           size(n) == Tiers(c)!Cardinality(UNION {l[i].keys : i \in 1..n})
           enough == {n \in 0..Len(l) : t.count - size(n) < c.tracks}
           n == IF enough = {} THEN Len(l) ELSE CHOOSE m \in enough : \A o \in enough : m <= o
           q == SubSeq(l, n + 1, Len(l))
           r == Tiers(c)!Evictions(t)
<1>1. OrderInv(c, l) /\ Len(l) \in Nat /\ t.count = Len(l) /\ l \in Seq(Tracking(c))
  BY DEF TrackInv, OrderInv
<1>2. r = [order |-> q, count |-> t.count - size(n)]
  BY DEF Tiers!Evictions
<1>3. n \in 0..Len(l)
  <2> HIDE DEF size, l
  <2>1. enough \in SUBSET Nat /\ enough \in SUBSET (0..Len(l))
    BY <1>1
  <2> HIDE DEF enough
  <2>2. CASE enough = {}
    BY <1>1, <2>2
  <2>3. CASE enough # {}
    <3>1. \E m \in enough : \A o \in enough : m <= o
      BY <2>1, <2>3, Least
    <3>2. n \in enough
      BY <2>3, <3>1
    <3> QED
      BY <2>1, <3>2
  <2> QED
    BY <2>2, <2>3
<1> HIDE DEF n, r
<1>4. size(n) = n
  <2> HIDE DEF l
  <2>1. Cardinality(UNION {l[i].keys : i \in 1..n}) = n
    BY <1>1, <1>3, SizeIs
  <2> QED
    BY <2>1, Counts
<1> HIDE DEF size, l
<1>5. /\ q \in Seq(Tracking(c)) /\ Len(q) = Len(l) - n /\ Len(q) \in Nat
      /\ \A i \in 1..Len(q) : q[i] = l[n + i]
  <2>1. n \in Nat /\ n <= Len(l)
    BY <1>1, <1>3
  <2> HIDE DEF n
  <2> QED
    BY <1>1, <2>1
<1> HIDE DEF q
<1>6. \A i \in 1..Len(q) : n + i \in 1..Len(l)
  BY <1>1, <1>3, <1>5
<1>7. \A i \in 1..Len(q) : \E k \in c.keys : q[i].print = c.prints[k] /\ q[i].keys = {k}
  <2> SUFFICES ASSUME NEW i \in 1..Len(q) PROVE \E k \in c.keys : q[i].print = c.prints[k] /\ q[i].keys = {k}
    OBVIOUS
  <2>1. n + i \in 1..Len(l) /\ q[i] = l[n + i]
    BY <1>5, <1>6
  <2> QED
    BY <1>1, <2>1 DEF OrderInv
<1>8. \A i, j \in 1..Len(q) : q[i].print = q[j].print => i = j
  <2> SUFFICES ASSUME NEW i \in 1..Len(q), NEW j \in 1..Len(q), q[i].print = q[j].print PROVE i = j
    OBVIOUS
  <2>1. n + i \in 1..Len(l) /\ q[i] = l[n + i] /\ n + j \in 1..Len(l) /\ q[j] = l[n + j]
    BY <1>5, <1>6
  <2>2. n + i = n + j
    BY <1>1, <2>1 DEF OrderInv
  <2> QED
    BY <1>3, <2>2
<1>9. OrderInv(c, q)
  BY <1>5, <1>7, <1>8 DEF OrderInv
<1>10. r.order = q /\ r.count = Len(q) /\ r \in [order : Seq(Tracking(c)), count : Nat]
  BY <1>1, <1>2, <1>4, <1>5
<1>11. TrackInv(c, r)
  BY <1>9, <1>10 DEF TrackInv
<1>12. ASSUME NEW f, ~Listed(l, f) PROVE ~Listed(q, f)
  BY <1>5, <1>6, <1>12 DEF Listed
<1> QED
  BY <1>10, <1>11, <1>12 DEF r, l

(* trackKey() makes the key the one used last, and counts it once. *)
LEMMA TrackFacts ==
  ASSUME NEW CONSTANT c, Tiers(c)!TieredAssumption, Injective(c), NEW t, TrackInv(c, t), NEW k \in c.keys
  PROVE  TrackInv(c, Tiers(c)!Track(t, k))
<1> DEFINE f == c.prints[k]
           keys == Tiers(c)!KeysOf(t, f)
           rest == Tiers(c)!Evictions(t)
           x == [print |-> f, keys |-> {k}]
           r == Tiers(c)!Track(t, k)
<1>1. OrderInv(c, t.order) /\ Len(t.order) \in Nat /\ t.count = Len(t.order) /\ t \in [order : Seq(Tracking(c)), count : Nat]
  BY DEF TrackInv, OrderInv
<1>2. keys = IF Listed(t.order, f) THEN {k} ELSE {}
  BY <1>1, KeysOfFacts
<1>3. r = IF k \in keys THEN [t EXCEPT !.order = Tiers(c)!Last(t, f, keys)]
          ELSE [order |-> Tiers(c)!Last(rest, f, keys \cup {k}), count |-> rest.count + 1]
  BY DEF Tiers!Track
<1>4. \A u, s : Tiers(c)!Last(u, f, s) = Append(Tiers(c)!Without(u, f), [print |-> f, keys |-> s])
  BY DEF Tiers!Last
<1> HIDE DEF f, keys, rest, r
<1>5. CASE Listed(t.order, f)
  <2> DEFINE w == Tiers(c)!Without(t, f)
             l == Append(w, x)
  <2>1. r = [t EXCEPT !.order = l]
    BY <1>2, <1>3, <1>4, <1>5
  <2>2. OrderInv(c, w) /\ ~Listed(w, f) /\ Len(w) = Len(t.order) - 1
    BY <1>1, <1>5, WithoutTracked
  <2> HIDE DEF w
  <2>3. OrderInv(c, l) /\ Len(l) = Len(w) + 1
    BY <2>2, AppendTracked DEF f
  <2> HIDE DEF l
  <2>4. Len(l) = Len(t.order) /\ l \in Seq(Tracking(c))
    BY <1>1, <2>2, <2>3 DEF OrderInv
  <2>5. r.order = l /\ r.count = t.count /\ r \in [order : Seq(Tracking(c)), count : Nat]
    BY <1>1, <2>1, <2>4
  <2> QED
    BY <1>1, <2>3, <2>4, <2>5 DEF TrackInv, r
<1>6. CASE ~Listed(t.order, f)
  <2> DEFINE w == Tiers(c)!Without(rest, f)
             l == Append(w, x)
  <2>1. r = [order |-> l, count |-> rest.count + 1]
    BY <1>2, <1>3, <1>4, <1>6
  <2>2. TrackInv(c, rest) /\ ~Listed(rest.order, f)
    BY <1>6, EvictionsFacts DEF rest
  <2>3. OrderInv(c, rest.order) /\ rest.count = Len(rest.order) /\ Len(rest.order) \in Nat
    BY <2>2 DEF TrackInv, OrderInv
  <2>4. OrderInv(c, w) /\ ~Listed(w, f) /\ Len(w) = Len(rest.order)
    BY <2>2, <2>3, WithoutTracked
  <2> HIDE DEF w
  <2>5. OrderInv(c, l) /\ Len(l) = Len(w) + 1
    BY <2>4, AppendTracked DEF f
  <2> HIDE DEF l
  <2>6. r.order = l /\ r.count = Len(l) /\ r \in [order : Seq(Tracking(c)), count : Nat]
    <3>1. l \in Seq(Tracking(c)) /\ Len(l) = rest.count + 1 /\ rest.count + 1 \in Nat
      BY <2>3, <2>4, <2>5 DEF OrderInv
    <3> QED
      BY <2>1, <3>1
  <2> QED
    BY <2>5, <2>6 DEF TrackInv, r
<1> QED
  BY <1>5, <1>6

(* A fingerprint goes, and its key is no longer counted. *)
LEMMA DroppedTracked ==
  ASSUME NEW CONSTANT c, NEW t, TrackInv(c, t), NEW f, Listed(t.order, f),
         NEW r, r = [order |-> Tiers(c)!Without(t, f), count |-> t.count - 1]
  PROVE  TrackInv(c, r)
<1> DEFINE w == Tiers(c)!Without(t, f)
<1>1. OrderInv(c, t.order) /\ Len(t.order) \in Nat /\ t.count = Len(t.order)
  BY DEF TrackInv, OrderInv
<1>2. OrderInv(c, w) /\ Len(w) = Len(t.order) - 1
  BY <1>1, WithoutTracked
<1>3. r.order = w /\ r.count = t.count - 1 /\ r = [order |-> w, count |-> t.count - 1]
  OBVIOUS
<1> HIDE DEF w
<1>4. w \in Seq(Tracking(c)) /\ Len(w) \in Nat /\ t.count - 1 = Len(w)
  BY <1>1, <1>2 DEF OrderInv
<1>5. r \in [order : Seq(Tracking(c)), count : Nat]
  BY <1>3, <1>4
<1> QED
  BY <1>2, <1>3, <1>4, <1>5 DEF TrackInv

(* untrackKey() *)
LEMMA UntrackFacts ==
  ASSUME NEW CONSTANT c, Injective(c), NEW t, TrackInv(c, t), NEW k \in c.keys
  PROVE  TrackInv(c, Tiers(c)!Untrack(t, k))
<1> DEFINE f == c.prints[k]
           r == Tiers(c)!Untrack(t, k)
<1>1. OrderInv(c, t.order)
  BY DEF TrackInv
<1>2. Tiers(c)!KeysOf(t, f) = IF Listed(t.order, f) THEN {k} ELSE {}
  BY <1>1, KeysOfFacts
<1>3. k \notin Tiers(c)!KeysOf(t, f) => r = t
  BY DEF Tiers!Untrack
<1>4. k \in Tiers(c)!KeysOf(t, f) /\ Tiers(c)!KeysOf(t, f) \ {k} = {}
         => r = [order |-> Tiers(c)!Without(t, f), count |-> t.count - 1]
  BY DEF Tiers!Untrack
<1> HIDE DEF f, r
<1>5. CASE ~Listed(t.order, f)
  BY <1>2, <1>3, <1>5 DEF r
<1>6. CASE Listed(t.order, f)
  <2>1. r = [order |-> Tiers(c)!Without(t, f), count |-> t.count - 1]
    BY <1>2, <1>4, <1>6
  <2>2. TrackInv(c, r)
    BY <1>6, <2>1, DroppedTracked
  <2> QED
    BY <2>2 DEF r
<1> QED
  BY <1>5, <1>6

----------------------------------------------------------------------------
\* Tiered: the calls

Unanswered == {"called", "applied", "failed"}
Asks == {"get", "set", "delete", "tags", "clear"}
TieredCall(c) ==
    [pc : Tiers(c)!PC, kind : c.kinds \cup {None}, ctx : c.contexts \cup {None},
     key : c.keys \cup {None}, entry : Tiers(c)!Entry \cup {None}]

\* What an operation that goes on knows.
Known(c, p) ==
    /\ p \in TieredCall(c)
    /\ p.pc \notin {"new", "done"} => p.ctx \in c.contexts /\ p.key \in c.keys
    /\ p.pc \in Unanswered => p.kind \in Asks /\ (p.kind = "set" => p.entry \in Tiers(c)!Entry)

\* The calls q of each context are its operations p without an answer, once each.
Waits(c, p, q) ==
    /\ \A x \in c.contexts : \A i \in 1..Len(q[x]) : p[q[x][i]].ctx = x /\ p[q[x][i]].pc \in Unanswered
    /\ \A x \in c.contexts, o \in c.operations :
          p[o].ctx = x /\ p[o].pc \in Unanswered => \E i \in 1..Len(q[x]) : q[x][i] = o
    /\ \A x \in c.contexts : \A i, j \in 1..Len(q[x]) : q[x][i] = q[x][j] => i = j

Asked(c, p, q) ==
    /\ p \in [c.operations -> TieredCall(c)] /\ q \in [c.contexts -> Seq(c.operations)]
    /\ \A o \in c.operations : Known(c, p[o])
    /\ Waits(c, p, q)

(* The calls in the queues are operations. *)
LEMMA AskedParts ==
  ASSUME NEW CONSTANT c, NEW p, NEW q, Asked(c, p, q)
  PROVE  /\ \A x \in c.contexts : q[x] \in Seq(c.operations) /\ Len(q[x]) \in Nat /\ DOMAIN q[x] = 1..Len(q[x])
         /\ \A x \in c.contexts : \A i \in 1..Len(q[x]) : q[x][i] \in c.operations
<1>1. \A x \in c.contexts : q[x] \in Seq(c.operations)
  BY DEF Asked
<1> QED
  BY <1>1

(* A step of an operation that waits for no answer before or after. *)
LEMMA AskedStays ==
  ASSUME NEW CONSTANT c, NEW p, NEW q, Asked(c, p, q), NEW r \in [c.operations -> TieredCall(c)],
         \A o \in c.operations : Known(c, r[o]),
         \A o \in c.operations : r[o].pc \in Unanswered <=> p[o].pc \in Unanswered,
         \A o \in c.operations : r[o].pc \in Unanswered => r[o].ctx = p[o].ctx
  PROVE  Asked(c, r, q)
<1>1. Waits(c, r, q)
  <2>1. ASSUME NEW x \in c.contexts, NEW i \in 1..Len(q[x]) PROVE r[q[x][i]].ctx = x /\ r[q[x][i]].pc \in Unanswered
    <3>1. q[x][i] \in c.operations /\ p[q[x][i]].ctx = x /\ p[q[x][i]].pc \in Unanswered
      BY AskedParts DEF Asked, Waits
    <3> QED
      BY <3>1
  <2>2. \A x \in c.contexts, o \in c.operations :
          r[o].ctx = x /\ r[o].pc \in Unanswered => \E i \in 1..Len(q[x]) : q[x][i] = o
    BY DEF Asked, Waits
  <2> QED
    BY <2>1, <2>2 DEF Asked, Waits
<1> QED
  BY <1>1 DEF Asked

(* A new call is the last of its context. *)
LEMMA AskedGrows ==
  ASSUME NEW CONSTANT c, NEW p, NEW q, Asked(c, p, q), NEW o \in c.operations, NEW x \in c.contexts,
         p[o].pc = "new", NEW e, Known(c, e), e.pc = "called", e.ctx = x
  PROVE  Asked(c, [p EXCEPT ![o] = e], [q EXCEPT ![x] = Append(@, o)])
<1> DEFINE r == [p EXCEPT ![o] = e]
           l == [q EXCEPT ![x] = Append(@, o)]
           n == Len(q[x])
<1>1. p \in [c.operations -> TieredCall(c)] /\ q \in [c.contexts -> Seq(c.operations)] /\ e \in TieredCall(c)
  BY DEF Asked, Known
<1>2. /\ r \in [c.operations -> TieredCall(c)] /\ r[o] = e /\ \A y \in c.operations : y # o => r[y] = p[y]
  BY <1>1
<1>3. /\ q[x] \in Seq(c.operations) /\ n \in Nat /\ \A i \in 1..n : q[x][i] \in c.operations
  BY <1>1, AskedParts
<1>4. /\ l \in [c.contexts -> Seq(c.operations)] /\ l[x] = Append(q[x], o)
      /\ \A y \in c.contexts : y # x => l[y] = q[y]
  <2> DEFINE w == Append(q[x], o)
  <2>1. l = [q EXCEPT ![x] = w]
    OBVIOUS
  <2>2. w \in Seq(c.operations)
    <3> DEFINE v == q[x]
    <3>1. v \in Seq(c.operations) /\ w = Append(v, o)
      BY <1>3
    <3> HIDE DEF v, w
    <3> QED
      BY <3>1
  <2> HIDE DEF w, l
  <2> QED
    BY <1>1, <2>1, <2>2 DEF w
<1>5. /\ Len(l[x]) = n + 1 /\ l[x][n + 1] = o
      /\ \A i \in 1..n : l[x][i] = q[x][i]
      /\ \A i \in 1..Len(l[x]) : i \in 1..n \/ i = n + 1
  <2> DEFINE w == q[x]
             u == Append(w, o)
  <2>1. w \in Seq(c.operations) /\ n = Len(w)
    BY <1>3
  <2> HIDE DEF w, n
  <2>2. Len(u) = n + 1 /\ u[n + 1] = o /\ \A i \in 1..n : u[i] = w[i]
    BY <2>1
  <2>3. \A i \in 1..Len(u) : i \in 1..n \/ i = n + 1
    BY <2>1, <2>2
  <2> QED
    BY <1>4, <2>2, <2>3 DEF w
<1> HIDE DEF r, l, n
<1>6. \A y \in c.operations : Known(c, r[y])
  BY <1>2 DEF Asked
<1>7. \A y \in c.contexts : \A i \in 1..Len(q[y]) :
         /\ q[y][i] \in c.operations /\ q[y][i] # o
         /\ p[q[y][i]].ctx = y /\ p[q[y][i]].pc \in Unanswered
         /\ r[q[y][i]] = p[q[y][i]]
  <2> SUFFICES ASSUME NEW y \in c.contexts, NEW i \in 1..Len(q[y])
               PROVE  /\ q[y][i] \in c.operations /\ q[y][i] # o
                      /\ p[q[y][i]].ctx = y /\ p[q[y][i]].pc \in Unanswered
                      /\ r[q[y][i]] = p[q[y][i]]
    OBVIOUS
  <2>1. q[y][i] \in c.operations /\ p[q[y][i]].ctx = y /\ p[q[y][i]].pc \in Unanswered
    BY AskedParts DEF Asked, Waits
  <2>2. q[y][i] # o
    BY <2>1 DEF Unanswered
  <2> QED
    BY <1>2, <2>1, <2>2
<1>8. ASSUME NEW y \in c.contexts, NEW i \in 1..Len(l[y])
      PROVE  r[l[y][i]].ctx = y /\ r[l[y][i]].pc \in Unanswered
  <2>1. CASE y # x
    <3>1. l[y] = q[y]
      BY <1>4, <2>1
    <3> QED
      BY <1>7, <3>1
  <2>2. CASE y = x /\ i \in 1..n
    BY <1>5, <1>7, <2>2 DEF n
  <2>3. CASE y = x /\ i = n + 1
    <3>1. l[y][i] = o /\ r[o] = e
      BY <1>2, <1>5, <2>3
    <3> QED
      BY <2>3, <3>1 DEF Unanswered
  <2> QED
    BY <1>5, <2>1, <2>2, <2>3
<1>9. ASSUME NEW y \in c.contexts, NEW z \in c.operations, r[z].ctx = y, r[z].pc \in Unanswered
      PROVE  \E i \in 1..Len(l[y]) : l[y][i] = z
  <2>1. CASE z = o
    <3>1. y = x
      BY <1>2, <1>9, <2>1
    <3>2. n + 1 \in 1..Len(l[x])
      BY <1>3, <1>5
    <3> QED
      BY <1>5, <2>1, <3>1, <3>2
  <2>2. CASE z # o
    <3>1. PICK i \in 1..Len(q[y]) : q[y][i] = z
      BY <1>2, <1>9, <2>2 DEF Asked, Waits
    <3>2. CASE y # x
      BY <1>4, <3>1, <3>2
    <3>3. CASE y = x
      <4>1. i \in 1..n /\ i \in 1..Len(l[x])
        BY <1>3, <1>5, <3>1, <3>3 DEF n
      <4> QED
        BY <1>5, <3>1, <3>3, <4>1
    <3> QED
      BY <3>2, <3>3
  <2> QED
    BY <2>1, <2>2
<1>10. ASSUME NEW y \in c.contexts, NEW i \in 1..Len(l[y]), NEW j \in 1..Len(l[y]), l[y][i] = l[y][j] PROVE i = j
  <2>1. CASE y # x
    BY <1>4, <1>10, <2>1 DEF Asked, Waits
  <2>2. CASE y = x
    <3>1. \A a, b \in 1..n : q[x][a] = q[x][b] => a = b
      BY DEF Asked, Waits, n
    <3>2. \A a \in 1..n : q[x][a] # o
      BY <1>7 DEF n
    <3>3. (i \in 1..n \/ i = n + 1) /\ (j \in 1..n \/ j = n + 1)
      BY <1>5, <2>2
    <3> QED
      BY <1>5, <1>10, <2>2, <3>1, <3>2, <3>3
  <2> QED
    BY <2>1, <2>2
<1>11. Waits(c, r, l)
  BY <1>8, <1>9, <1>10 DEF Waits
<1> QED
  BY <1>2, <1>4, <1>6, <1>11 DEF Asked, r, l

(* The oldest call of a context is answered. *)
LEMMA AskedShrinks ==
  ASSUME NEW CONSTANT c, NEW p, NEW q, Asked(c, p, q), NEW x \in c.contexts, q[x] # <<>>,
         NEW e, Known(c, e), e.pc = "done"
  PROVE  Asked(c, [p EXCEPT ![Head(q[x])] = e], [q EXCEPT ![x] = Tail(@)])
<1> DEFINE o == Head(q[x])
           r == [p EXCEPT ![o] = e]
           l == [q EXCEPT ![x] = Tail(@)]
           n == Len(q[x])
<1>1. p \in [c.operations -> TieredCall(c)] /\ q \in [c.contexts -> Seq(c.operations)] /\ e \in TieredCall(c)
  BY DEF Asked, Known
<1>2. /\ q[x] \in Seq(c.operations) /\ n \in Nat \ {0} /\ \A i \in 1..n : q[x][i] \in c.operations
      /\ o = q[x][1] /\ o \in c.operations
  <2>1. q[x] \in Seq(c.operations)
    BY <1>1
  <2> QED
    BY <2>1
<1>3. /\ l \in [c.contexts -> Seq(c.operations)] /\ l[x] = Tail(q[x])
      /\ \A y \in c.contexts : y # x => l[y] = q[y]
  <2> DEFINE w == Tail(q[x])
  <2>1. l = [q EXCEPT ![x] = w]
    OBVIOUS
  <2>2. w \in Seq(c.operations)
    <3> DEFINE v == q[x]
    <3>1. v \in Seq(c.operations) /\ w = Tail(v) /\ v # <<>>
      BY <1>2
    <3> HIDE DEF v, w
    <3> QED
      BY <3>1
  <2> HIDE DEF w, l
  <2> QED
    BY <1>1, <2>1, <2>2 DEF w
<1>4. /\ Len(l[x]) = n - 1
      /\ \A i \in 1..Len(l[x]) : l[x][i] = q[x][i + 1] /\ i + 1 \in 1..n
  <2> DEFINE w == q[x]
             u == Tail(w)
  <2>1. w \in Seq(c.operations) /\ n = Len(w) /\ n \in Nat \ {0}
    BY <1>2
  <2> HIDE DEF w, n
  <2>2. Len(u) = n - 1 /\ \A i \in 1..Len(u) : u[i] = w[i + 1] /\ i + 1 \in 1..n
    BY <2>1
  <2> QED
    BY <1>3, <2>2 DEF w
<1> HIDE DEF o
<1>5. /\ r \in [c.operations -> TieredCall(c)] /\ r[o] = e /\ \A y \in c.operations : y # o => r[y] = p[y]
  BY <1>1, <1>2
<1> HIDE DEF r, l, n
<1>6. \A y \in c.operations : Known(c, r[y])
  BY <1>5 DEF Asked
<1>7. \A y \in c.contexts : \A i \in 1..Len(q[y]) :
         q[y][i] \in c.operations /\ p[q[y][i]].ctx = y /\ p[q[y][i]].pc \in Unanswered
  BY AskedParts DEF Asked, Waits
<1>8. \A i, j \in 1..n : q[x][i] = q[x][j] => i = j
  BY DEF Asked, Waits, n
<1>9. p[o].ctx = x
  BY <1>2, <1>7 DEF n
<1>10. ASSUME NEW y \in c.contexts, NEW i \in 1..Len(l[y])
       PROVE  r[l[y][i]].ctx = y /\ r[l[y][i]].pc \in Unanswered
  <2>1. CASE y # x
    <3>1. l[y][i] \in c.operations /\ p[l[y][i]].ctx = y /\ p[l[y][i]].pc \in Unanswered
      BY <1>3, <1>7, <2>1
    <3>2. l[y][i] # o
      BY <1>9, <2>1, <3>1
    <3> QED
      BY <1>5, <3>1, <3>2
  <2>2. CASE y = x
    <3>1. i + 1 \in 1..n /\ l[x][i] = q[x][i + 1] /\ 1 \in 1..n /\ i \in Nat /\ i + 1 # 1
      BY <1>2, <1>4, <2>2
    <3>2. q[x][i + 1] # o
      BY <1>2, <1>8, <3>1
    <3> QED
      BY <1>5, <1>7, <2>2, <3>1, <3>2 DEF n
  <2> QED
    BY <2>1, <2>2
<1>11. ASSUME NEW y \in c.contexts, NEW z \in c.operations, r[z].ctx = y, r[z].pc \in Unanswered
       PROVE  \E i \in 1..Len(l[y]) : l[y][i] = z
  <2>1. z # o
    BY <1>5, <1>11 DEF Unanswered
  <2>2. PICK i \in 1..Len(q[y]) : q[y][i] = z
    BY <1>5, <1>11, <2>1 DEF Asked, Waits
  <2>3. CASE y # x
    BY <1>3, <2>2, <2>3
  <2>4. CASE y = x
    <3>1. i \in 1..n /\ i # 1
      BY <1>2, <2>1, <2>2, <2>4 DEF n
    <3>2. i - 1 \in 1..Len(l[x])
      BY <1>2, <1>4, <3>1
    <3>3. l[x][i - 1] = q[x][(i - 1) + 1] /\ (i - 1) + 1 = i
      BY <1>4, <3>1, <3>2
    <3> QED
      BY <2>2, <2>4, <3>2, <3>3
  <2> QED
    BY <2>3, <2>4
<1>12. ASSUME NEW y \in c.contexts, NEW i \in 1..Len(l[y]), NEW j \in 1..Len(l[y]), l[y][i] = l[y][j] PROVE i = j
  <2>1. CASE y # x
    BY <1>3, <1>12, <2>1 DEF Asked, Waits
  <2>2. CASE y = x
    <3>1. i + 1 \in 1..n /\ j + 1 \in 1..n /\ q[x][i + 1] = q[x][j + 1]
      BY <1>4, <1>12, <2>2
    <3>2. i + 1 = j + 1
      BY <1>8, <3>1
    <3> QED
      BY <3>2
  <2> QED
    BY <2>1, <2>2
<1>13. Waits(c, r, l)
  BY <1>10, <1>11, <1>12 DEF Waits
<1> QED
  BY <1>3, <1>5, <1>6, <1>13 DEF Asked, r, l, o

----------------------------------------------------------------------------
\* Tiered: what the primary stores hold

Message(c) ==
    [action : {"delete"}, print : {c.prints[k] : k \in c.keys}] \cup [action : {"clear"}, print : {None}]

\* A message under way will drop the key.
Told(c, q, k) == \E i \in 1..Len(q) : q[i].action = "clear" \/ q[i].print = c.prints[k]

\* An operation that has changed the shared entry of k and will tell x, or is
\* a write of x itself and will replace what x holds.
Changing(p, x, k) ==
    /\ p.pc = "applied"
    /\ \/ p.kind = "set" /\ p.key = k
       \/ p.ctx # x /\ p.kind = "delete" /\ p.key = k
       \/ p.ctx # x /\ p.kind \in {"tags", "clear"}

\* An unfinished removal of x that takes e away.
Removes(p, x, k, e) ==
    /\ p.ctx = x /\ p.pc \in Unanswered
    /\ \/ p.kind = "delete" /\ p.key = k
       \/ p.kind = "tags" /\ e.tagged
       \/ p.kind = "clear"

\* x may hold e under k: it is the shared entry, or it is about to go.
Fits(c, p, s, b, x, k, e) ==
    /\ e = s[k] \/ Told(c, b[x], k) \/ \E o \in c.operations : Changing(p[o], x, k)
    /\ \A o \in c.operations : ~Removes(p[o], x, k, e)

\* x holds e, and no removal of k overlapped its read.
Exposed(x, k, e) == listens[x] /\ <<x, k>> \notin raced /\ Holding(primary[x], k, e)

Sound(c) ==
    \A x \in c.contexts, k \in c.keys, e \in Tiers(c)!Entry :
       Exposed(x, k, e) => Fits(c, op, secondary, inbox, x, k, e)

Stores(c, m) == m \in [c.contexts -> Store(c)] /\ \A x \in c.contexts : StoreInv(c, m[x])
Tracks(c, t) ==
    /\ t \in [c.contexts -> [order : Seq(Tracking(c)), count : Nat]]
    /\ \A x \in c.contexts : TrackInv(c, t[x])

\* While calls and messages are under way, an entry that is not the shared one
\* is about to be dropped or replaced (Sound), and a call is under way exactly
\* while its operation waits (Asked).
TieredInv(c) ==
    /\ Asked(c, op, calls) /\ Stores(c, primary) /\ Tracks(c, tracked)
    /\ secondary \in [c.keys -> Tiers(c)!Entry \cup {None}]
    /\ inbox \in [c.contexts -> Seq(Message(c))] /\ listens \in [c.contexts -> BOOLEAN]
    /\ raced \subseteq c.contexts \X c.keys
    /\ Sound(c)

(* One store is replaced. *)
LEMMA StoresPut ==
  ASSUME NEW CONSTANT c, NEW m, Stores(c, m), NEW x \in c.contexts, NEW n, StoreInv(c, n)
  PROVE  Stores(c, [m EXCEPT ![x] = n])
<1>1. n \in Store(c)
  BY DEF StoreInv
<1> QED
  BY <1>1 DEF Stores

(* The tracked keys of one context are replaced. *)
LEMMA TracksPut ==
  ASSUME NEW CONSTANT c, NEW t, Tracks(c, t), NEW x \in c.contexts, NEW n, TrackInv(c, n)
  PROVE  Tracks(c, [t EXCEPT ![x] = n])
<1>1. n \in [order : Seq(Tracking(c)), count : Nat]
  BY DEF TrackInv
<1> QED
  BY <1>1 DEF Tracks

(* What a context holds still fits when nothing that speaks for it goes. *)
LEMMA FitsKept ==
  ASSUME NEW CONSTANT c, NEW p, NEW s, NEW b, NEW x, NEW k, NEW e, Fits(c, p, s, b, x, k, e),
         NEW r, NEW t, NEW d, e = s[k] => e = t[k], Told(c, b[x], k) => Told(c, d[x], k),
         \A o \in c.operations : Changing(p[o], x, k) => Changing(r[o], x, k),
         \A o \in c.operations : Removes(r[o], x, k, e) => Removes(p[o], x, k, e)
  PROVE  Fits(c, r, t, d, x, k, e)
BY DEF Fits

(* A posted message reaches every other context that listens. *)
LEMMA PostFacts ==
  ASSUME NEW CONSTANT c, NEW x \in c.contexts, NEW m \in Message(c), Tiers(c)!Post(x, m),
         inbox \in [c.contexts -> Seq(Message(c))]
  PROVE  /\ inbox' \in [c.contexts -> Seq(Message(c))]
         /\ \A y \in c.contexts, k \in c.keys : Told(c, inbox[y], k) => Told(c, inbox'[y], k)
         /\ \A y \in c.contexts, k \in c.keys :
               y # x /\ listens[y] /\ (m.action = "clear" \/ m.print = c.prints[k]) => Told(c, inbox'[y], k)
<1>1. inbox' = [y \in c.contexts |-> IF y # x /\ listens[y] THEN Append(inbox[y], m) ELSE inbox[y]]
  BY DEF Tiers!Post
<1>2. ASSUME NEW q \in Seq(Message(c))
      PROVE  /\ Append(q, m) \in Seq(Message(c)) /\ Len(Append(q, m)) = Len(q) + 1 /\ Len(q) \in Nat
             /\ Append(q, m)[Len(q) + 1] = m /\ \A i \in 1..Len(q) : Append(q, m)[i] = q[i]
  BY <1>2
<1>3. ASSUME NEW q \in Seq(Message(c)), NEW k \in c.keys
      PROVE  /\ Told(c, q, k) => Told(c, Append(q, m), k)
             /\ m.action = "clear" \/ m.print = c.prints[k] => Told(c, Append(q, m), k)
  <2> DEFINE u == Append(q, m)
  <2>1. Len(u) = Len(q) + 1 /\ Len(q) \in Nat /\ u[Len(q) + 1] = m /\ \A i \in 1..Len(q) : u[i] = q[i]
    BY <1>2
  <2> HIDE DEF u
  <2>2. (\A i \in 1..Len(q) : i \in 1..Len(u)) /\ Len(q) + 1 \in 1..Len(u)
    BY <2>1
  <2>3. Told(c, q, k) => Told(c, u, k)
    BY <2>1, <2>2 DEF Told
  <2>4. m.action = "clear" \/ m.print = c.prints[k] => Told(c, u, k)
    BY <2>1, <2>2 DEF Told
  <2> QED
    BY <2>3, <2>4 DEF u
<1>4. \A y \in c.contexts : inbox[y] \in Seq(Message(c))
  OBVIOUS
<1>5. \A y \in c.contexts : inbox'[y] = IF y # x /\ listens[y] THEN Append(inbox[y], m) ELSE inbox[y]
  BY <1>1
<1>6. ASSUME NEW y \in c.contexts PROVE inbox'[y] \in Seq(Message(c))
  BY <1>2, <1>4, <1>5
<1>7. inbox' \in [c.contexts -> Seq(Message(c))]
  <2> DEFINE pick(y) == IF y # x /\ listens[y] THEN Append(inbox[y], m) ELSE inbox[y]
  <2>1. inbox' = [y \in c.contexts |-> pick(y)]
    BY <1>1
  <2>2. \A y \in c.contexts : pick(y) \in Seq(Message(c))
    BY <1>5, <1>6
  <2> HIDE DEF pick
  <2> QED
    BY <2>1, <2>2
<1>8. ASSUME NEW y \in c.contexts, NEW k \in c.keys
      PROVE  /\ Told(c, inbox[y], k) => Told(c, inbox'[y], k)
             /\ y # x /\ listens[y] /\ (m.action = "clear" \/ m.print = c.prints[k]) => Told(c, inbox'[y], k)
  BY <1>3, <1>4, <1>5
<1> QED
  BY <1>7, <1>8

(* The messages that are posted. *)
LEMMA Messages ==
  ASSUME NEW CONSTANT c
  PROVE  /\ \A k \in c.keys : Tiers(c)!DropKey(k) \in Message(c) /\ Tiers(c)!DropKey(k).print = c.prints[k]
         /\ Tiers(c)!DropAll \in Message(c) /\ Tiers(c)!DropAll.action = "clear"
BY DEF Message, Tiers!DropKey, Tiers!DropAll

(* A call of the secondary store: nothing but the operation changes. *)
LEMMA CallsKeep ==
  ASSUME NEW CONSTANT c, TieredInv(c), NEW o \in c.operations, op[o].pc = "new", NEW x \in c.contexts, NEW k \in c.keys,
         NEW kind \in Asks \cap c.kinds, NEW e \in Tiers(c)!Entry \cup {None}, kind = "set" => e \in Tiers(c)!Entry,
         Tiers(c)!Calls(o, kind, x, k, e)
  PROVE  /\ Asked(c, op', calls')
         /\ op'[o].pc = "called" /\ op'[o].kind = kind /\ op'[o].ctx = x /\ op'[o].key = k
         /\ \A y \in c.operations : y # o => op'[y] = op[y]
<1> DEFINE p == [pc |-> "called", kind |-> kind, ctx |-> x, key |-> k, entry |-> e]
<1>1. op' = [op EXCEPT ![o] = p] /\ calls' = [calls EXCEPT ![x] = Append(@, o)]
  BY DEF Tiers!Calls, Tiers!Fresh
<1>2. p \in TieredCall(c)
  BY DEF TieredCall, Tiers!PC
<1>3. p.pc = "called" /\ p.kind = kind /\ p.ctx = x /\ p.key = k /\ p.entry = e
  OBVIOUS
<1> HIDE DEF p
<1>4. Known(c, p)
  BY <1>2, <1>3 DEF Known
<1>5. Asked(c, op, calls) /\ op \in [c.operations -> TieredCall(c)]
  BY DEF TieredInv, Asked
<1>6. Asked(c, op', calls')
  BY <1>1, <1>3, <1>4, <1>5, AskedGrows
<1> QED
  BY <1>1, <1>3, <1>5, <1>6

(* An operation that is done without a call. *)
LEMMA DoneStays ==
  ASSUME NEW CONSTANT c, TieredInv(c), NEW o \in c.operations, op[o].pc \notin Unanswered,
         NEW p, Known(c, p), p.pc \notin Unanswered, op' = [op EXCEPT ![o] = p], calls' = calls
  PROVE  /\ Asked(c, op', calls') /\ op'[o] = p
         /\ \A y \in c.operations : y # o => op'[y] = op[y]
<1>1. Asked(c, op, calls) /\ op \in [c.operations -> TieredCall(c)] /\ p \in TieredCall(c)
  BY DEF TieredInv, Asked, Known
<1>2. op' \in [c.operations -> TieredCall(c)] /\ op'[o] = p /\ \A y \in c.operations : y # o => op'[y] = op[y]
  BY <1>1
<1>3. \A y \in c.operations : Known(c, op'[y])
  BY <1>1, <1>2 DEF Asked
<1>4. \A y \in c.operations : /\ op'[y].pc \in Unanswered <=> op[y].pc \in Unanswered
                              /\ op'[y].pc \in Unanswered => op'[y].ctx = op[y].ctx
  BY <1>2
<1>5. Asked(c, op', calls)
  BY <1>1, <1>2, <1>3, <1>4, AskedStays
<1> QED
  BY <1>2, <1>5

(* An operation that has applied no change, and does not remove: nothing is affected. *)
LEMMA OthersFit ==
  ASSUME NEW CONSTANT c, NEW o \in c.operations, \A y \in c.operations : y # o => op'[y] = op[y],
         op[o].pc # "applied" \/ op[o].kind = "get", NEW x, NEW k, NEW e, ~Removes(op'[o], x, k, e),
         NEW s, NEW b, Fits(c, op, s, b, x, k, e)
  PROVE  Fits(c, op', s, b, x, k, e)
<1>1. \A y \in c.operations : Changing(op[y], x, k) => Changing(op'[y], x, k)
  BY DEF Changing
<1>2. \A y \in c.operations : Removes(op'[y], x, k, e) => Removes(op[y], x, k, e)
  OBVIOUS
<1> HIDE DEF Removes
<1> QED
  BY <1>1, <1>2, FitsKept

(* What a store drops is dropped, and what stays has not changed. *)
LEMMA SoundShrinks ==
  ASSUME NEW CONSTANT c, Sound(c), listens' = listens, raced' = raced, secondary' = secondary, inbox' = inbox,
         NEW o \in c.operations, \A y \in c.operations : y # o => op'[y] = op[y],
         op[o].pc # "applied" \/ op[o].kind = "get",
         \A x \in c.contexts, k \in c.keys, e \in Tiers(c)!Entry :
            Holding(primary'[x], k, e) => Holding(primary[x], k, e) /\ ~Removes(op'[o], x, k, e)
  PROVE  Sound(c)'
<1> SUFFICES ASSUME NEW x \in c.contexts, NEW k \in c.keys, NEW e \in Tiers(c)!Entry, Exposed(x, k, e)'
             PROVE  Fits(c, op', secondary', inbox', x, k, e)
  BY DEF Sound
<1>1. Holding(primary'[x], k, e)
  BY DEF Exposed
<1>2. Exposed(x, k, e) /\ ~Removes(op'[o], x, k, e)
  BY <1>1 DEF Exposed
<1>3. Fits(c, op, secondary, inbox, x, k, e)
  BY <1>2 DEF Sound
<1> QED
  BY <1>2, <1>3, OthersFit

(* get(): an answer of the primary store, or a call of the secondary one. *)
LEMMA GetKeeps ==
  ASSUME NEW CONSTANT c, Tiers(c)!TieredAssumption, Injective(c), TieredInv(c), NEW o \in c.operations, NEW x \in c.contexts,
         NEW k \in c.keys, op[o].pc = "new", "get" \in c.kinds, Tiers(c)!Get(o, x, k)
  PROVE  TieredInv(c)'
<1>1. UNCHANGED <<secondary, inbox, listens, raced>>
  BY DEF Tiers!Get
<1>2. CASE Tiers(c)!Memory!Holds(primary[x], k)
  <2> DEFINE p == [op[o] EXCEPT !.pc = "done"]
             m == Tiers(c)!Memory!Touched(primary[x], k)
             t == Tiers(c)!Track(tracked[x], k)
  <2>1. /\ op' = [op EXCEPT ![o] = p] /\ calls' = calls
        /\ primary' = [primary EXCEPT ![x] = m] /\ tracked' = [tracked EXCEPT ![x] = t]
    BY <1>2 DEF Tiers!Get
  <2>2. Stores(c, primary) /\ Tracks(c, tracked) /\ StoreInv(c, primary[x]) /\ TrackInv(c, tracked[x]) /\ Sound(c)
    BY DEF TieredInv, Stores, Tracks
  <2>3. StoreInv(c, m) /\ Fewer(m, primary[x], {})
    BY <2>2, TouchedFacts
  <2>4. TrackInv(c, t)
    BY <2>2, TrackFacts
  <2> HIDE DEF m, t
  <2>5. Stores(c, primary')
    BY <2>1, <2>2, <2>3, StoresPut
  <2>6. Tracks(c, tracked')
    BY <2>1, <2>2, <2>4, TracksPut
  <2>7. op[o] \in TieredCall(c)
    BY DEF TieredInv, Asked
  <2>8. p \in TieredCall(c) /\ p.pc = "done"
    BY <2>7 DEF TieredCall, Tiers!PC
  <2> HIDE DEF p
  <2>9. Known(c, p) /\ p.pc \notin Unanswered
    BY <2>8 DEF Known, Unanswered
  <2>10. op[o].pc \notin Unanswered
    BY DEF Unanswered
  <2>11. /\ Asked(c, op', calls') /\ op'[o] = p
         /\ \A y \in c.operations : y # o => op'[y] = op[y]
    BY <2>1, <2>9, <2>10, DoneStays
  <2>12. ASSUME NEW y \in c.contexts, NEW j \in c.keys, NEW e \in Tiers(c)!Entry, Holding(primary'[y], j, e)
         PROVE  Holding(primary[y], j, e) /\ ~Removes(op'[o], y, j, e)
    <3>1. ~Removes(op'[o], y, j, e)
      BY <2>9, <2>11 DEF Removes
    <3>2. primary'[y] = IF y = x THEN m ELSE primary[y]
      BY <2>1, <2>2 DEF Stores
    <3>3. Holding(primary[y], j, e)
      BY <2>3, <2>12, <3>2 DEF Fewer
    <3> QED
      BY <3>1, <3>3
  <2>13. Sound(c)'
    BY <1>1, <2>2, <2>11, <2>12, SoundShrinks
  <2> QED
    BY <1>1, <2>5, <2>6, <2>11, <2>13 DEF TieredInv
<1>3. CASE ~Tiers(c)!Memory!Holds(primary[x], k)
  <2>1. Tiers(c)!Calls(o, "get", x, k, None) /\ primary' = primary /\ tracked' = tracked
    BY <1>3 DEF Tiers!Get
  <2>2. /\ Asked(c, op', calls') /\ op'[o].kind = "get"
        /\ \A y \in c.operations : y # o => op'[y] = op[y]
    BY <2>1, CallsKeep DEF Asks
  <2>3. Sound(c)
    BY DEF TieredInv
  <2>4. ASSUME NEW y \in c.contexts, NEW j \in c.keys, NEW e \in Tiers(c)!Entry, Holding(primary'[y], j, e)
        PROVE  Holding(primary[y], j, e) /\ ~Removes(op'[o], y, j, e)
    BY <2>1, <2>2, <2>4 DEF Removes
  <2>5. Sound(c)'
    BY <1>1, <2>2, <2>3, <2>4, SoundShrinks
  <2> QED
    BY <1>1, <2>1, <2>2, <2>5 DEF TieredInv
<1> QED
  BY <1>2, <1>3

(* set(): the secondary store is called first. *)
LEMMA SetCallKeeps ==
  ASSUME NEW CONSTANT c, TieredInv(c), NEW o \in c.operations, NEW x \in c.contexts,
         NEW k \in c.keys, op[o].pc = "new", "set" \in c.kinds, Tiers(c)!Set(o, x, k)
  PROVE  TieredInv(c)'
<1>1. PICK tagged \in BOOLEAN :
         /\ Tiers(c)!Calls(o, "set", x, k, [by |-> o, tagged |-> tagged])
         /\ UNCHANGED <<secondary, primary, tracked, inbox, listens, locks, raced>>
  BY DEF Tiers!Set
<1>2. [by |-> o, tagged |-> tagged] \in Tiers(c)!Entry
  BY DEF Tiers!Entry
<1>3. /\ Asked(c, op', calls') /\ op'[o].kind = "set"
      /\ \A y \in c.operations : y # o => op'[y] = op[y]
  BY <1>1, <1>2, CallsKeep DEF Asks
<1>4. ASSUME NEW y \in c.contexts, NEW j \in c.keys, NEW e \in Tiers(c)!Entry, Holding(primary'[y], j, e)
      PROVE  Holding(primary[y], j, e) /\ ~Removes(op'[o], y, j, e)
  BY <1>1, <1>3, <1>4 DEF Removes
<1>5. Sound(c)'
  BY <1>1, <1>3, <1>4, SoundShrinks DEF TieredInv
<1> QED
  BY <1>1, <1>3, <1>5 DEF TieredInv

(* delete(), invalidateTags(), clear(): the caller drops its own entries first. *)
LEMMA RemoveKeeps ==
  ASSUME NEW CONSTANT c, Tiers(c)!TieredAssumption, TieredInv(c), NEW o \in c.operations, NEW x \in c.contexts,
         NEW k \in c.keys, op[o].pc = "new", NEW kind \in Tiers(c)!Removal \cap c.kinds, Tiers(c)!Remove(o, kind, x, k)
  PROVE  TieredInv(c)'
<1> DEFINE m == CASE kind = "delete" -> Tiers(c)!Memory!Deleted(primary[x], k)
                  [] kind = "tags"   -> Tiers(c)!Memory!Without(primary[x], Tiers(c)!Memory!Tagged(primary[x]))
                  [] kind = "clear"  -> Tiers(c)!Memory!Empty
<1>1. /\ Tiers(c)!Calls(o, kind, x, k, None) /\ primary' = [primary EXCEPT ![x] = m]
      /\ UNCHANGED <<secondary, tracked, inbox, listens, locks, raced>>
  BY Zenon DEF Tiers!Remove
<1>2. kind \in Asks \cap c.kinds /\ kind \in {"delete", "tags", "clear"}
  BY DEF Asks, Tiers!Removal
<1>3. /\ Asked(c, op', calls') /\ op'[o].kind = kind /\ op'[o].ctx = x /\ op'[o].key = k
      /\ \A y \in c.operations : y # o => op'[y] = op[y]
  BY <1>1, <1>2, CallsKeep
<1>4. Stores(c, primary) /\ StoreInv(c, primary[x]) /\ primary[x] \in Store(c) /\ Sound(c)
  BY DEF TieredInv, Stores
<1>5. /\ StoreInv(c, m)
      /\ \A j \in c.keys, e \in Tiers(c)!Entry :
            Holding(m, j, e) => Holding(primary[x], j, e) /\ ~Removes(op'[o], x, j, e)
  <2>1. CASE kind = "delete"
    <3>1. m = Tiers(c)!Memory!Without(primary[x], {k})
      BY <2>1 DEF Tiers!Memory!Deleted
    <3> HIDE DEF m
    <3>2. StoreInv(c, m) /\ Fewer(m, primary[x], {k})
      BY <1>4, <3>1, WithoutFacts
    <3> QED
      BY <1>3, <2>1, <3>2 DEF Fewer, Removes
  <2>2. CASE kind = "tags"
    <3> DEFINE gone == Tiers(c)!Memory!Tagged(primary[x])
    <3>1. m = Tiers(c)!Memory!Without(primary[x], gone)
      BY <2>2
    <3>2. gone = {primary[x].entries[i].key : i \in {j \in DOMAIN primary[x].entries : primary[x].entries[j].entry.tagged}}
      BY DEF Tiers!Memory!Tagged
    <3> HIDE DEF m, gone
    <3>3. StoreInv(c, m) /\ Fewer(m, primary[x], gone)
      BY <1>4, <3>1, WithoutFacts
    <3>4. ASSUME NEW j \in c.keys, NEW e \in Tiers(c)!Entry, Holding(m, j, e)
          PROVE  Holding(primary[x], j, e) /\ ~e.tagged
      <4>1. Holding(primary[x], j, e) /\ j \notin gone
        BY <3>3, <3>4 DEF Fewer
      <4>2. PICK i \in 1..Len(primary[x].entries) : primary[x].entries[i].key = j /\ primary[x].entries[i].entry = e
        BY <4>1 DEF Holding
      <4>3. i \in DOMAIN primary[x].entries
        BY <1>4, <4>2, StoreParts
      <4>4. e.tagged => j \in gone
        BY <3>2, <4>2, <4>3
      <4> QED
        BY <4>1, <4>4
    <3> QED
      BY <1>3, <2>2, <3>3, <3>4 DEF Removes
  <2>3. CASE kind = "clear"
    <3>1. m = Tiers(c)!Memory!Empty
      BY <2>3
    <3> HIDE DEF m
    <3> QED
      BY <3>1, EmptyFacts
  <2> QED
    BY <1>2, <2>1, <2>2, <2>3
<1> HIDE DEF m
<1>6. Stores(c, primary')
  BY <1>1, <1>4, <1>5, StoresPut
<1>7. ASSUME NEW y \in c.contexts, NEW j \in c.keys, NEW e \in Tiers(c)!Entry, Holding(primary'[y], j, e)
      PROVE  Holding(primary[y], j, e) /\ ~Removes(op'[o], y, j, e)
  <2>1. primary'[y] = IF y = x THEN m ELSE primary[y]
    BY <1>1, <1>4 DEF Stores
  <2>2. CASE y = x
    BY <1>5, <1>7, <2>1, <2>2
  <2>3. CASE y # x
    BY <1>3, <1>7, <2>1, <2>3 DEF Removes
  <2> QED
    BY <2>2, <2>3
<1>8. Sound(c)'
  BY <1>1, <1>3, <1>4, <1>7, SoundShrinks
<1> QED
  BY <1>1, <1>3, <1>6, <1>8 DEF TieredInv

(* The secondary store carries out a call: what other contexts hold is told *)
(* to them when the call is settled, and the caller has dropped its own.    *)
LEMMA ApplyKeeps ==
  ASSUME NEW CONSTANT c, TieredInv(c), NEW x \in c.contexts, Tiers(c)!Apply(x)
  PROVE  TieredInv(c)'
<1>1. PICK i \in DOMAIN calls[x] :
        LET o == calls[x][i]
            answers(pc, e) == op' = [op EXCEPT ![o].pc = pc, ![o].entry = e]
        IN  /\ op[o].pc = "called"
            /\ \/ /\ answers("failed", op[o].entry)
                  /\ UNCHANGED secondary
               \/ /\ answers("applied", IF op[o].kind = "get" THEN secondary[op[o].key] ELSE op[o].entry)
                  /\ secondary' =
                       CASE op[o].kind = "get"    -> secondary
                         [] op[o].kind = "set"    -> [secondary EXCEPT ![op[o].key] = op[o].entry]
                         [] op[o].kind = "delete" -> [secondary EXCEPT ![op[o].key] = None]
                         [] op[o].kind = "clear"  -> [k \in c.keys |-> None]
                         [] op[o].kind = "tags"   ->
                              [k \in c.keys |-> IF secondary[k] # None /\ secondary[k].tagged
                                                THEN None ELSE secondary[k]]
            /\ UNCHANGED <<calls, primary, tracked, inbox, listens, locks, raced>>
  BY Zenon DEF Tiers!Apply
<1> DEFINE o == calls[x][i]
           p == op[o]
           got == IF p.kind = "get" THEN secondary[p.key] ELSE p.entry
           failed == [p EXCEPT !.pc = "failed"]
           applied == [p EXCEPT !.pc = "applied", !.entry = got]
<1>2. UNCHANGED <<calls, primary, tracked, inbox, listens, raced>> /\ p.pc = "called"
  BY <1>1
<1>3. /\ op \in [c.operations -> TieredCall(c)] /\ secondary \in [c.keys -> Tiers(c)!Entry \cup {None}]
      /\ Asked(c, op, calls) /\ Sound(c)
  BY DEF TieredInv, Asked
<1>4. o \in c.operations /\ p.ctx = x
  <2>1. i \in 1..Len(calls[x])
    BY <1>3, AskedParts
  <2> QED
    BY <1>3, <2>1, AskedParts DEF Asked, Waits
<1>5. \/ op' = [op EXCEPT ![o] = failed] /\ secondary' = secondary
      \/ /\ op' = [op EXCEPT ![o] = applied]
         /\ secondary' =
              CASE p.kind = "get"    -> secondary
                [] p.kind = "set"    -> [secondary EXCEPT ![p.key] = p.entry]
                [] p.kind = "delete" -> [secondary EXCEPT ![p.key] = None]
                [] p.kind = "clear"  -> [k \in c.keys |-> None]
                [] p.kind = "tags"   -> [k \in c.keys |-> IF secondary[k] # None /\ secondary[k].tagged
                                                          THEN None ELSE secondary[k]]
  <2>1. \/ op' = [op EXCEPT ![o].pc = "failed", ![o].entry = p.entry] /\ secondary' = secondary
        \/ /\ op' = [op EXCEPT ![o].pc = "applied", ![o].entry = got]
           /\ secondary' =
                CASE p.kind = "get"    -> secondary
                  [] p.kind = "set"    -> [secondary EXCEPT ![p.key] = p.entry]
                  [] p.kind = "delete" -> [secondary EXCEPT ![p.key] = None]
                  [] p.kind = "clear"  -> [k \in c.keys |-> None]
                  [] p.kind = "tags"   -> [k \in c.keys |-> IF secondary[k] # None /\ secondary[k].tagged
                                                            THEN None ELSE secondary[k]]
    BY <1>1, Zenon
  <2> HIDE DEF o
  <2>2. p \in TieredCall(c)
    BY <1>3, <1>4
  <2>3. [op EXCEPT ![o].pc = "failed", ![o].entry = p.entry] = [op EXCEPT ![o] = failed]
    BY <1>3, <1>4, <2>2 DEF TieredCall
  <2>4. [op EXCEPT ![o].pc = "applied", ![o].entry = got] = [op EXCEPT ![o] = applied]
    BY <1>3, <1>4
  <2> QED
    BY <2>1, <2>3, <2>4
<1> HIDE DEF o
<1>6. Known(c, p) /\ p \in TieredCall(c) /\ p.ctx \in c.contexts /\ p.key \in c.keys /\ p.kind \in Asks
  BY <1>2, <1>3, <1>4 DEF Asked, Known, Unanswered
<1>7. got \in Tiers(c)!Entry \cup {None} /\ (p.kind # "get" => got = p.entry)
  BY <1>3, <1>6 DEF TieredCall
<1>8. /\ failed \in TieredCall(c) /\ failed.pc = "failed" /\ failed.kind = p.kind
      /\ failed.ctx = p.ctx /\ failed.key = p.key /\ failed.entry = p.entry
  BY <1>6 DEF TieredCall, Tiers!PC
<1>9. /\ applied \in TieredCall(c) /\ applied.pc = "applied" /\ applied.kind = p.kind
      /\ applied.ctx = p.ctx /\ applied.key = p.key /\ applied.entry = got
  BY <1>6, <1>7 DEF TieredCall, Tiers!PC
<1> HIDE DEF p, got, failed, applied
<1>10. PICK r \in {failed, applied} :
          /\ op' = [op EXCEPT ![o] = r]
          /\ \/ r = failed /\ secondary' = secondary
             \/ /\ r = applied
                /\ secondary' =
                     CASE p.kind = "get"    -> secondary
                       [] p.kind = "set"    -> [secondary EXCEPT ![p.key] = p.entry]
                       [] p.kind = "delete" -> [secondary EXCEPT ![p.key] = None]
                       [] p.kind = "clear"  -> [k \in c.keys |-> None]
                       [] p.kind = "tags"   -> [k \in c.keys |-> IF secondary[k] # None /\ secondary[k].tagged
                                                                 THEN None ELSE secondary[k]]
  BY <1>5, Zenon
<1>11. /\ r \in TieredCall(c) /\ r.pc \in {"failed", "applied"} /\ r.kind = p.kind
       /\ r.ctx = p.ctx /\ r.key = p.key /\ (p.kind # "get" => r.entry = p.entry)
  BY <1>7, <1>8, <1>9
<1>12. /\ op' \in [c.operations -> TieredCall(c)] /\ op'[o] = r
       /\ \A y \in c.operations : y # o => op'[y] = op[y]
  BY <1>3, <1>4, <1>10, <1>11
<1>13. Known(c, r)
  BY <1>2, <1>6, <1>11 DEF Known, Unanswered, Asks
<1>14. Asked(c, op', calls')
  <2>1. \A y \in c.operations : Known(c, op'[y])
    BY <1>3, <1>12, <1>13 DEF Asked
  <2>2. p.pc \in Unanswered /\ r.pc \in Unanswered
    BY <1>2, <1>11 DEF Unanswered
  <2>3. \A y \in c.operations : /\ op'[y].pc \in Unanswered <=> op[y].pc \in Unanswered
                                /\ op'[y].pc \in Unanswered => op'[y].ctx = op[y].ctx
    BY <1>11, <1>12, <2>2 DEF p
  <2>4. Asked(c, op', calls)
    BY <1>3, <1>12, <2>1, <2>3, AskedStays
  <2> QED
    BY <1>2, <2>4
<1>15. p.kind = "set" => p.entry \in Tiers(c)!Entry
  BY <1>2, <1>6 DEF Known, Unanswered
<1>16. /\ r = failed \/ p.kind = "get" => secondary' = secondary
       /\ r = applied /\ p.kind = "set" => secondary' = [secondary EXCEPT ![p.key] = p.entry]
       /\ r = applied /\ p.kind = "delete" => secondary' = [secondary EXCEPT ![p.key] = None]
       /\ r = applied /\ p.kind = "clear" => secondary' = [k \in c.keys |-> None]
       /\ r = applied /\ p.kind = "tags" =>
             secondary' = [k \in c.keys |-> IF secondary[k] # None /\ secondary[k].tagged THEN None ELSE secondary[k]]
  <2>1. failed # applied
    BY <1>8, <1>9
  <2>2. CASE r = failed /\ secondary' = secondary
    BY <2>1, <2>2
  <2>3. CASE /\ r = applied
             /\ secondary' =
                  CASE p.kind = "get"    -> secondary
                    [] p.kind = "set"    -> [secondary EXCEPT ![p.key] = p.entry]
                    [] p.kind = "delete" -> [secondary EXCEPT ![p.key] = None]
                    [] p.kind = "clear"  -> [k \in c.keys |-> None]
                    [] p.kind = "tags"   -> [k \in c.keys |-> IF secondary[k] # None /\ secondary[k].tagged
                                                              THEN None ELSE secondary[k]]
    BY <2>1, <2>3
  <2> QED
    BY <1>10, <2>2, <2>3
<1>17. secondary' \in [c.keys -> Tiers(c)!Entry \cup {None}]
  <2>1. CASE r = failed \/ p.kind = "get"
    BY <1>3, <1>16, <2>1
  <2>2. CASE r = applied /\ p.kind = "set"
    BY <1>3, <1>15, <1>16, <2>2
  <2>3. CASE r = applied /\ p.kind = "delete"
    BY <1>3, <1>16, <2>3
  <2>4. CASE r = applied /\ p.kind = "clear"
    BY <1>16, <2>4
  <2>5. CASE r = applied /\ p.kind = "tags"
    BY <1>3, <1>16, <2>5
  <2> QED
    BY <1>6, <1>10, <2>1, <2>2, <2>3, <2>4, <2>5 DEF Asks
<1>18. Sound(c)'
  <2> SUFFICES ASSUME NEW y \in c.contexts, NEW k \in c.keys, NEW e \in Tiers(c)!Entry, Exposed(y, k, e)'
               PROVE  Fits(c, op', secondary', inbox', y, k, e)
    BY DEF Sound
  <2>1. Exposed(y, k, e)
    BY <1>2 DEF Exposed
  <2>2. Fits(c, op, secondary, inbox, y, k, e)
    BY <1>3, <2>1 DEF Sound
  <2>3. \A z \in c.operations : Removes(op'[z], y, k, e) => Removes(op[z], y, k, e)
    BY <1>2, <1>11, <1>12 DEF Removes, Unanswered, p
  <2>4. \A z \in c.operations : Changing(op[z], y, k) => Changing(op'[z], y, k)
    BY <1>2, <1>12 DEF Changing, p
  <2>5. CASE e = secondary[k] => e = secondary'[k]
    BY <1>2, <2>2, <2>3, <2>4, <2>5, FitsKept
  <2>6. CASE Changing(r, y, k)
    BY <1>4, <1>12, <2>2, <2>3, <2>6 DEF Fits
  <2>7. CASE secondary[k] = e /\ secondary'[k] # e /\ ~Changing(r, y, k)
    <3>1. r = applied /\ r.pc = "applied" /\ p.kind # "get"
      BY <1>9, <1>10, <1>16, <2>7
    <3>2. ~Removes(p, y, k, e)
      BY <1>4, <2>2 DEF Fits, p
    <3>3. p.kind = "set" => p.key = k
      BY <1>3, <1>16, <2>7, <3>1
    <3>4. p.kind = "delete" => p.key = k
      BY <1>3, <1>16, <2>7, <3>1
    <3>5. p.kind = "tags" => e.tagged
      BY <1>3, <1>16, <2>7, <3>1
    <3>6. p.ctx = y /\ p.kind # "set"
      BY <1>6, <1>11, <2>7, <3>1, <3>3, <3>4 DEF Changing, Asks
    <3>7. Removes(p, y, k, e)
      BY <1>2, <1>6, <3>1, <3>4, <3>5, <3>6 DEF Removes, Unanswered, Asks, p
    <3> QED
      BY <3>2, <3>7
  <2> QED
    BY <2>5, <2>6, <2>7
<1> QED
  BY <1>2, <1>14, <1>17, <1>18 DEF TieredInv

(* A write of the primary store: an entry that is not the shared one, or is *)
(* being removed, is marked.                                                *)
LEMMA WrittenHolds ==
  ASSUME NEW CONSTANT c, Tiers(c)!TieredAssumption, Stores(c, primary), NEW x \in c.contexts, NEW k \in c.keys,
         NEW e \in Tiers(c)!Entry, Tiers(c)!WritePrimary(x, k, e), raced \subseteq c.contexts \X c.keys
  PROVE  /\ Stores(c, primary') /\ raced' \subseteq c.contexts \X c.keys
         /\ \A y \in c.contexts, j \in c.keys, d \in Tiers(c)!Entry :
               Holding(primary'[y], j, d) /\ <<y, j>> \notin raced' =>
                  \/ y = x /\ j = k /\ d = e /\ secondary[k] = e /\ \A o \in c.operations : ~Removes(op[o], x, k, e)
                  \/ (y # x \/ j # k) /\ Holding(primary[y], j, d) /\ <<y, j>> \notin raced
<1> DEFINE m == Tiers(c)!Memory!Stored(primary[x], k, e)
<1>1. /\ primary' = [primary EXCEPT ![x] = m]
      /\ raced' = IF secondary[k] # e \/ Tiers(c)!Removing(x, k, e) THEN raced \cup {<<x, k>>} ELSE raced \ {<<x, k>>}
  BY DEF Tiers!WritePrimary, Tiers!Marked
<1>2. Tiers(c)!Removing(x, k, e) <=> \E o \in c.operations : Removes(op[o], x, k, e)
  BY DEF Tiers!Removing, Removes, Unanswered
<1>3. StoreInv(c, primary[x])
  BY DEF Stores
<1>4. StoreInv(c, m) /\ \A j, d : Holding(m, j, d) => (j = k /\ d = e) \/ (j # k /\ Holding(primary[x], j, d))
  BY <1>3, StoredFacts
<1> HIDE DEF m
<1>5. Stores(c, primary')
  BY <1>1, <1>4, StoresPut
<1>6. raced' \subseteq c.contexts \X c.keys
  BY <1>1
<1>7. ASSUME NEW y \in c.contexts, NEW j \in c.keys, NEW d \in Tiers(c)!Entry, Holding(primary'[y], j, d), <<y, j>> \notin raced'
      PROVE  \/ y = x /\ j = k /\ d = e /\ secondary[k] = e /\ \A o \in c.operations : ~Removes(op[o], x, k, e)
             \/ (y # x \/ j # k) /\ Holding(primary[y], j, d) /\ <<y, j>> \notin raced
  <2>1. primary'[y] = IF y = x THEN m ELSE primary[y]
    BY <1>1 DEF Stores
  <2>2. CASE y = x /\ j = k
    <3>1. d = e
      BY <1>4, <1>7, <2>1, <2>2
    <3>2. secondary[k] = e /\ ~Tiers(c)!Removing(x, k, e)
      BY <1>1, <1>7, <2>2
    <3> QED
      BY <1>2, <2>2, <3>1, <3>2
  <2>3. CASE y # x \/ j # k
    <3>1. Holding(primary[y], j, d)
      BY <1>4, <1>7, <2>1, <2>3
    <3>2. <<y, j>> # <<x, k>>
      BY <2>3
    <3>3. <<y, j>> \notin raced
      BY <1>1, <1>7, <3>2
    <3> QED
      BY <2>3, <3>1, <3>3
  <2> QED
    BY <2>2, <2>3
<1> QED
  BY <1>5, <1>6, <1>7

(* An operation that has ended. *)
LEMMA DoneIsKnown ==
  ASSUME NEW CONSTANT c
  PROVE  /\ Known(c, [Tiers(c)!NoOperation EXCEPT !.pc = "done"])
         /\ [Tiers(c)!NoOperation EXCEPT !.pc = "done"].pc = "done"
<1> DEFINE p == [Tiers(c)!NoOperation EXCEPT !.pc = "done"]
<1>1. p = [pc |-> "done", kind |-> None, ctx |-> None, key |-> None, entry |-> None]
  BY DEF Tiers!NoOperation
<1> HIDE DEF p
<1>2. p \in TieredCall(c) /\ p.pc = "done"
  BY <1>1 DEF TieredCall, Tiers!PC
<1>3. Known(c, p)
  BY <1>2 DEF Known, Unanswered
<1> QED
  BY <1>2, <1>3 DEF p

(* An operation ends: whoever held what it changed has been told, and the *)
(* writer itself holds the shared entry or none.                          *)
LEMMA SettledSound ==
  ASSUME NEW CONSTANT c, Sound(c), NEW o \in c.operations, op'[o].pc = "done",
         \A y \in c.operations : y # o => op'[y] = op[y], secondary' = secondary, listens' = listens,
         \A y \in c.contexts, j \in c.keys : Told(c, inbox[y], j) => Told(c, inbox'[y], j),
         \A y \in c.contexts, j \in c.keys, e \in Tiers(c)!Entry :
            listens[y] /\ Holding(primary'[y], j, e) /\ <<y, j>> \notin raced' =>
               \/ secondary[j] = e /\ \A z \in c.operations : ~Removes(op[z], y, j, e)
               \/ /\ Holding(primary[y], j, e) /\ <<y, j>> \notin raced
                  /\ Changing(op[o], y, j) => Told(c, inbox'[y], j)
  PROVE  Sound(c)'
<1> SUFFICES ASSUME NEW y \in c.contexts, NEW j \in c.keys, NEW e \in Tiers(c)!Entry, Exposed(y, j, e)'
             PROVE  Fits(c, op', secondary', inbox', y, j, e)
  BY DEF Sound
<1>1. listens[y] /\ Holding(primary'[y], j, e) /\ <<y, j>> \notin raced'
  BY DEF Exposed
<1>2. \A z \in c.operations : Removes(op'[z], y, j, e) => Removes(op[z], y, j, e)
  BY DEF Removes, Unanswered
<1>3. CASE secondary[j] = e /\ \A z \in c.operations : ~Removes(op[z], y, j, e)
  BY <1>2, <1>3 DEF Fits
<1>4. CASE /\ Holding(primary[y], j, e) /\ <<y, j>> \notin raced
           /\ Changing(op[o], y, j) => Told(c, inbox'[y], j)
  <2>1. Exposed(y, j, e)
    BY <1>1, <1>4 DEF Exposed
  <2>2. Fits(c, op, secondary, inbox, y, j, e)
    BY <2>1 DEF Sound
  <2>3. \A z \in c.operations : Changing(op[z], y, j) => z = o \/ Changing(op'[z], y, j)
    OBVIOUS
  <2> QED
    BY <1>2, <1>4, <2>2, <2>3 DEF Fits
<1> QED
  BY <1>1, <1>3, <1>4

(* A get() that found the shared entry keeps it, unless a removal of the key overlapped. *)
LEMMA PromoteKeeps ==
  ASSUME NEW CONSTANT c, Tiers(c)!TieredAssumption, Injective(c), TieredInv(c), NEW x \in c.contexts, NEW o \in c.operations,
         NEW k \in c.keys, op[o].kind = "get", Tiers(c)!Promote(o, x, k)
  PROVE  /\ Stores(c, primary') /\ Tracks(c, tracked') /\ raced' \subseteq c.contexts \X c.keys /\ inbox' = inbox
         /\ \A y \in c.contexts, j \in c.keys, e \in Tiers(c)!Entry :
               Holding(primary'[y], j, e) /\ <<y, j>> \notin raced' =>
                  \/ secondary[j] = e /\ \A z \in c.operations : ~Removes(op[z], y, j, e)
                  \/ Holding(primary[y], j, e) /\ <<y, j>> \notin raced
<1>1. inbox' = inbox
  BY DEF Tiers!Promote
<1>2. Stores(c, primary) /\ Tracks(c, tracked) /\ raced \subseteq c.contexts \X c.keys /\ TrackInv(c, tracked[x])
  BY DEF TieredInv, Tracks
<1>3. \/ UNCHANGED <<primary, tracked, raced>>
      \/ /\ op[o].entry # None
         /\ \/ Tiers(c)!WritePrimary(x, k, op[o].entry)
            \/ UNCHANGED <<primary, raced>>
         /\ tracked' = [tracked EXCEPT ![x] = Tiers(c)!Track(@, k)]
  BY Zenon DEF Tiers!Promote
<1>4. ASSUME tracked' = [tracked EXCEPT ![x] = Tiers(c)!Track(@, k)] PROVE Tracks(c, tracked')
  <2>1. TrackInv(c, Tiers(c)!Track(tracked[x], k))
    BY <1>2, TrackFacts
  <2> QED
    BY <1>2, <1>4, <2>1, TracksPut
<1>5. CASE Tiers(c)!WritePrimary(x, k, op[o].entry) /\ op[o].entry # None
           /\ tracked' = [tracked EXCEPT ![x] = Tiers(c)!Track(@, k)]
  <2>1. op[o].entry \in Tiers(c)!Entry
    <3>1. op[o] \in TieredCall(c)
      BY DEF TieredInv, Asked
    <3> QED
      BY <1>5, <3>1 DEF TieredCall
  <2>2. /\ Stores(c, primary') /\ raced' \subseteq c.contexts \X c.keys
        /\ \A y \in c.contexts, j \in c.keys, d \in Tiers(c)!Entry :
              Holding(primary'[y], j, d) /\ <<y, j>> \notin raced' =>
                 \/ y = x /\ j = k /\ d = op[o].entry /\ secondary[k] = op[o].entry
                    /\ \A z \in c.operations : ~Removes(op[z], x, k, op[o].entry)
                 \/ (y # x \/ j # k) /\ Holding(primary[y], j, d) /\ <<y, j>> \notin raced
    BY <1>2, <1>5, <2>1, WrittenHolds
  <2> QED
    BY <1>1, <1>4, <1>5, <2>2
<1>6. CASE UNCHANGED <<primary, raced>> /\ (tracked' = tracked \/ tracked' = [tracked EXCEPT ![x] = Tiers(c)!Track(@, k)])
  BY <1>1, <1>2, <1>4, <1>6
<1> QED
  BY <1>3, <1>5, <1>6

(* A set() tells the others and keeps what it wrote. *)
LEMMA FinishSetKeeps ==
  ASSUME NEW CONSTANT c, Tiers(c)!TieredAssumption, Injective(c), TieredInv(c), NEW x \in c.contexts, NEW o \in c.operations,
         NEW k \in c.keys, op[o].kind = "set", op[o].ctx = x, op[o].key = k, op[o].entry \in Tiers(c)!Entry,
         Tiers(c)!FinishSet(o, x, k)
  PROVE  /\ Stores(c, primary') /\ Tracks(c, tracked') /\ raced' \subseteq c.contexts \X c.keys
         /\ inbox' \in [c.contexts -> Seq(Message(c))]
         /\ \A y \in c.contexts, j \in c.keys : Told(c, inbox[y], j) => Told(c, inbox'[y], j)
         /\ \A y \in c.contexts, j \in c.keys, e \in Tiers(c)!Entry :
               listens[y] /\ Holding(primary'[y], j, e) /\ <<y, j>> \notin raced' =>
                  \/ secondary[j] = e /\ \A z \in c.operations : ~Removes(op[z], y, j, e)
                  \/ /\ Holding(primary[y], j, e) /\ <<y, j>> \notin raced
                     /\ Changing(op[o], y, j) => Told(c, inbox'[y], j)
<1>1. /\ Stores(c, primary) /\ Tracks(c, tracked) /\ raced \subseteq c.contexts \X c.keys /\ TrackInv(c, tracked[x])
      /\ StoreInv(c, primary[x]) /\ inbox \in [c.contexts -> Seq(Message(c))]
  BY DEF TieredInv, Tracks, Stores
<1>2. \/ op[o].pc = "failed" /\ UNCHANGED <<primary, tracked, inbox, raced>>
      \/ /\ Tiers(c)!WritePrimary(x, k, op[o].entry)
         /\ tracked' = [tracked EXCEPT ![x] = Tiers(c)!Track(@, k)]
         /\ Tiers(c)!Post(x, Tiers(c)!DropKey(k))
      \/ /\ primary' = [primary EXCEPT ![x] = Tiers(c)!Memory!Deleted(@, k)]
         /\ tracked' = [tracked EXCEPT ![x] = Tiers(c)!Untrack(@, k)]
         /\ Tiers(c)!Post(x, Tiers(c)!DropKey(k)) /\ UNCHANGED raced
  BY Zenon DEF Tiers!FinishSet
<1>3. \A y, j : Changing(op[o], y, j) => j = k /\ op[o].pc = "applied"
  BY DEF Changing
<1>4. ASSUME Tiers(c)!Post(x, Tiers(c)!DropKey(k))
      PROVE  /\ inbox' \in [c.contexts -> Seq(Message(c))]
             /\ \A y \in c.contexts, j \in c.keys : Told(c, inbox[y], j) => Told(c, inbox'[y], j)
             /\ \A y \in c.contexts : y # x /\ listens[y] => Told(c, inbox'[y], k)
  <2> DEFINE m == Tiers(c)!DropKey(k)
  <2>1. m \in Message(c) /\ m.print = c.prints[k] /\ Tiers(c)!Post(x, m)
    BY <1>4, Messages
  <2> HIDE DEF m
  <2> QED
    BY <1>1, <2>1, PostFacts
<1>5. CASE op[o].pc = "failed" /\ UNCHANGED <<primary, tracked, inbox, raced>>
  BY <1>1, <1>3, <1>5
<1>6. CASE /\ Tiers(c)!WritePrimary(x, k, op[o].entry)
           /\ tracked' = [tracked EXCEPT ![x] = Tiers(c)!Track(@, k)]
           /\ Tiers(c)!Post(x, Tiers(c)!DropKey(k))
  <2>1. TrackInv(c, Tiers(c)!Track(tracked[x], k))
    BY <1>1, TrackFacts
  <2>2. Tracks(c, tracked')
    BY <1>1, <1>6, <2>1, TracksPut
  <2>3. /\ Stores(c, primary') /\ raced' \subseteq c.contexts \X c.keys
        /\ \A y \in c.contexts, j \in c.keys, d \in Tiers(c)!Entry :
              Holding(primary'[y], j, d) /\ <<y, j>> \notin raced' =>
                 \/ y = x /\ j = k /\ d = op[o].entry /\ secondary[k] = op[o].entry
                    /\ \A z \in c.operations : ~Removes(op[z], x, k, op[o].entry)
                 \/ (y # x \/ j # k) /\ Holding(primary[y], j, d) /\ <<y, j>> \notin raced
    BY <1>1, <1>6, WrittenHolds
  <2>4. ASSUME NEW y \in c.contexts, NEW j \in c.keys, NEW e \in Tiers(c)!Entry,
               listens[y], Holding(primary'[y], j, e), <<y, j>> \notin raced'
        PROVE  \/ secondary[j] = e /\ \A z \in c.operations : ~Removes(op[z], y, j, e)
               \/ /\ Holding(primary[y], j, e) /\ <<y, j>> \notin raced
                  /\ Changing(op[o], y, j) => Told(c, inbox'[y], j)
    <3>1. \/ y = x /\ j = k /\ e = op[o].entry /\ secondary[k] = op[o].entry
             /\ \A z \in c.operations : ~Removes(op[z], x, k, op[o].entry)
          \/ (y # x \/ j # k) /\ Holding(primary[y], j, e) /\ <<y, j>> \notin raced
      BY <2>3, <2>4
    <3>2. CASE (y # x \/ j # k) /\ Holding(primary[y], j, e) /\ <<y, j>> \notin raced
      BY <1>3, <1>4, <1>6, <2>4, <3>2
    <3> QED
      BY <3>1, <3>2
  <2> QED
    BY <1>4, <1>6, <2>2, <2>3, <2>4
<1>7. CASE /\ primary' = [primary EXCEPT ![x] = Tiers(c)!Memory!Deleted(@, k)]
           /\ tracked' = [tracked EXCEPT ![x] = Tiers(c)!Untrack(@, k)]
           /\ Tiers(c)!Post(x, Tiers(c)!DropKey(k)) /\ UNCHANGED raced
  <2> DEFINE m == Tiers(c)!Memory!Deleted(primary[x], k)
  <2>1. m = Tiers(c)!Memory!Without(primary[x], {k}) /\ primary' = [primary EXCEPT ![x] = m]
    BY <1>7 DEF Tiers!Memory!Deleted
  <2> HIDE DEF m
  <2>2. StoreInv(c, m) /\ Fewer(m, primary[x], {k})
    BY <1>1, <2>1, WithoutFacts
  <2>3. Stores(c, primary')
    BY <1>1, <2>1, <2>2, StoresPut
  <2>4. TrackInv(c, Tiers(c)!Untrack(tracked[x], k))
    BY <1>1, UntrackFacts
  <2>5. Tracks(c, tracked')
    BY <1>1, <1>7, <2>4, TracksPut
  <2>6. ASSUME NEW y \in c.contexts, NEW j \in c.keys, NEW e \in Tiers(c)!Entry, listens[y], Holding(primary'[y], j, e)
        PROVE  /\ Holding(primary[y], j, e)
               /\ Changing(op[o], y, j) => Told(c, inbox'[y], j)
    <3>1. primary'[y] = IF y = x THEN m ELSE primary[y]
      BY <1>1, <2>1 DEF Stores
    <3>2. Holding(primary[y], j, e) /\ (y # x \/ j # k)
      BY <2>2, <2>6, <3>1 DEF Fewer
    <3> QED
      BY <1>3, <1>4, <1>7, <2>6, <3>2
  <2> QED
    BY <1>1, <1>4, <1>7, <2>3, <2>5, <2>6
<1> QED
  BY <1>2, <1>5, <1>6, <1>7

(* A removal tells the others. *)
LEMMA FinishRemovalKeeps ==
  ASSUME NEW CONSTANT c, Tiers(c)!TieredAssumption, Injective(c), TieredInv(c), NEW x \in c.contexts, NEW o \in c.operations,
         NEW k \in c.keys, op[o].kind \in {"delete", "tags", "clear"}, op[o].ctx = x, op[o].key = k,
         Tiers(c)!FinishRemoval(o, x, k)
  PROVE  /\ primary' = primary /\ raced' = raced /\ Tracks(c, tracked')
         /\ inbox' \in [c.contexts -> Seq(Message(c))]
         /\ \A y \in c.contexts, j \in c.keys : Told(c, inbox[y], j) => Told(c, inbox'[y], j)
         /\ \A y \in c.contexts, j \in c.keys : listens[y] /\ Changing(op[o], y, j) => Told(c, inbox'[y], j)
<1>1. Tracks(c, tracked) /\ TrackInv(c, tracked[x]) /\ inbox \in [c.contexts -> Seq(Message(c))]
  BY DEF TieredInv, Tracks
<1>2. primary' = primary /\ raced' = raced
  BY DEF Tiers!FinishRemoval
<1>3. \/ /\ op[o].kind = "delete" /\ tracked' = [tracked EXCEPT ![x] = Tiers(c)!Untrack(@, k)]
         /\ Tiers(c)!Post(x, Tiers(c)!DropKey(k))
      \/ /\ op[o].kind # "delete" /\ tracked' = [tracked EXCEPT ![x] = Tiers(c)!NothingTracked]
         /\ Tiers(c)!Post(x, Tiers(c)!DropAll)
  BY Zenon DEF Tiers!FinishRemoval
<1>4. PICK m \in Message(c) : /\ Tiers(c)!Post(x, m)
                              /\ m.action = "clear" \/ (op[o].kind = "delete" /\ m.print = c.prints[k])
  BY <1>3, Messages
<1>5. /\ inbox' \in [c.contexts -> Seq(Message(c))]
      /\ \A y \in c.contexts, j \in c.keys : Told(c, inbox[y], j) => Told(c, inbox'[y], j)
      /\ \A y \in c.contexts, j \in c.keys :
            y # x /\ listens[y] /\ (m.action = "clear" \/ m.print = c.prints[j]) => Told(c, inbox'[y], j)
  BY <1>1, <1>4, PostFacts
<1>6. ASSUME NEW y \in c.contexts, NEW j \in c.keys, listens[y], Changing(op[o], y, j) PROVE Told(c, inbox'[y], j)
  <2>1. y # x /\ (op[o].kind = "delete" => j = k)
    BY <1>6 DEF Changing
  <2> QED
    BY <1>4, <1>5, <1>6, <2>1
<1>7. Tracks(c, tracked')
  <2>1. TrackInv(c, Tiers(c)!Untrack(tracked[x], k)) /\ TrackInv(c, Tiers(c)!NothingTracked)
    BY <1>1, UntrackFacts, NothingFacts
  <2> QED
    BY <1>1, <1>3, <2>1, TracksPut
<1> QED
  BY <1>2, <1>5, <1>6, <1>7

(* A call is settled. *)
LEMMA SettleKeeps ==
  ASSUME NEW CONSTANT c, Tiers(c)!TieredAssumption, Injective(c), TieredInv(c), NEW x \in c.contexts, Tiers(c)!Settle(x)
  PROVE  TieredInv(c)'
<1> DEFINE o == Head(calls[x])
           k == op[o].key
           d == [Tiers(c)!NoOperation EXCEPT !.pc = "done"]
<1>1. /\ calls[x] # <<>> /\ op[o].pc \in {"applied", "failed"}
      /\ op[o].kind = "get" => Tiers(c)!Promote(o, x, k)
      /\ op[o].kind = "set" => Tiers(c)!FinishSet(o, x, k)
      /\ op[o].kind \notin {"get", "set"} => Tiers(c)!FinishRemoval(o, x, k)
      /\ op' = [op EXCEPT ![o] = d] /\ calls' = [calls EXCEPT ![x] = Tail(@)]
      /\ UNCHANGED <<secondary, listens, locks>>
  BY DEF Tiers!Settle
<1>2. Asked(c, op, calls) /\ Sound(c) /\ Stores(c, primary) /\ Tracks(c, tracked) /\ op \in [c.operations -> TieredCall(c)]
  BY DEF TieredInv, Asked
<1>3. Known(c, d) /\ d.pc = "done"
  BY DoneIsKnown
<1> HIDE DEF d
<1>4. Asked(c, op', calls')
  BY <1>1, <1>2, <1>3, AskedShrinks
<1>5. o \in c.operations /\ op[o].ctx = x
  <2>1. calls[x] \in Seq(c.operations) /\ 1 \in 1..Len(calls[x]) /\ o = calls[x][1]
    <3>1. calls[x] \in Seq(c.operations)
      BY <1>2 DEF Asked
    <3> QED
      BY <1>1, <3>1
  <2>2. calls[x][1] \in c.operations
    BY <1>2, <2>1, AskedParts
  <2> QED
    BY <1>2, <2>1, <2>2 DEF Asked, Waits
<1> HIDE DEF o
<1>6. op'[o].pc = "done" /\ \A y \in c.operations : y # o => op'[y] = op[y]
  BY <1>1, <1>2, <1>3, <1>5
<1>7. k \in c.keys /\ op[o].kind \in Asks /\ (op[o].kind = "set" => op[o].entry \in Tiers(c)!Entry)
  BY <1>1, <1>2, <1>5 DEF Asked, Known, Unanswered
<1>8. CASE op[o].kind = "get"
  <2>1. /\ Stores(c, primary') /\ Tracks(c, tracked') /\ raced' \subseteq c.contexts \X c.keys /\ inbox' = inbox
        /\ \A y \in c.contexts, j \in c.keys, e \in Tiers(c)!Entry :
              Holding(primary'[y], j, e) /\ <<y, j>> \notin raced' =>
                 \/ secondary[j] = e /\ \A z \in c.operations : ~Removes(op[z], y, j, e)
                 \/ Holding(primary[y], j, e) /\ <<y, j>> \notin raced
    BY <1>1, <1>5, <1>7, <1>8, PromoteKeeps
  <2>2. \A y, j : ~Changing(op[o], y, j)
    BY <1>8 DEF Changing
  <2>3. Sound(c)'
    BY <1>1, <1>2, <1>5, <1>6, <2>1, <2>2, SettledSound
  <2> QED
    BY <1>1, <1>4, <2>1, <2>3 DEF TieredInv
<1>9. CASE op[o].kind = "set"
  <2>1. /\ Stores(c, primary') /\ Tracks(c, tracked') /\ raced' \subseteq c.contexts \X c.keys
        /\ inbox' \in [c.contexts -> Seq(Message(c))]
        /\ \A y \in c.contexts, j \in c.keys : Told(c, inbox[y], j) => Told(c, inbox'[y], j)
        /\ \A y \in c.contexts, j \in c.keys, e \in Tiers(c)!Entry :
              listens[y] /\ Holding(primary'[y], j, e) /\ <<y, j>> \notin raced' =>
                 \/ secondary[j] = e /\ \A z \in c.operations : ~Removes(op[z], y, j, e)
                 \/ /\ Holding(primary[y], j, e) /\ <<y, j>> \notin raced
                    /\ Changing(op[o], y, j) => Told(c, inbox'[y], j)
    BY <1>1, <1>5, <1>7, <1>9, FinishSetKeeps
  <2>2. Sound(c)'
    BY <1>1, <1>2, <1>5, <1>6, <2>1, SettledSound
  <2> QED
    BY <1>1, <1>4, <2>1, <2>2 DEF TieredInv
<1>10. CASE op[o].kind \notin {"get", "set"}
  <2>1. /\ primary' = primary /\ raced' = raced /\ Tracks(c, tracked')
        /\ inbox' \in [c.contexts -> Seq(Message(c))]
        /\ \A y \in c.contexts, j \in c.keys : Told(c, inbox[y], j) => Told(c, inbox'[y], j)
        /\ \A y \in c.contexts, j \in c.keys : listens[y] /\ Changing(op[o], y, j) => Told(c, inbox'[y], j)
    BY <1>1, <1>5, <1>7, <1>10, FinishRemovalKeeps DEF Asks
  <2>2. Sound(c)'
    BY <1>1, <1>2, <1>5, <1>6, <2>1, SettledSound
  <2> QED
    BY <1>1, <1>2, <1>4, <2>1, <2>2 DEF TieredInv
<1> QED
  BY <1>8, <1>9, <1>10

(* A message drops what it is about, or the whole store when the context has *)
(* lost track of it.                                                         *)
LEMMA ReceiveKeeps ==
  ASSUME NEW CONSTANT c, Tiers(c)!TieredAssumption, Injective(c), TieredInv(c), NEW x \in c.contexts, Tiers(c)!Receive(x)
  PROVE  TieredInv(c)'
<1> DEFINE q == inbox[x]
           m == Head(q)
           keys == Tiers(c)!KeysOf(tracked[x], m.print)
           n == Tiers(c)!AfterMessage(x, m)
           t == IF m.action = "clear" \/ keys = {} THEN Tiers(c)!NothingTracked
                ELSE [order |-> Tiers(c)!Without(tracked[x], m.print),
                      count |-> tracked[x].count - Tiers(c)!Cardinality(keys)]
<1>1. /\ q # <<>>
      /\ primary' = [primary EXCEPT ![x] = n] /\ tracked' = [tracked EXCEPT ![x] = t]
      /\ inbox' = [inbox EXCEPT ![x] = Tail(@)]
      /\ UNCHANGED <<op, secondary, calls, listens, locks, raced>>
  BY DEF Tiers!Receive
<1>2. /\ Asked(c, op, calls) /\ Sound(c) /\ Stores(c, primary) /\ Tracks(c, tracked)
      /\ inbox \in [c.contexts -> Seq(Message(c))] /\ q \in Seq(Message(c))
      /\ StoreInv(c, primary[x]) /\ TrackInv(c, tracked[x]) /\ OrderInv(c, tracked[x].order)
  BY DEF TieredInv, Stores, Tracks, TrackInv
<1>3. n = IF m.action = "clear" \/ ~Tiers(c)!IsTracked(tracked[x], m.print) THEN Tiers(c)!Memory!Empty
          ELSE Tiers(c)!Memory!Without(primary[x], keys)
  BY DEF Tiers!AfterMessage
<1> DEFINE w == Tail(q)
<1>4. m = q[1] /\ w \in Seq(Message(c)) /\ m \in Message(c)
      /\ \A i \in 1..Len(q) : i = 1 \/ (i - 1 \in 1..Len(w) /\ w[i - 1] = q[i])
  <2> HIDE DEF q
  <2>1. m = q[1] /\ w \in Seq(Message(c)) /\ 1 \in 1..Len(q)
    BY <1>1, <1>2
  <2>2. m \in Message(c)
    BY <1>2, <2>1
  <2>3. Len(w) = Len(q) - 1 /\ Len(q) \in Nat /\ \A i \in 1..Len(w) : w[i] = q[i + 1]
    BY <1>1, <1>2
  <2> HIDE DEF w
  <2>4. ASSUME NEW i \in 1..Len(q), i # 1 PROVE i - 1 \in 1..Len(w) /\ w[i - 1] = q[i]
    <3>1. i - 1 \in 1..Len(w) /\ (i - 1) + 1 = i
      BY <2>3, <2>4
    <3> QED
      BY <2>3, <3>1
  <2> QED
    BY <2>1, <2>2, <2>4
<1>5. /\ inbox' \in [c.contexts -> Seq(Message(c))] /\ inbox'[x] = w
      /\ \A y \in c.contexts : y # x => inbox'[y] = inbox[y]
  <2>1. inbox' = [inbox EXCEPT ![x] = w]
    BY <1>1
  <2> HIDE DEF w
  <2> QED
    BY <1>2, <1>4, <2>1
<1> HIDE DEF w, m, q, n, t
<1>6. m.action = "clear" \/ \E j \in c.keys : m.print = c.prints[j]
  BY <1>4 DEF Message
<1>7. ASSUME NEW j \in c.keys, m.print = c.prints[j]
      PROVE  /\ keys = IF Listed(tracked[x].order, c.prints[j]) THEN {j} ELSE {}
             /\ Tiers(c)!IsTracked(tracked[x], m.print) <=> Listed(tracked[x].order, c.prints[j])
  <2>1. /\ Tiers(c)!KeysOf(tracked[x], c.prints[j]) = IF Listed(tracked[x].order, c.prints[j]) THEN {j} ELSE {}
        /\ Tiers(c)!IsTracked(tracked[x], c.prints[j]) <=> Listed(tracked[x].order, c.prints[j])
    BY <1>2, KeysOfFacts
  <2> QED
    BY <1>7, <2>1
<1>8. /\ StoreInv(c, n) /\ Fewer(n, primary[x], {})
      /\ m.action = "clear" => \A k, e : ~Holding(n, k, e)
      /\ \A k \in c.keys : m.print = c.prints[k] => \A e : ~Holding(n, k, e)
  <2>1. CASE n = Tiers(c)!Memory!Empty
    BY <2>1, EmptyFacts DEF Fewer
  <2>2. CASE n # Tiers(c)!Memory!Empty
    <3>1. /\ m.action # "clear" /\ Tiers(c)!IsTracked(tracked[x], m.print)
          /\ n = Tiers(c)!Memory!Without(primary[x], keys)
      BY <1>3, <2>2
    <3>2. PICK j \in c.keys : m.print = c.prints[j] /\ keys = {j}
      BY <1>6, <1>7, <3>1
    <3> HIDE DEF keys
    <3>3. StoreInv(c, n) /\ Fewer(n, primary[x], {j})
      BY <1>2, <3>1, <3>2, WithoutFacts
    <3>4. \A k \in c.keys : m.print = c.prints[k] => k = j
      BY <3>2 DEF Injective
    <3> QED
      BY <3>1, <3>3, <3>4 DEF Fewer
  <2> QED
    BY <2>1, <2>2
<1>9. Stores(c, primary')
  BY <1>1, <1>2, <1>8, StoresPut
<1>10. TrackInv(c, t)
  <2>1. CASE m.action = "clear" \/ keys = {}
    BY <2>1, NothingFacts DEF t
  <2>2. CASE ~(m.action = "clear" \/ keys = {})
    <3>1. PICK j \in c.keys : m.print = c.prints[j] /\ keys = {j} /\ Listed(tracked[x].order, c.prints[j])
      BY <1>6, <1>7, <2>2
    <3>2. t = [order |-> Tiers(c)!Without(tracked[x], m.print), count |-> tracked[x].count - Tiers(c)!Cardinality(keys)]
      BY <2>2 DEF t
    <3> HIDE DEF keys
    <3>3. Tiers(c)!Cardinality(keys) = 1
      <4>1. IsFiniteSet({j}) /\ Cardinality({j}) = 1
        BY FS_Singleton
      <4> QED
        BY <3>1, <4>1, Counts
    <3>4. t = [order |-> Tiers(c)!Without(tracked[x], m.print), count |-> tracked[x].count - 1]
      BY <3>2, <3>3
    <3> QED
      BY <1>2, <3>1, <3>4, DroppedTracked
  <2> QED
    BY <2>1, <2>2
<1>11. Tracks(c, tracked')
  BY <1>1, <1>2, <1>10, TracksPut
<1>12. Sound(c)'
  <2> SUFFICES ASSUME NEW y \in c.contexts, NEW k \in c.keys, NEW e \in Tiers(c)!Entry, Exposed(y, k, e)'
               PROVE  Fits(c, op', secondary', inbox', y, k, e)
    BY DEF Sound
  <2>1. primary'[y] = IF y = x THEN n ELSE primary[y]
    BY <1>1, <1>2 DEF Stores
  <2>2. Holding(primary'[y], k, e)
    BY DEF Exposed
  <2>3. Holding(primary[y], k, e)
    BY <1>8, <2>1, <2>2 DEF Fewer
  <2>4. Exposed(y, k, e)
    BY <1>1, <2>3 DEF Exposed
  <2>5. Fits(c, op, secondary, inbox, y, k, e)
    BY <1>2, <2>4 DEF Sound
  <2>6. Told(c, inbox[y], k) => Told(c, inbox'[y], k)
    <3>1. CASE y # x
      BY <1>5, <3>1
    <3>2. CASE y = x
      <4>1. m.action # "clear" /\ m.print # c.prints[k]
        BY <1>8, <2>1, <2>2, <3>2
      <4>2. SUFFICES ASSUME NEW i \in 1..Len(q), q[i].action = "clear" \/ q[i].print = c.prints[k]
                     PROVE  Told(c, w, k)
        BY <1>5, <3>2 DEF Told, q
      <4>3. i # 1
        BY <1>4, <4>1, <4>2
      <4>4. i - 1 \in 1..Len(w) /\ w[i - 1] = q[i]
        BY <1>4, <4>3
      <4> QED
        BY <4>2, <4>4 DEF Told
    <3> QED
      BY <3>1, <3>2
  <2>7. op' = op /\ secondary' = secondary
    BY <1>1
  <2> QED
    BY <2>5, <2>6, <2>7 DEF Fits
<1> QED
  BY <1>1, <1>2, <1>5, <1>9, <1>11, <1>12 DEF TieredInv

(* dispose(): nothing is received or tracked any more, and leases end. *)
LEMMA DisposeKeeps ==
  ASSUME NEW CONSTANT c, TieredInv(c), NEW x \in c.contexts, Tiers(c)!Dispose(x)
  PROVE  TieredInv(c)'
<1> DEFINE mine == {o \in c.operations : op[o].ctx = x /\ op[o].pc = "holds"}
           ended(o) == IF o \in mine THEN [op[o] EXCEPT !.pc = "done"] ELSE op[o]
<1>1. /\ listens' = [listens EXCEPT ![x] = FALSE] /\ inbox' = [inbox EXCEPT ![x] = <<>>]
      /\ tracked' = [tracked EXCEPT ![x] = Tiers(c)!NothingTracked]
      /\ op' = [o \in c.operations |-> ended(o)]
      /\ UNCHANGED <<secondary, calls, primary, raced>>
  BY DEF Tiers!Dispose
<1>2. /\ Asked(c, op, calls) /\ Sound(c) /\ Stores(c, primary) /\ Tracks(c, tracked)
      /\ inbox \in [c.contexts -> Seq(Message(c))] /\ listens \in [c.contexts -> BOOLEAN]
      /\ op \in [c.operations -> TieredCall(c)] /\ \A o \in c.operations : Known(c, op[o])
  BY DEF TieredInv, Asked
<1>3. ASSUME NEW o \in c.operations
      PROVE  /\ ended(o) \in TieredCall(c) /\ Known(c, ended(o))
             /\ ended(o) = op[o] \/ (ended(o).pc = "done" /\ op[o].pc = "holds")
  <2>1. CASE o \in mine
    <3>1. op[o] \in TieredCall(c) /\ op[o].pc = "holds" /\ ended(o) = [op[o] EXCEPT !.pc = "done"]
      BY <1>2, <2>1
    <3> HIDE DEF ended
    <3>2. ended(o) \in TieredCall(c) /\ ended(o).pc = "done"
      BY <3>1 DEF TieredCall, Tiers!PC
    <3> QED
      BY <3>1, <3>2 DEF Known, Unanswered
  <2>2. CASE o \notin mine
    BY <1>2, <2>2
  <2> QED
    BY <2>1, <2>2
<1> HIDE DEF ended, mine
<1>4. /\ op' \in [c.operations -> TieredCall(c)]
      /\ \A o \in c.operations : Known(c, op'[o])
      /\ \A o \in c.operations : op'[o] = op[o] \/ (op'[o].pc = "done" /\ op[o].pc = "holds")
  BY <1>1, <1>3
<1>5. Asked(c, op', calls')
  <2> DEFINE r == op'
  <2>1. r \in [c.operations -> TieredCall(c)] /\ \A o \in c.operations : Known(c, r[o])
    BY <1>4
  <2>2. \A o \in c.operations : r[o].pc \in Unanswered <=> op[o].pc \in Unanswered
    BY <1>4 DEF Unanswered
  <2>3. \A o \in c.operations : r[o].pc \in Unanswered => r[o].ctx = op[o].ctx
    BY <1>4 DEF Unanswered
  <2>4. Asked(c, op, calls) /\ calls' = calls
    BY <1>1, <1>2
  <2> HIDE DEF r
  <2>5. Asked(c, r, calls)
    BY <2>1, <2>2, <2>3, <2>4, AskedStays
  <2> QED
    BY <2>4, <2>5 DEF r
<1>6. Tracks(c, tracked')
  BY <1>1, <1>2, NothingFacts, TracksPut
<1>7. inbox' \in [c.contexts -> Seq(Message(c))] /\ listens' \in [c.contexts -> BOOLEAN]
  BY <1>1, <1>2
<1>8. Sound(c)'
  <2> SUFFICES ASSUME NEW y \in c.contexts, NEW k \in c.keys, NEW e \in Tiers(c)!Entry, Exposed(y, k, e)'
               PROVE  Fits(c, op', secondary', inbox', y, k, e)
    BY DEF Sound
  <2>1. y # x /\ listens[y] /\ inbox'[y] = inbox[y]
    BY <1>1, <1>2 DEF Exposed
  <2>2. Exposed(y, k, e)
    BY <1>1, <2>1 DEF Exposed
  <2>3. Fits(c, op, secondary, inbox, y, k, e)
    BY <1>2, <2>2 DEF Sound
  <2>4. \A o \in c.operations : Changing(op[o], y, k) => Changing(op'[o], y, k)
    BY <1>4 DEF Changing
  <2>5. \A o \in c.operations : Removes(op'[o], y, k, e) => Removes(op[o], y, k, e)
    BY <1>4 DEF Removes, Unanswered
  <2>6. secondary' = secondary
    BY <1>1
  <2> QED
    BY <2>1, <2>3, <2>4, <2>5, <2>6 DEF Fits
<1> QED
  BY <1>1, <1>2, <1>5, <1>6, <1>7, <1>8 DEF TieredInv

(* A lease is asked for, granted or ended. *)
LEMMA LeaseKeeps ==
  ASSUME NEW CONSTANT c, Tiers(c)!TieredAssumption, TieredInv(c), NEW o \in c.operations, op[o].pc \notin Unanswered,
         NEW p, Known(c, p), p.pc \notin Unanswered, op' = [op EXCEPT ![o] = p],
         UNCHANGED <<secondary, calls, tracked, inbox, listens, raced>>,
         \/ primary' = primary
         \/ \E x \in c.contexts : \E k : primary' = [primary EXCEPT ![x] = Tiers(c)!Memory!Deleted(@, k)]
  PROVE  TieredInv(c)'
<1>1. /\ Asked(c, op', calls') /\ op'[o] = p /\ \A y \in c.operations : y # o => op'[y] = op[y]
  BY DoneStays
<1>2. Stores(c, primary) /\ Sound(c)
  BY DEF TieredInv
<1>3. /\ Stores(c, primary')
      /\ \A y \in c.contexts, j \in c.keys, e \in Tiers(c)!Entry : Holding(primary'[y], j, e) => Holding(primary[y], j, e)
  <2>1. CASE primary' = primary
    BY <1>2, <2>1
  <2>2. ASSUME NEW x \in c.contexts, NEW k, primary' = [primary EXCEPT ![x] = Tiers(c)!Memory!Deleted(@, k)]
        PROVE  /\ Stores(c, primary')
               /\ \A y \in c.contexts, j \in c.keys, e \in Tiers(c)!Entry :
                     Holding(primary'[y], j, e) => Holding(primary[y], j, e)
    <3> DEFINE m == Tiers(c)!Memory!Deleted(primary[x], k)
    <3>1. m = Tiers(c)!Memory!Without(primary[x], {k}) /\ primary' = [primary EXCEPT ![x] = m]
      BY <2>2 DEF Tiers!Memory!Deleted
    <3> HIDE DEF m
    <3>2. StoreInv(c, m) /\ Fewer(m, primary[x], {k})
      BY <1>2, <3>1, WithoutFacts DEF Stores
    <3>3. Stores(c, primary')
      BY <1>2, <3>1, <3>2, StoresPut
    <3>4. \A y \in c.contexts : primary'[y] = IF y = x THEN m ELSE primary[y]
      BY <1>2, <3>1 DEF Stores
    <3> QED
      BY <3>2, <3>3, <3>4 DEF Fewer
  <2> QED
    BY <2>1, <2>2
<1>4. \A y \in c.contexts, j \in c.keys, e \in Tiers(c)!Entry :
         Holding(primary'[y], j, e) => Holding(primary[y], j, e) /\ ~Removes(op'[o], y, j, e)
  BY <1>1, <1>3 DEF Removes
<1>5. op[o].pc # "applied"
  BY DEF Unanswered
<1>6. Sound(c)'
  BY <1>1, <1>2, <1>4, <1>5, SoundShrinks
<1> QED
  BY <1>1, <1>3, <1>6 DEF TieredInv

(* The steps of a refresh lease. *)
LEMMA LeasesKeep ==
  ASSUME NEW CONSTANT c, Tiers(c)!TieredAssumption, TieredInv(c), NEW o \in c.operations,
         \/ \E x \in c.contexts, k \in c.keys : Tiers(c)!AskLease(o, x, k)
         \/ Tiers(c)!QueueLease(o) \/ Tiers(c)!GrantLease(o) \/ Tiers(c)!EndLease(o)
  PROVE  TieredInv(c)'
<1>1. op \in [c.operations -> TieredCall(c)] /\ op[o] \in TieredCall(c) /\ Known(c, op[o])
  BY DEF TieredInv, Asked
<1>2. ASSUME NEW x \in c.contexts, NEW k \in c.keys, Tiers(c)!AskLease(o, x, k) PROVE TieredInv(c)'
  <2>1. PICK pc \in {"holds", "refused"} :
           /\ op[o].pc = "new" /\ "lease" \in c.kinds
           /\ op' = [op EXCEPT ![o] = [[pc |-> "called", kind |-> "lease", ctx |-> x, key |-> k, entry |-> None] EXCEPT !.pc = pc]]
           /\ UNCHANGED <<secondary, calls, primary, tracked, inbox, listens, raced>>
    BY <1>2 DEF Tiers!AskLease, Tiers!Fresh
  <2> DEFINE p == [[pc |-> "called", kind |-> "lease", ctx |-> x, key |-> k, entry |-> None] EXCEPT !.pc = pc]
  <2>2. /\ p \in TieredCall(c) /\ p.pc = pc /\ p.ctx = x /\ p.key = k
    BY <2>1 DEF TieredCall, Tiers!PC
  <2>3. op' = [op EXCEPT ![o] = p]
    BY <2>1
  <2> HIDE DEF p
  <2>4. Known(c, p) /\ p.pc \notin Unanswered /\ op[o].pc \notin Unanswered
    BY <2>1, <2>2 DEF Known, Unanswered
  <2> QED
    BY <2>1, <2>3, <2>4, LeaseKeeps
<1>3. CASE Tiers(c)!QueueLease(o)
  <2> DEFINE p == [op[o] EXCEPT !.pc = "queued"]
  <2>1. /\ op[o].pc = "refused" /\ op' = [op EXCEPT ![o] = p]
        /\ UNCHANGED <<secondary, calls, primary, tracked, inbox, listens, raced>>
    BY <1>3 DEF Tiers!QueueLease
  <2>2. p \in TieredCall(c) /\ p.pc = "queued" /\ p.ctx = op[o].ctx /\ p.key = op[o].key
    BY <1>1 DEF TieredCall, Tiers!PC
  <2> HIDE DEF p
  <2>3. Known(c, p) /\ p.pc \notin Unanswered /\ op[o].pc \notin Unanswered
    BY <1>1, <2>1, <2>2 DEF Known, Unanswered
  <2> QED
    BY <2>1, <2>3, LeaseKeeps
<1>4. CASE Tiers(c)!GrantLease(o)
  <2> DEFINE p == [op[o] EXCEPT !.pc = "holds"]
             x == op[o].ctx
             k == op[o].key
  <2>1. /\ op[o].pc = "queued" /\ op' = [op EXCEPT ![o] = p]
        /\ primary' = [primary EXCEPT ![x] = Tiers(c)!Memory!Deleted(@, k)]
        /\ UNCHANGED <<secondary, calls, tracked, inbox, listens, raced>>
    BY <1>4 DEF Tiers!GrantLease
  <2>2. p \in TieredCall(c) /\ p.pc = "holds" /\ p.ctx = x /\ p.key = k
    BY <1>1 DEF TieredCall, Tiers!PC
  <2> HIDE DEF p, x, k
  <2>3. x \in c.contexts /\ Known(c, p) /\ p.pc \notin Unanswered /\ op[o].pc \notin Unanswered
    BY <1>1, <2>1, <2>2 DEF Known, Unanswered, x, k
  <2> QED
    BY <2>1, <2>3, LeaseKeeps
<1>5. CASE Tiers(c)!EndLease(o)
  <2> DEFINE p == [Tiers(c)!NoOperation EXCEPT !.pc = "done"]
  <2>1. /\ op[o].pc \in {"refused", "queued", "holds"} /\ op' = [op EXCEPT ![o] = p]
        /\ UNCHANGED <<secondary, calls, primary, tracked, inbox, listens, raced>>
    BY <1>5 DEF Tiers!EndLease
  <2>2. Known(c, p) /\ p.pc = "done"
    BY DoneIsKnown
  <2> HIDE DEF p
  <2>3. p.pc \notin Unanswered /\ op[o].pc \notin Unanswered
    BY <2>1, <2>2 DEF Unanswered
  <2> QED
    BY <2>1, <2>2, <2>3, LeaseKeeps
<1> QED
  BY <1>2, <1>3, <1>4, <1>5

(* The invariant holds initially. *)
LEMMA TierInit ==
  ASSUME NEW CONSTANT c, Tiers(c)!TieredAssumption, Tiers(c)!Init
  PROVE  TieredInv(c)
<1> DEFINE p == Tiers(c)!NoOperation
           nothing == <<>>
<1>1. /\ op = [o \in c.operations |-> p] /\ secondary = [k \in c.keys |-> None]
      /\ calls = [x \in c.contexts |-> nothing] /\ inbox = [x \in c.contexts |-> nothing]
      /\ primary = [x \in c.contexts |-> Tiers(c)!Memory!Empty]
      /\ tracked = [x \in c.contexts |-> Tiers(c)!NothingTracked]
      /\ listens = [x \in c.contexts |-> TRUE] /\ raced = {}
  BY DEF Tiers!Init, Tiers!NothingTracked
<1>2. p = [pc |-> "new", kind |-> None, ctx |-> None, key |-> None, entry |-> None]
  BY DEF Tiers!NoOperation
<1> HIDE DEF p
<1>3. p \in TieredCall(c) /\ p.pc = "new"
  BY <1>2 DEF TieredCall, Tiers!PC
<1>4. Known(c, p)
  BY <1>3 DEF Known, Unanswered
<1>5. (\A S : nothing \in Seq(S)) /\ Len(nothing) = 0 /\ 1..Len(nothing) = {}
  OBVIOUS
<1> HIDE DEF nothing
<1>6. /\ op \in [c.operations -> TieredCall(c)] /\ \A o \in c.operations : op[o] = p
      /\ calls \in [c.contexts -> Seq(c.operations)] /\ \A x \in c.contexts : calls[x] = nothing
  BY <1>1, <1>3, <1>5
<1>7. Waits(c, op, calls)
  BY <1>3, <1>5, <1>6 DEF Waits, Unanswered
<1>8. Asked(c, op, calls)
  BY <1>4, <1>6, <1>7 DEF Asked
<1>9. StoreInv(c, Tiers(c)!Memory!Empty) /\ TrackInv(c, Tiers(c)!NothingTracked)
      /\ \A k, e : ~Holding(Tiers(c)!Memory!Empty, k, e)
  BY EmptyFacts, NothingFacts
<1>10. Stores(c, primary) /\ Tracks(c, tracked)
  BY <1>1, <1>9 DEF Stores, Tracks, StoreInv, TrackInv
<1>11. /\ secondary \in [c.keys -> Tiers(c)!Entry \cup {None}] /\ inbox \in [c.contexts -> Seq(Message(c))]
       /\ listens \in [c.contexts -> BOOLEAN] /\ raced \subseteq c.contexts \X c.keys
  BY <1>1, <1>5
<1>12. Sound(c)
  BY <1>1, <1>9 DEF Sound, Exposed
<1> QED
  BY <1>8, <1>10, <1>11, <1>12 DEF TieredInv

(* Every step keeps the invariant. *)
LEMMA TierStep ==
  ASSUME NEW CONSTANT c, Tiers(c)!TieredAssumption, Injective(c), TieredInv(c), [Tiers(c)!Next]_(Tiers(c)!vars)
  PROVE  TieredInv(c)'
<1>1. ASSUME NEW o \in c.operations, Tiers(c)!Call(o) PROVE TieredInv(c)'
  <2>1. op[o].pc = "new"
    BY <1>1 DEF Tiers!Call
  <2>2. PICK x \in c.contexts, k \in c.keys, kind \in c.kinds :
           \/ kind = "get" /\ Tiers(c)!Get(o, x, k)
           \/ kind = "set" /\ Tiers(c)!Set(o, x, k)
           \/ kind \in Tiers(c)!Removal /\ Tiers(c)!Remove(o, kind, x, k)
    BY <1>1 DEF Tiers!Call
  <2>3. CASE kind = "get" /\ Tiers(c)!Get(o, x, k)
    BY <2>1, <2>3, GetKeeps
  <2>4. CASE kind = "set" /\ Tiers(c)!Set(o, x, k)
    BY <2>1, <2>4, SetCallKeeps
  <2>5. CASE kind \in Tiers(c)!Removal /\ Tiers(c)!Remove(o, kind, x, k)
    BY <2>1, <2>5, RemoveKeeps
  <2> QED
    BY <2>2, <2>3, <2>4, <2>5
<1>2. ASSUME NEW x \in c.contexts,
             Tiers(c)!Apply(x) \/ Tiers(c)!Settle(x) \/ Tiers(c)!Receive(x) \/ Tiers(c)!Dispose(x)
      PROVE  TieredInv(c)'
  BY <1>2, ApplyKeeps, SettleKeeps, ReceiveKeeps, DisposeKeeps
<1>3. ASSUME NEW o \in c.operations,
             \/ \E x \in c.contexts, k \in c.keys : Tiers(c)!AskLease(o, x, k)
             \/ Tiers(c)!QueueLease(o) \/ Tiers(c)!GrantLease(o) \/ Tiers(c)!EndLease(o)
      PROVE  TieredInv(c)'
  BY <1>3, LeasesKeep
<1>4. CASE UNCHANGED Tiers(c)!vars
  BY <1>4 DEF Tiers!vars, TieredInv, Sound, Exposed
<1> QED
  BY <1>1, <1>2, <1>3, <1>4 DEF Tiers!Next, Tiers!Finished

(* With every call answered and every message received, what is held is the *)
(* shared entry, whatever the key is found under.                           *)
LEMMA TierAgrees ==
  ASSUME NEW CONSTANT c, Tiers(c)!TieredAssumption, Injective(c), TieredInv(c)
  PROVE  Tiers(c)!PrimaryAgrees /\ Tiers(c)!RecencyIsExact
<1>1. /\ Asked(c, op, calls) /\ Stores(c, primary) /\ Tracks(c, tracked)
      /\ secondary \in [c.keys -> Tiers(c)!Entry \cup {None}]
      /\ listens \in [c.contexts -> BOOLEAN] /\ raced \subseteq c.contexts \X c.keys /\ Sound(c)
      /\ op \in [c.operations -> TieredCall(c)]
  BY DEF TieredInv, Asked
<1>2. Tiers(c)!RecencyIsExact
  <2>1. ASSUME NEW x \in c.contexts
        PROVE  /\ tracked[x].count = Tiers(c)!Cardinality(UNION {Tiers(c)!KeysOf(tracked[x], f) : f \in Tiers(c)!Fingerprints})
               /\ Tiers(c)!Memory!NewestIsLast(primary[x])
    <3>1. StoreInv(c, primary[x]) /\ TrackInv(c, tracked[x])
      BY <1>1 DEF Stores, Tracks
    <3>2. Tiers(c)!Memory!NewestIsLast(primary[x])
      BY <3>1, NewestLast
    <3> QED
      BY <3>1, <3>2, CountIsExact
  <2> QED
    BY <2>1 DEF Tiers!RecencyIsExact
<1>3. Tiers(c)!TypeOK
  <2>1. ASSUME NEW o \in c.operations
        PROVE  /\ op[o].pc \in Tiers(c)!PC /\ op[o].kind \in c.kinds \cup {None}
               /\ op[o].ctx \in c.contexts \cup {None} /\ op[o].key \in c.keys \cup {None}
               /\ op[o].entry \in Tiers(c)!Entry \cup {None}
    <3>1. op[o] \in TieredCall(c)
      BY <1>1
    <3> QED
      BY <3>1 DEF TieredCall
  <2>2. ASSUME NEW x \in c.contexts
        PROVE  /\ Len(primary[x].entries) <= c.entries /\ tracked[x].count \in Nat
               /\ \A o \in c.operations :
                     (\E i \in DOMAIN calls[x] : calls[x][i] = o)
                       <=> op[o].ctx = x /\ op[o].pc \in {"called", "applied", "failed"}
    <3>1. Len(primary[x].entries) <= c.entries
      BY <1>1 DEF Stores, StoreInv
    <3>2. tracked[x].count \in Nat
      BY <1>1 DEF Tracks
    <3>3. DOMAIN calls[x] = 1..Len(calls[x])
      BY <1>1, AskedParts
    <3>4. ASSUME NEW o \in c.operations
          PROVE  (\E i \in 1..Len(calls[x]) : calls[x][i] = o) <=> op[o].ctx = x /\ op[o].pc \in Unanswered
      BY <1>1 DEF Asked, Waits
    <3> QED
      BY <3>1, <3>2, <3>3, <3>4 DEF Unanswered
  <2> QED
    BY <1>1, <2>1, <2>2 DEF Tiers!TypeOK
<1>4. ASSUME NEW x \in c.contexts, NEW k \in c.keys, Tiers(c)!Quiet(x), listens[x], <<x, k>> \notin raced
      PROVE  Tiers(c)!InPrimary(x, k) \in {None, secondary[k]}
  <2> DEFINE e == Tiers(c)!InPrimary(x, k)
  <2>1. e = Tiers(c)!Memory!Found(primary[x], k)
    BY DEF Tiers!InPrimary
  <2>2. primary[x] \in Store(c)
    BY <1>1 DEF Stores
  <2> HIDE DEF e
  <2>3. CASE e # None
    <3>1. Holding(primary[x], k, e)
      BY <2>1, <2>2, <2>3, FoundFacts
    <3>2. e \in Tiers(c)!Entry
      BY <2>2, <3>1, StoreParts DEF Holding
    <3>3. Fits(c, op, secondary, inbox, x, k, e)
      BY <1>1, <1>4, <3>1, <3>2 DEF Sound, Exposed
    <3>4. inbox[x] = <<>> /\ \A y \in c.contexts : calls[y] = <<>>
      BY <1>4 DEF Tiers!Quiet
    <3>5. ~Told(c, inbox[x], k)
      <4>1. Len(inbox[x]) = 0
        BY <3>4
      <4> QED
        BY <4>1 DEF Told
    <3>6. ASSUME NEW o \in c.operations PROVE op[o].pc # "applied"
      <4>1. SUFFICES ASSUME op[o].pc = "applied" PROVE FALSE
        OBVIOUS
      <4>2. op[o].ctx \in c.contexts
        BY <1>1, <4>1 DEF Asked, Known
      <4>3. PICK i \in 1..Len(calls[op[o].ctx]) : calls[op[o].ctx][i] = o
        <5>1. Waits(c, op, calls) /\ op[o].pc \in Unanswered
          BY <1>1, <4>1 DEF Asked, Unanswered
        <5> QED
          BY <4>2, <5>1 DEF Waits
      <4>4. Len(calls[op[o].ctx]) = 0
        BY <3>4, <4>2
      <4> QED
        BY <4>3, <4>4
    <3> QED
      BY <3>3, <3>5, <3>6 DEF Fits, Changing, e
  <2> QED
    BY <2>3 DEF e
<1> QED
  BY <1>2, <1>3, <1>4 DEF Tiers!PrimaryAgrees

(* For every set of contexts, keys and operations, every bound and whatever *)
(* calls fail, as long as no two keys share a fingerprint.                  *)
THEOREM PrimaryStoresAgree ==
  ASSUME NEW CONSTANT c, Tiers(c)!TieredAssumption, Injective(c)
  PROVE  Tiers(c)!Spec => [](Tiers(c)!PrimaryAgrees /\ Tiers(c)!RecencyIsExact)
<1>1. Tiers(c)!Init => TieredInv(c)
  BY TierInit
<1>2. TieredInv(c) /\ [Tiers(c)!Next]_(Tiers(c)!vars) => TieredInv(c)'
  BY TierStep
<1>3. TieredInv(c) => Tiers(c)!PrimaryAgrees /\ Tiers(c)!RecencyIsExact
  BY TierAgrees
<1> QED
  BY <1>1, <1>2, <1>3, PTL DEF Tiers!Spec

(* The parts of the passing run have keys of different fingerprints. *)
LEMMA PrintsAreInjective == \A c \in {Failing, Untracked, Leased} : Injective(c)
<1>1. Injective(Failing)
  BY DEF Injective, Failing
<1>2. Injective(Untracked)
  BY DEF Injective, Untracked
<1>3. Injective(Leased)
  BY DEF Injective, Leased
<1> QED
  BY <1>1, <1>2, <1>3

(* The same of the composition that the run checks, without the part whose  *)
(* keys share a fingerprint: there the count of tracked keys is wrong. *)
THEOREM PrimaryAgreesHolds == ASSUME "colliding" \notin Parts PROVE MCSpec => []PrimaryAgrees
<1> DEFINE Inv == /\ part \in Parts
                  /\ part = "failing" => TieredInv(Failing)
                  /\ part = "untracked" => TieredInv(Untracked)
                  /\ part = "leased" => TieredInv(Leased)
<1>1. MCInit => Inv
  <2> SUFFICES ASSUME MCInit PROVE Inv
    OBVIOUS
  <2>1. part \in Parts /\ (part \in TieredPart => InTiered(Tiers(Failing)!Init, Tiers(Untracked)!Init,
           Tiers(Leased)!Init, Tiers(Colliding)!Init))
    BY DEF MCInit, TieredPart, IndexedPart
  <2>2. /\ part = "failing" => Tiers(Failing)!Init
        /\ part = "untracked" => Tiers(Untracked)!Init
        /\ part = "leased" => Tiers(Leased)!Init
    BY <2>1 DEF InTiered, TieredPart
  <2> QED
    BY <2>1, <2>2, TierInit, StoresAssumption
<1>2. Inv /\ [MCNext]_mcvars => Inv'
  <2> SUFFICES ASSUME Inv, [MCNext]_mcvars PROVE Inv'
    OBVIOUS
  <2>1. part' = part
    BY DEF MCNext, mcvars
  <2>2. /\ part = "failing" => [Tiers(Failing)!Next]_(Tiers(Failing)!vars)
        /\ part = "untracked" => [Tiers(Untracked)!Next]_(Tiers(Untracked)!vars)
        /\ part = "leased" => [Tiers(Leased)!Next]_(Tiers(Leased)!vars)
    BY DEF MCNext, mcvars, tiered, Tiers!vars
  <2> QED
    BY <2>1, <2>2, TierStep, PrintsAreInjective, StoresAssumption
<1>3. Inv => PrimaryAgrees
  <2> SUFFICES ASSUME Inv PROVE PrimaryAgrees
    OBVIOUS
  <2>1. /\ part = "failing" => Tiers(Failing)!PrimaryAgrees /\ Tiers(Failing)!RecencyIsExact
        /\ part = "untracked" => Tiers(Untracked)!PrimaryAgrees /\ Tiers(Untracked)!RecencyIsExact
        /\ part = "leased" => Tiers(Leased)!PrimaryAgrees /\ Tiers(Leased)!RecencyIsExact
        /\ part # "colliding"
    BY TierAgrees, PrintsAreInjective, StoresAssumption
  <2> QED
    BY <2>1 DEF PrimaryAgrees, RecencyIsExact, InTiered, TieredPart
<1> QED
  BY <1>1, <1>2, <1>3, PTL DEF MCSpec

----------------------------------------------------------------------------
\* IndexedDB: what a write leaves

(* What is in no more than what fits, fits. *)
LEMMA FitsSubset ==
  ASSUME NEW CONSTANT c, NEW d, NEW S, IsFiniteSet(S), \A s \in S : d[s].size \in Nat, c.entries \in Nat, c.bytes \in Nat,
         NEW T \in SUBSET S, Databases(c)!Fits(d, S)
  PROVE  Databases(c)!Fits(d, T)
<1> DEFINE own(s) == {s} \X (1..d[s].size)
           U == {own(s) : s \in S}
           W == {own(s) : s \in T}
<1>1. ASSUME NEW s \in S PROVE IsFiniteSet(own(s))
  <2> DEFINE I == 1..d[s].size
  <2>1. IsFiniteSet({s}) /\ IsFiniteSet(I)
    <3>1. d[s].size \in Nat
      OBVIOUS
    <3>2. IsFiniteSet(I)
      BY <3>1, CountTo
    <3> QED
      BY <3>2, FS_Singleton
  <2>2. own(s) = {s} \X I
    OBVIOUS
  <2> HIDE DEF own, I
  <2> QED
    BY <2>1, <2>2, FS_Product
<1>2. /\ Databases(c)!Bytes(d, S) = UNION U /\ Databases(c)!Bytes(d, T) = UNION W
  BY DEF Databases!Bytes
<1>3. /\ Cardinality(S) <= c.entries /\ Cardinality(UNION U) <= c.bytes
  BY <1>2, Counted DEF Databases!Fits
<1> HIDE DEF own
<1>4. IsFiniteSet(U) /\ \A u \in U : IsFiniteSet(u)
  <2> DEFINE f == [s \in S |-> own(s)]
  <2>1. f \in Surjection(S, U)
    BY DEF Surjection
  <2> HIDE DEF f, U
  <2>2. IsFiniteSet(U)
    BY <2>1, FS_Surjection
  <2> QED
    BY <1>1, <2>2 DEF U
<1>5. UNION W \in SUBSET UNION U
  BY DEF U, W
<1> HIDE DEF U, W
<1>6. IsFiniteSet(UNION U)
  BY <1>4, FS_UNION
<1>7. /\ Cardinality(T) <= Cardinality(S) /\ Cardinality(UNION W) <= Cardinality(UNION U)
      /\ IsFiniteSet(T) /\ IsFiniteSet(UNION W)
  BY <1>5, <1>6, FS_Subset
<1>8. /\ Cardinality(T) \in Nat /\ Cardinality(S) \in Nat
      /\ Cardinality(UNION W) \in Nat /\ Cardinality(UNION U) \in Nat
  BY <1>6, <1>7, FS_CardinalityType
<1>9. Cardinality(T) <= c.entries /\ Cardinality(UNION W) <= c.bytes
  BY <1>3, <1>7, <1>8
<1> QED
  BY <1>2, <1>9, Counted DEF Databases!Fits

(* Only the sizes of the records in S matter. *)
LEMMA FitsSame ==
  ASSUME NEW CONSTANT c, NEW d, NEW e, NEW S, \A s \in S : d[s] = e[s], Databases(c)!Fits(d, S)
  PROVE  Databases(c)!Fits(e, S)
<1>1. {{s} \X (1..d[s].size) : s \in S} = {{s} \X (1..e[s].size) : s \in S}
  OBVIOUS
<1>2. Databases(c)!Bytes(d, S) = Databases(c)!Bytes(e, S)
  BY <1>1 DEF Databases!Bytes
<1> QED
  BY <1>2 DEF Databases!Fits

(* A record within the limit fits by itself. *)
LEMMA OneFits ==
  ASSUME NEW CONSTANT c, NEW d, NEW s, d[s].size \in Nat, d[s].size <= c.bytes, c.bytes \in Nat, c.entries \in Nat \ {0}
  PROVE  Databases(c)!Fits(d, {s})
<1> DEFINE n == d[s].size
           B == {s} \X (1..n)
<1>1. Databases(c)!Bytes(d, {s}) = B
  BY DEF Databases!Bytes
<1>2. IsFiniteSet({s}) /\ Cardinality({s}) = 1
  BY FS_Singleton
<1> HIDE DEF n
<1>3. n \in Nat
  BY DEF n
<1>4. IsFiniteSet(1..n) /\ Cardinality(1..n) = n
  BY <1>3, CountTo
<1>5. Cardinality(B) = 1 * n
  <2>1. Cardinality(B) = Cardinality({s}) * Cardinality(1..n)
    BY <1>2, <1>4, FS_Product
  <2> QED
    BY <1>2, <1>4, <2>1
<1>6. Cardinality(B) = n
  BY <1>3, <1>5
<1> HIDE DEF B
<1> QED
  BY <1>1, <1>2, <1>6, Counted DEF Databases!Fits, n

(* The current records of a version: finitely many, in whatever slots.      *)
LEMMA CurrentFacts ==
  ASSUME NEW CONSTANT c, Databases(c)!IndexedDBAssumption, NEW d \in Table(c), NEW v \in Nat
  PROVE  LET S == Databases(c)!Current(v, d)
         IN  /\ IsFiniteSet(S) /\ S \subseteq Databases(c)!Slot
             /\ \A s \in S : /\ s = <<s[1], s[2]>> /\ s[1] \in Nat /\ s[2] \in Nat
                             /\ d[s] # None /\ d[s].at \in Nat /\ d[s].size \in Nat
<1> DEFINE S == Databases(c)!Current(v, d)
           V == {c.versions[x] : x \in c.stores}
<1>1. ASSUME NEW s \in S
      PROVE  /\ s \in Databases(c)!Slot /\ s = <<s[1], s[2]>> /\ s[1] \in Nat /\ s[2] \in Nat
             /\ d[s] # None /\ d[s].at \in Nat /\ d[s].size \in Nat
  <2>1. s \in Databases(c)!Slot /\ d[s] # None
    BY DEF Databases!Current, Databases!Stored
  <2>2. s = <<s[1], s[2]>> /\ s[1] \in Nat /\ s[2] \in Nat
    BY <2>1 DEF Databases!Slot, Databases!Version, Databases!IndexedDBAssumption
  <2>3. d[s] \in Databases(c)!Record
    BY <2>1 DEF Table
  <2>4. d[s].at \in Nat /\ d[s].size \in Nat
    BY <2>3 DEF Databases!Record, Databases!IndexedDBAssumption
  <2> QED
    BY <2>1, <2>2, <2>4
<1>2. S \in SUBSET Databases(c)!Slot
  BY DEF Databases!Current, Databases!Stored
<1>3. IsFiniteSet(V)
  <2> DEFINE f == [x \in c.stores |-> c.versions[x]]
  <2>1. f \in Surjection(c.stores, V) /\ IsFiniteSet(c.stores)
    BY Counted DEF Surjection, Databases!IndexedDBAssumption
  <2> HIDE DEF f, V
  <2> QED
    BY <2>1, FS_Surjection
<1>4. Databases(c)!Slot = V \X c.keys /\ IsFiniteSet(c.keys)
  BY Counted DEF Databases!Slot, Databases!Version, Databases!IndexedDBAssumption
<1> HIDE DEF S, V
<1>5. IsFiniteSet(S)
  <2>1. IsFiniteSet(V \X c.keys)
    BY <1>3, <1>4, FS_Product
  <2> QED
    BY <1>2, <1>4, <2>1, FS_Subset
<1> QED
  BY <1>1, <1>2, <1>5 DEF S

(* Of two records of a version, one was used earlier; ties go by the slots. *)
LEMMA OlderFacts ==
  ASSUME NEW CONSTANT c, Databases(c)!IndexedDBAssumption, NEW d \in Table(c), NEW v \in Nat,
         NEW s \in Databases(c)!Current(v, d), NEW t \in Databases(c)!Current(v, d)
  PROVE  /\ s # t => Databases(c)!Older(d, s, t) \/ Databases(c)!Older(d, t, s)
         /\ \A u \in Databases(c)!Current(v, d) :
               Databases(c)!Older(d, s, t) /\ Databases(c)!Older(d, t, u) => Databases(c)!Older(d, s, u)
<1>1. \A u \in Databases(c)!Current(v, d) : u = <<u[1], u[2]>> /\ u[1] \in Nat /\ u[2] \in Nat /\ d[u].at \in Nat
  BY CurrentFacts
<1>2. s # t => s[1] # t[1] \/ s[2] # t[2]
  BY <1>1
<1>3. s # t => Databases(c)!Older(d, s, t) \/ Databases(c)!Older(d, t, s)
  BY <1>1, <1>2 DEF Databases!Older
<1>4. ASSUME NEW u \in Databases(c)!Current(v, d), Databases(c)!Older(d, s, t), Databases(c)!Older(d, t, u)
      PROVE  Databases(c)!Older(d, s, u)
  BY <1>1, <1>4 DEF Databases!Older
<1> QED
  BY <1>3, <1>4

(* Of some of them, one was used first. *)
LEMMA Oldest ==
  ASSUME NEW CONSTANT c, Databases(c)!IndexedDBAssumption, NEW d \in Table(c), NEW v \in Nat,
         NEW A \in SUBSET Databases(c)!Current(v, d), A # {}
  PROVE  \E m \in A : \A u \in A : u = m \/ Databases(c)!Older(d, m, u)
<1>1. \A u \in A : u = <<u[1], u[2]>> /\ u[1] \in Nat /\ u[2] \in Nat /\ d[u].at \in Nat
  BY CurrentFacts
<1> DEFINE times == {d[u].at : u \in A}
<1>2. PICK n \in times : \A p \in times : n <= p
  <2>1. times \in SUBSET Nat /\ times # {}
    BY <1>1
  <2> HIDE DEF times
  <2> QED
    BY <2>1, Least
<1> DEFINE names == {u[2] : u \in {x \in A : d[x].at = n}}
<1>3. PICK k \in names : \A p \in names : k <= p
  <2>1. names \in SUBSET Nat /\ names # {}
    BY <1>1, <1>2
  <2> HIDE DEF names
  <2> QED
    BY <2>1, Least
<1> DEFINE levels == {u[1] : u \in {x \in A : d[x].at = n /\ x[2] = k}}
<1>4. PICK l \in levels : \A p \in levels : l <= p
  <2>1. levels \in SUBSET Nat /\ levels # {}
    BY <1>1, <1>3
  <2> HIDE DEF levels
  <2> QED
    BY <2>1, Least
<1>5. PICK m \in A : d[m].at = n /\ m[2] = k /\ m[1] = l
  BY <1>4
<1>6. ASSUME NEW u \in A, u # m PROVE Databases(c)!Older(d, m, u)
  <2>1. n <= d[u].at /\ d[u].at \in Nat /\ n \in Nat
    BY <1>1, <1>2, <1>5
  <2>2. CASE d[u].at = n /\ u[2] = k
    <3>1. l <= u[1] /\ m[1] # u[1] /\ u[1] \in Nat /\ m[1] \in Nat
      BY <1>1, <1>4, <1>5, <1>6, <2>2
    <3> QED
      BY <1>5, <2>2, <3>1 DEF Databases!Older
  <2>3. CASE d[u].at = n /\ u[2] # k
    <3>1. k <= u[2] /\ u[2] \in Nat /\ m[2] \in Nat
      BY <1>1, <1>3, <1>5, <2>3
    <3> QED
      BY <1>5, <2>3, <3>1 DEF Databases!Older
  <2> QED
    BY <1>5, <2>1, <2>2, <2>3 DEF Databases!Older
<1> QED
  BY <1>5, <1>6

(* What the evictions of a write leave fits, and what they take is older.   *)
LEMMA EvictionFits ==
  ASSUME NEW CONSTANT c, Databases(c)!IndexedDBAssumption, NEW d \in Table(c), NEW v \in Nat,
         NEW s \in Databases(c)!Current(v, d), d[s].size <= c.bytes, c.entries # 0
  PROVE  LET S == Databases(c)!Current(v, d)
             E == Databases(c)!Evicted(d, S, s)
         IN  /\ E \subseteq S \ {s}
             /\ Databases(c)!Fits(d, S \ E)
             /\ \A x \in E, t \in S \ (E \cup {s}) : Databases(c)!Older(d, x, t)
<1> DEFINE S == Databases(c)!Current(v, d)
           E == Databases(c)!Evicted(d, S, s)
           from(t) == {t, s} \cup {u \in S : Databases(c)!Older(d, t, u)}
<1>1. \A t \in S \ {s} : t \in E <=> ~Databases(c)!Fits(d, from(t))
  BY DEF Databases!Evicted
<1>2. E \subseteq S \ {s}
  BY DEF Databases!Evicted
<1>3. IsFiniteSet(S) /\ \A u \in S : d[u].size \in Nat
  BY CurrentFacts
<1>4. c.entries \in Nat \ {0} /\ c.bytes \in Nat
  BY DEF Databases!IndexedDBAssumption
<1>5. s \in S
  OBVIOUS
<1>6. /\ \A x, y \in S : x # y => Databases(c)!Older(d, x, y) \/ Databases(c)!Older(d, y, x)
      /\ \A x, y, z \in S : Databases(c)!Older(d, x, y) /\ Databases(c)!Older(d, y, z) => Databases(c)!Older(d, x, z)
  BY OlderFacts
<1>7. \A t \in S : from(t) \in SUBSET S
  BY <1>5
<1> HIDE DEF from, E
<1>8. \A t \in S : \A T \in SUBSET from(t) : Databases(c)!Fits(d, from(t)) => Databases(c)!Fits(d, T)
  <2> SUFFICES ASSUME NEW t \in S, NEW T \in SUBSET from(t), Databases(c)!Fits(d, from(t))
               PROVE  Databases(c)!Fits(d, T)
    OBVIOUS
  <2> DEFINE R == from(t)
  <2>1. R \in SUBSET S /\ T \in SUBSET R
    BY <1>7
  <2> HIDE DEF S, R
  <2>2. IsFiniteSet(R) /\ \A u \in R : d[u].size \in Nat
    BY <1>3, <2>1, FS_Subset
  <2>3. Databases(c)!Fits(d, R)
    BY DEF R
  <2> QED
    BY <1>4, <2>1, <2>2, <2>3, FitsSubset
<1>9. Databases(c)!Fits(d, S \ E)
  <2> DEFINE A == S \ (E \cup {s})
  <2>1. CASE A = {}
    <3>1. S \ E = {s}
      BY <1>2, <1>5, <2>1
    <3>2. Databases(c)!Fits(d, {s})
      BY <1>3, <1>4, <1>5, OneFits
    <3> QED
      BY <3>1, <3>2
  <2>2. CASE A # {}
    <3>1. A \in SUBSET S
      OBVIOUS
    <3>2. PICK m \in A : \A u \in A : u = m \/ Databases(c)!Older(d, m, u)
      <4> HIDE DEF A
      <4> QED
        BY <2>2, <3>1, Oldest
    <3>3. m \in S \ {s} /\ m \notin E
      OBVIOUS
    <3>4. Databases(c)!Fits(d, from(m))
      BY <1>1, <3>3
    <3>5. S \ E \in SUBSET from(m)
      <4>1. \A u \in S \ E : u = m \/ u = s \/ Databases(c)!Older(d, m, u)
        BY <3>2
      <4> QED
        BY <4>1 DEF from
    <3> HIDE DEF S, A
    <3> QED
      BY <1>8, <3>3, <3>4, <3>5
  <2> QED
    BY <2>1, <2>2
<1>10. ASSUME NEW x \in E, NEW t \in S \ (E \cup {s}) PROVE Databases(c)!Older(d, x, t)
  <2> HIDE DEF S
  <2>1. x \in S \ {s} /\ t \in S \ {s} /\ t \notin E /\ x # t
    BY <1>2, <1>10
  <2>2. ~Databases(c)!Fits(d, from(x)) /\ Databases(c)!Fits(d, from(t))
    BY <1>1, <1>10, <2>1
  <2>3. CASE Databases(c)!Older(d, t, x)
    <3>1. \A u \in S : Databases(c)!Older(d, x, u) => Databases(c)!Older(d, t, u)
      BY <1>6, <2>1, <2>3
    <3>2. from(x) \in SUBSET from(t)
      BY <2>1, <2>3, <3>1 DEF from
    <3> QED
      BY <1>8, <2>1, <2>2, <3>2
  <2> QED
    BY <1>6, <2>1, <2>3
<1> QED
  BY <1>2, <1>9, <1>10 DEF E

(* What a successful write leaves, whatever was there. *)
LEMMA WrittenFits ==
  ASSUME NEW CONSTANT c, Databases(c)!IndexedDBAssumption, NEW x \in c.stores, NEW d \in Table(c),
         NEW s \in OwnSlots(c, x), NEW r \in Databases(c)!Record, r.version = s[1], r.valid, r.size <= c.bytes, c.entries # 0,
         s \notin Databases(c)!Future(c.versions[x], d)
  PROVE  LET v == c.versions[x]
             e == Databases(c)!Written(v, d, s, r)
             K == Databases(c)!Current(v, e)
         IN  /\ e[s] = r /\ Databases(c)!Fits(e, K)
             /\ \A p \in Databases(c)!Current(v, d) \ (K \cup {s}), t \in K \ {s} : Databases(c)!Older(d, p, t)
<1> DEFINE v == c.versions[x]
           put == [d EXCEPT ![s] = r]
           gone == Databases(c)!Outdated(v, put)
           kept == Databases(c)!Minus(put, gone)
           S == Databases(c)!Current(v, kept)
           E == Databases(c)!Evicted(kept, S, s)
           e == Databases(c)!Minus(kept, E)
           K == Databases(c)!Current(v, e)
<1>1. Databases(c)!Written(v, d, s, r) = e
  BY DEF Databases!Written
<1>2. s \in Databases(c)!Slot /\ s[1] = v /\ v \in Nat /\ v # None /\ r # None
  <2>1. r # None
    BY DEF Databases!IndexedDBAssumption
  <2> QED
    BY <2>1 DEF OwnSlots, Databases!IndexedDBAssumption
<1>3. put \in Table(c) /\ put[s] = r /\ \A t \in Databases(c)!Slot : t # s => put[t] = d[t]
  BY <1>2 DEF Table
<1> HIDE DEF put, v
<1>4. Databases(c)!Disposition(v, put, s) = "current"
  BY <1>2, <1>3 DEF Databases!Disposition
<1>5. s \notin gone /\ \A t \in gone : t \notin Databases(c)!Current(v, put)
  BY <1>4 DEF Databases!Outdated, Databases!Current
<1> HIDE DEF gone
<1>6. kept \in Table(c) /\ \A t \in Databases(c)!Slot : kept[t] = IF t \in gone THEN None ELSE put[t]
  BY <1>3 DEF Databases!Minus, Table
<1> HIDE DEF kept
<1>7. \A t \in Databases(c)!Slot : t \in S <=> t \in Databases(c)!Current(v, put)
  <2> SUFFICES ASSUME NEW t \in Databases(c)!Slot PROVE t \in S <=> t \in Databases(c)!Current(v, put)
    OBVIOUS
  <2>1. CASE t \in gone
    <3>1. kept[t] = None
      BY <1>6, <2>1
    <3> QED
      BY <1>5, <2>1, <3>1 DEF Databases!Current, Databases!Stored
  <2>2. CASE t \notin gone
    <3>1. kept[t] = put[t]
      BY <1>6, <2>2
    <3> QED
      BY <3>1 DEF Databases!Current, Databases!Stored, Databases!Disposition
  <2> QED
    BY <2>1, <2>2
<1>8. s \in S /\ kept[s] = r
  <2>1. s \in Databases(c)!Current(v, put)
    BY <1>2, <1>3, <1>4 DEF Databases!Current, Databases!Stored
  <2> QED
    BY <1>2, <1>3, <1>5, <1>6, <1>7, <2>1
<1>9. \A t \in Databases(c)!Slot \ {s} : t \in Databases(c)!Current(v, d) => t \in S /\ kept[t] = d[t]
  <2> SUFFICES ASSUME NEW t \in Databases(c)!Slot \ {s}, t \in Databases(c)!Current(v, d) PROVE t \in S /\ kept[t] = d[t]
    OBVIOUS
  <2>1. put[t] = d[t]
    BY <1>3
  <2>2. t \in Databases(c)!Current(v, put)
    BY <2>1 DEF Databases!Current, Databases!Stored, Databases!Disposition
  <2> QED
    BY <1>5, <1>6, <1>7, <2>1, <2>2
<1>10. /\ E \subseteq S \ {s} /\ Databases(c)!Fits(kept, S \ E)
       /\ \A p \in E, t \in S \ (E \cup {s}) : Databases(c)!Older(kept, p, t)
  <2>1. s \in Databases(c)!Current(v, kept) /\ kept[s].size <= c.bytes
    BY <1>8
  <2> QED
    BY <1>2, <1>6, <2>1, EvictionFits
<1>11. S \subseteq Databases(c)!Slot
  BY DEF Databases!Current, Databases!Stored
<1> HIDE DEF S, E
<1>12. \A t \in Databases(c)!Slot : e[t] = IF t \in E THEN None ELSE kept[t]
  BY DEF Databases!Minus
<1> HIDE DEF e
<1>13. K = S \ E
  <2>1. ASSUME NEW t \in Databases(c)!Slot PROVE t \in K <=> t \in S \ E
    <3>1. CASE t \in E
      BY <1>12, <2>1, <3>1 DEF Databases!Current, Databases!Stored
    <3>2. CASE t \notin E
      <4>1. e[t] = kept[t]
        BY <1>12, <2>1, <3>2
      <4> QED
        BY <2>1, <3>2, <4>1 DEF S, Databases!Current, Databases!Stored, Databases!Disposition
    <3> QED
      BY <3>1, <3>2
  <2>2. K \subseteq Databases(c)!Slot
    BY DEF Databases!Current, Databases!Stored
  <2> HIDE DEF K
  <2> QED
    BY <1>11, <2>1, <2>2
<1> HIDE DEF K
<1>14. \A t \in K : e[t] = kept[t]
  BY <1>11, <1>12, <1>13
<1>15. Databases(c)!Fits(e, K)
  <2>1. Databases(c)!Fits(kept, K) /\ \A t \in K : kept[t] = e[t]
    BY <1>10, <1>13, <1>14
  <2> QED
    BY <2>1, FitsSame
<1>16. e[s] = r
  BY <1>2, <1>8, <1>10, <1>12
<1>17. ASSUME NEW p \in Databases(c)!Current(v, d) \ (K \cup {s}), NEW t \in K \ {s} PROVE Databases(c)!Older(d, p, t)
  <2>1. p \in Databases(c)!Slot \ {s} /\ t \in Databases(c)!Slot \ {s}
    BY <1>11, <1>13, <1>17 DEF Databases!Current, Databases!Stored
  <2>2. p \in E /\ kept[p] = d[p]
    BY <1>9, <1>13, <1>17, <2>1
  <2>3. t \in S \ (E \cup {s})
    BY <1>13, <1>17
  <2>4. kept[t] = d[t]
    <3>1. kept[t] = put[t]
      <4>1. t \notin gone
        BY <1>5, <1>7, <2>1, <2>3
      <4> QED
        BY <1>6, <2>1, <4>1
    <3> QED
      BY <1>3, <2>1, <3>1
  <2>5. Databases(c)!Older(kept, p, t)
    BY <1>10, <2>2, <2>3
  <2> QED
    BY <2>2, <2>4, <2>5 DEF Databases!Older
<1> QED
  BY <1>1, <1>15, <1>16, <1>17 DEF v, K

\* What is to be written is a valid record, and one that fits by itself once
\* the call has gone on.
Ready(c, p) ==
    p.pc \in Live /\ p.kind = "set" =>
       c.entries # 0 /\ p.record.valid /\ (p.pc # "waits" => p.record.size <= c.bytes)

WritesReady(c) == \A o \in c.operations : Ready(c, op[o])

Fitting(c) == WritesReady(c)' /\ Databases(c)!FittingWrites

(* A step in which no call goes on writes nothing. *)
LEMMA IdleFits ==
  ASSUME NEW CONSTANT c, WritesReady(c), op' = op
  PROVE  Fitting(c)
<1>1. WritesReady(c)'
  BY DEF WritesReady, Ready
<1>2. \A o \in c.operations : ~Databases(c)!Wrote(o)
  BY DEF Databases!Wrote
<1> QED
  BY <1>1, <1>2 DEF Fitting, Databases!FittingWrites

(* Nor does one that ends no write. *)
LEMMA MovedFits ==
  ASSUME NEW CONSTANT c, DbInv(c), WritesReady(c), NEW o \in c.operations, NEW p \in Call(c),
         op' = [op EXCEPT ![o] = p], Ready(c, p), p.pc # "done" \/ p.kind # "set"
  PROVE  Fitting(c)
<1>1. op \in [c.operations -> Call(c)]
  BY DEF DbInv, DbTyped
<1>2. op'[o] = p /\ \A x \in c.operations : x # o => op'[x] = op[x]
  BY <1>1
<1>3. \A x \in c.operations : Ready(c, op'[x])
  BY <1>2 DEF WritesReady
<1>4. WritesReady(c)'
  BY <1>3 DEF WritesReady, Ready
<1>5. \A x \in c.operations : ~Databases(c)!Wrote(x)
  BY <1>2 DEF Databases!Wrote
<1> QED
  BY <1>4, <1>5 DEF Fitting, Databases!FittingWrites

(* What a call becomes that ends. *)
LEMMA EndsMoved ==
  ASSUME NEW CONSTANT c, DbInv(c), NEW o \in c.operations, NEW pc \in {"done", "failed"}, Databases(c)!Ends(o, pc)
  PROVE  \E p \in Call(c) : op' = [op EXCEPT ![o] = p] /\ Ready(c, p) /\ p.pc = pc /\ p.kind = op[o].kind
<1> DEFINE p == [op[o] EXCEPT !.pc = pc, !.record = None]
<1>1. op[o] \in Call(c)
  BY DEF DbInv, DbTyped
<1>2. p \in Call(c) /\ p.pc = pc /\ p.kind = op[o].kind
  BY <1>1 DEF Call, Databases!PC
<1>3. op' = [op EXCEPT ![o] = p]
  BY Zenon DEF Databases!Ends
<1> HIDE DEF p
<1>4. Ready(c, p)
  BY <1>2 DEF Ready, Live
<1> QED
  BY <1>2, <1>3, <1>4

LEMMA EndsFits ==
  ASSUME NEW CONSTANT c, DbInv(c), WritesReady(c), NEW o \in c.operations,
         Databases(c)!Ends(o, "failed") \/ (Databases(c)!Ends(o, "done") /\ op[o].kind # "set")
  PROVE  Fitting(c)
<1>1. PICK p \in Call(c) : op' = [op EXCEPT ![o] = p] /\ Ready(c, p) /\ (p.pc # "done" \/ p.kind # "set")
  BY EndsMoved
<1> QED
  BY <1>1, MovedFits

LEMMA TransactionFits ==
  ASSUME NEW CONSTANT c, DbInv(c), WritesReady(c), NEW o \in c.operations, op[o].kind # "set",
         NEW d, Databases(c)!Transaction(o, d)
  PROVE  Fitting(c)
<1>1. Databases(c)!Ends(o, "failed") \/ Databases(c)!Ends(o, "done")
  BY Zenon DEF Databases!Transaction, Databases!Fails
<1> QED
  BY <1>1, EndsFits

(* A call that waits has a record that is ready, if it is to write. *)
LEMMA AwaitFits ==
  ASSUME NEW CONSTANT c, DbInv(c), WritesReady(c), NEW o \in c.operations, NEW r \in Call(c), r.store \in c.stores,
         r.kind = "set" => c.entries # 0 /\ r.record.valid,
         NEW q, Databases(c)!Await(o, r, q)
  PROVE  Fitting(c)
<1>1. memo \in [c.stores -> c.connections \cup {None}]
  BY DEF DbInv, DbTyped
<1>2. PICK x \in c.connections :
         /\ op' = [op EXCEPT ![o] = [r EXCEPT !.pc = "waits", !.conn = x]]
         /\ Joined(q, conn', x, r.store, o) /\ memo' \in [c.stores -> c.connections \cup {None}]
  BY <1>1, AwaitFacts
<1> DEFINE p == [r EXCEPT !.pc = "waits", !.conn = x]
<1>3. p \in Call(c) /\ p.pc = "waits" /\ p.kind = r.kind /\ p.record = r.record
  BY DEF Call, Databases!PC
<1>4. op' = [op EXCEPT ![o] = p]
  BY <1>2
<1> HIDE DEF p
<1>5. Ready(c, p)
  BY <1>3 DEF Ready
<1> QED
  BY <1>3, <1>4, <1>5, MovedFits

(* A write that ends leaves what fits; one that does not may be tried again.*)
LEMMA WriteFits ==
  ASSUME NEW CONSTANT c, Databases(c)!IndexedDBAssumption, DbInv(c), WritesReady(c), NEW o \in c.operations,
         op[o].kind = "set", op[o].store \in c.stores, op[o].slot \in OwnSlots(c, op[o].store),
         NEW r \in Call(c), r.kind = "set", r.slot = op[o].slot, r.record \in Databases(c)!Record, r.record.by = o,
         c.entries # 0, r.record.version = r.slot[1], r.record.valid, r.record.size <= c.bytes, Databases(c)!Write(o, r)
  PROVE  Fitting(c)
<1>1. CASE db' = Databases(c)!Written(Databases(c)!V(o), db, r.slot, r.record) /\ Databases(c)!Ends(o, "done")
  <2> DEFINE v == c.versions[op[o].store]
             s == op[o].slot
             w == r.record
             e == Databases(c)!Written(v, db, s, w)
  <2>1. PICK p \in Call(c) : op' = [op EXCEPT ![o] = p] /\ Ready(c, p)
    BY <1>1, EndsMoved
  <2>2. op \in [c.operations -> Call(c)] /\ db \in Table(c)
    BY DEF DbInv, DbTyped
  <2>3. op'[o] = p /\ \A x \in c.operations : x # o => op'[x] = op[x]
    BY <2>1, <2>2
  <2>4. WritesReady(c)'
    <3>1. \A x \in c.operations : Ready(c, op'[x])
      BY <2>1, <2>3 DEF WritesReady
    <3> QED
      BY <3>1 DEF WritesReady, Ready
  <2>5. db' = e /\ Databases(c)!V(o) = v
    BY <1>1 DEF Databases!V
  <2>6. s \notin Databases(c)!Future(v, db) =>
          LET K == Databases(c)!Current(v, e)
          IN  /\ e[s] = w /\ Databases(c)!Fits(e, K)
              /\ \A y \in Databases(c)!Current(v, db) \ (K \cup {s}), t \in K \ {s} : Databases(c)!Older(db, y, t)
    <3> DEFINE x == op[o].store
    <3>1. x \in c.stores /\ s \in OwnSlots(c, x) /\ w \in Databases(c)!Record /\ w.version = s[1] /\ w.valid /\ w.size <= c.bytes
      OBVIOUS
    <3>2. v = c.versions[x]
      OBVIOUS
    <3> HIDE DEF v, s, w, x
    <3> QED
      BY <2>2, <3>1, <3>2, WrittenFits
  <2>7. w # None /\ w.by = o /\ (s \in Databases(c)!Future(v, db) => e = db)
    BY DEF Databases!IndexedDBAssumption, Databases!Written
  <2> HIDE DEF v, s, w, e
  <2>8. LET kept == Databases(c)!Current(Databases(c)!V(o), db')
            others == kept \ {s}
        IN  \/ s \in Databases(c)!Future(Databases(c)!V(o), db) /\ db' = db
            \/ /\ db'[s] # None /\ db'[s].by = o
               /\ Databases(c)!Fits(db', kept)
               /\ \A y \in Databases(c)!Current(Databases(c)!V(o), db) \ (kept \cup {s}), t \in others :
                     Databases(c)!Older(db, y, t)
    BY <2>5, <2>6, <2>7
  <2>9. \A x \in c.operations : Databases(c)!Wrote(x) => x = o
    BY <2>3 DEF Databases!Wrote
  <2>10. Databases(c)!FittingWrites
    BY <2>8, <2>9, Zenon DEF Databases!FittingWrites, s
  <2> QED
    BY <2>4, <2>10 DEF Fitting
<1>2. CASE Databases(c)!Ends(o, "failed")
  BY <1>2, EndsFits
<1>3. CASE op' = [op EXCEPT ![o] = [r EXCEPT !.pc = "recovers"]]
  <2> DEFINE p == [r EXCEPT !.pc = "recovers"]
  <2>1. p \in Call(c) /\ p.pc = "recovers" /\ p.record = r.record
    BY DEF Call, Databases!PC
  <2>2. op' = [op EXCEPT ![o] = p]
    BY <1>3
  <2> HIDE DEF p
  <2>3. Ready(c, p)
    BY <2>1 DEF Ready
  <2> QED
    BY <2>1, <2>2, <2>3, MovedFits
<1> QED
  BY <1>1, <1>2, <1>3, Zenon DEF Databases!Write, Databases!Fails

----------------------------------------------------------------------------
\* IndexedDB: the steps of a write

LEMMA CallFits ==
  ASSUME NEW CONSTANT c, Databases(c)!IndexedDBAssumption, DbInv(c), WritesReady(c), NEW o \in c.operations,
         NEW kind \in c.kinds, NEW s \in c.stores, NEW k \in c.keys, Databases(c)!Call(o, kind, s, k)
  PROVE  Fitting(c)
<1> DEFINE r == Databases(c)!Asks(kind, s, k)
<1>1. kind # "set" /\ Databases(c)!Await(o, r, conn)
  BY DEF Databases!Call
<1>2. Asking(c, kind, s, r)
  BY AsksFacts
<1> HIDE DEF r
<1>3. r \in Call(c) /\ r.store \in c.stores /\ r.kind # "set"
  BY <1>1, <1>2 DEF Asking
<1> QED
  BY <1>1, <1>3, AwaitFits

LEMMA SetFits ==
  ASSUME NEW CONSTANT c, Databases(c)!IndexedDBAssumption, DbInv(c), WritesReady(c), NEW o \in c.operations,
         NEW s \in c.stores, NEW k \in c.keys, Databases(c)!Set(o, s, k)
  PROVE  Fitting(c)
<1> DEFINE a == Databases(c)!Asks("set", s, k)
           left == Databases(c)!Left(c.versions[s])
<1>1. PICK size \in c.sizes, sort \in {"plain", "tagged", "expired"} :
         Databases(c)!Await(o, [a EXCEPT !.record = [left EXCEPT !.by = o, !.size = size, !.sort = sort]], conn)
  BY Zenon DEF Databases!Set
<1> DEFINE written == [left EXCEPT !.by = o, !.size = size, !.sort = sort]
           r == [a EXCEPT !.record = written]
<1>2. written \in Databases(c)!Record /\ written.valid
  <2>1. left \in Databases(c)!Record /\ left.valid
    BY DEF Databases!Left, Databases!Record, Databases!Version, Databases!IndexedDBAssumption
  <2> HIDE DEF left
  <2> QED
    BY <2>1 DEF Databases!Record
<1> HIDE DEF written
<1>3. Asking(c, "set", s, a)
  <2>1. "set" \in c.kinds \cup {"set"}
    OBVIOUS
  <2> QED
    BY <2>1, AsksFacts
<1>4. a.kind = "set" => c.entries # 0
  <2> DEFINE what == IF 0 \in {c.entries, c.bytes} THEN "delete" ELSE "set"
             m == Databases(c)!Cardinality(Databases(c)!Asked)
             none == Databases(c)!NoOperation
  <2>1. none = [pc |-> "new", kind |-> None, store |-> None, slot |-> None, record |-> None, conn |-> None, no |-> 0]
    BY DEF Databases!NoOperation
  <2>2. a = [none EXCEPT !.store = s, !.slot = <<c.versions[s], k>>, !.no = m + 1,
                         !.kind = IF "set" \in {"get", "set"} /\ 0 \in {c.entries, c.bytes} THEN "delete" ELSE "set"]
    BY Zenon DEF Databases!Asks
  <2>3. (IF "set" \in {"get", "set"} /\ 0 \in {c.entries, c.bytes} THEN "delete" ELSE "set") = what
    OBVIOUS
  <2>4. a = [none EXCEPT !.store = s, !.slot = <<c.versions[s], k>>, !.no = m + 1, !.kind = what]
    BY <2>2, <2>3
  <2> HIDE DEF a, m, none, what
  <2>5. a.kind = what
    BY <2>1, <2>4
  <2> QED
    BY <2>5 DEF what
<1> HIDE DEF a
<1>5. a \in Call(c) /\ a.store = s
  BY <1>3 DEF Asking
<1>6. r \in Call(c) /\ r.store = s /\ r.kind = a.kind /\ r.record = written
  BY <1>2, <1>5 DEF Call
<1>7. Databases(c)!Await(o, r, conn)
  BY <1>1 DEF written
<1> HIDE DEF r
<1> QED
  BY <1>2, <1>4, <1>6, <1>7, AwaitFits

LEMMA CloseFits ==
  ASSUME NEW CONSTANT c, DbInv(c), WritesReady(c), NEW o \in c.operations, NEW s \in c.stores, Databases(c)!Close(o, s)
  PROVE  Fitting(c)
<1> DEFINE p == [Databases(c)!NoOperation EXCEPT !.pc = "waits", !.kind = "close", !.conn = memo[s]]
<1>1. memo[s] \in c.connections
  BY DEF DbInv, DbTyped, Databases!Close
<1>2. op' = [op EXCEPT ![o] = p]
  BY Zenon DEF Databases!Close
<1>3. p \in Call(c) /\ p.kind = "close"
  BY <1>1 DEF Call, Databases!NoOperation, Databases!PC
<1> HIDE DEF p
<1>4. Ready(c, p)
  BY <1>3 DEF Ready
<1> QED
  BY <1>2, <1>3, <1>4, MovedFits

(* What is known of a write that goes on. *)
LEMMA LiveWrite ==
  ASSUME NEW CONSTANT c, DbInv(c), WritesReady(c), NEW o \in c.operations, op[o].pc \in Live, op[o].kind = "set"
  PROVE  /\ op[o] \in Call(c) /\ op[o].store \in c.stores /\ op[o].slot \in OwnSlots(c, op[o].store)
         /\ op[o].record \in Databases(c)!Record /\ op[o].record.by = o /\ op[o].record.size \in c.sizes
         /\ op[o].record.version = op[o].slot[1] /\ op[o].record.valid /\ c.entries # 0
         /\ op[o].pc # "waits" => op[o].record.size <= c.bytes
<1>1. Ready(c, op[o])
  BY DEF WritesReady
<1> QED
  BY <1>1 DEF DbInv, DbTyped, Called, Live, Ready

LEMMA ProceedFits ==
  ASSUME NEW CONSTANT c, Databases(c)!IndexedDBAssumption, DbInv(c), WritesReady(c), NEW x \in c.connections,
         Databases(c)!Proceed(x)
  PROVE  Fitting(c)
<1> DEFINE o == Head(conn[x].queue)
           q == [conn EXCEPT ![x].queue = Tail(@)]
           dated == IF op[o].record = None THEN None ELSE [op[o].record EXCEPT !.at = now]
           r == [op[o] EXCEPT !.record = dated]
<1>1. conn[x].queue # <<>>
  BY DEF Databases!Proceed
<1>2. o \in c.operations /\ op[o].pc = "waits"
  <2>1. Popped(conn, q, x) /\ o = Head(conn[x].queue)
    BY DEF Popped
  <2> HIDE DEF q, o
  <2> QED
    BY <1>1, <2>1, HeadIsOut
<1>3. now \in 0..c.time
  BY DEF DbInv, DbTyped
<1>4. CASE op[o].kind = "close"
  <2>1. Databases(c)!Ends(o, "done")
    BY <1>4 DEF Databases!Proceed
  <2> HIDE DEF o
  <2> QED
    BY <1>2, <1>4, <2>1, EndsFits
<1>5. CASE op[o].kind # "close" /\ conn[x].state = "failed"
  <2>1. Databases(c)!Fails(o)
    BY <1>5 DEF Databases!Proceed
  <2> HIDE DEF o
  <2>2. Databases(c)!Ends(o, "failed")
    BY <2>1 DEF Databases!Fails
  <2> QED
    BY <1>2, <2>2, EndsFits
<1>6. CASE op[o].kind = "set" /\ conn[x].state # "failed"
  <2>1. IF r.record.size > c.bytes THEN Databases(c)!Await(o, Databases(c)!Rejected(r), q) /\ db' = db
        ELSE Databases(c)!Admission(o, r) /\ conn' = q /\ memo' = memo
    BY <1>6 DEF Databases!Proceed
  <2> HIDE DEF q, o, dated
  <2>2. /\ op[o] \in Call(c) /\ op[o].store \in c.stores /\ op[o].slot \in OwnSlots(c, op[o].store)
        /\ op[o].record \in Databases(c)!Record /\ op[o].record.by = o /\ op[o].record.size \in c.sizes
        /\ op[o].record.version = op[o].slot[1] /\ op[o].record.valid /\ c.entries # 0
    BY <1>2, <1>6, LiveWrite DEF Live
  <2>3. op[o].record # None
    BY <2>2 DEF Databases!IndexedDBAssumption
  <2>4. /\ dated \in Databases(c)!Record /\ dated.by = o /\ dated.size \in c.sizes
        /\ dated.version = op[o].slot[1] /\ dated.valid
    <3>1. dated = [op[o].record EXCEPT !.at = now]
      BY <2>3 DEF dated
    <3> QED
      BY <1>3, <2>2, <3>1 DEF Databases!Record
  <2>5. r \in Call(c) /\ r.kind = "set" /\ r.store = op[o].store /\ r.slot = op[o].slot /\ r.record = dated
    BY <1>6, <2>2, <2>4 DEF Call
  <2> HIDE DEF r
  <2>6. CASE r.record.size > c.bytes
    <3> DEFINE t == Databases(c)!Rejected(r)
    <3>1. t \in Call(c) /\ t.kind = "delete" /\ t.store \in c.stores
      BY <2>2, <2>5 DEF Databases!Rejected, Call
    <3>2. Databases(c)!Await(o, t, q)
      BY <2>1, <2>6
    <3> HIDE DEF t
    <3> QED
      BY <1>2, <3>1, <3>2, AwaitFits
  <2>7. CASE ~(r.record.size > c.bytes)
    <3>1. r.record.size <= c.bytes
      <4>1. r.record.size \in Nat /\ c.bytes \in Nat
        BY <2>4, <2>5 DEF Databases!IndexedDBAssumption
      <4> QED
        BY <2>7, <4>1
    <3>2. Databases(c)!Admission(o, r)
      BY <2>1, <2>7
    <3>3. CASE c.policy
      <4> DEFINE p == [r EXCEPT !.pc = "admits"]
      <4>1. op' = [op EXCEPT ![o] = p]
        BY <3>2, <3>3 DEF Databases!Admission
      <4>2. p \in Call(c) /\ p.pc = "admits" /\ p.record = dated
        BY <2>5 DEF Call, Databases!PC
      <4> HIDE DEF p
      <4>3. Ready(c, p)
        BY <2>2, <2>4, <2>5, <3>1, <4>2 DEF Ready
      <4> QED
        BY <1>2, <4>1, <4>2, <4>3, MovedFits
    <3>4. CASE ~c.policy
      <4>1. Databases(c)!Write(o, r)
        BY <3>2, <3>4 DEF Databases!Admission
      <4>2. /\ r.record \in Databases(c)!Record /\ r.record.by = o /\ r.record.version = r.slot[1] /\ r.record.valid
            /\ r.slot = op[o].slot
        BY <2>4, <2>5
      <4> QED
        BY <1>2, <1>6, <2>2, <2>5, <3>1, <4>1, <4>2, WriteFits
    <3> QED
      BY <3>3, <3>4
  <2> QED
    BY <2>6, <2>7
<1>7. CASE op[o].kind \notin {"close", "set"} /\ conn[x].state # "failed"
  <2>1. \/ Databases(c)!Transaction(o, Databases(c)!Touched(o))
        \/ Databases(c)!Transaction(o, Databases(c)!Deleted(o))
        \/ Databases(c)!Transaction(o, Databases(c)!Visited(o))
        \/ Databases(c)!Compact(o)
    BY <1>7 DEF Databases!Proceed
  <2> HIDE DEF o
  <2>2. op[o].kind # "set"
    BY <1>7
  <2>3. CASE Databases(c)!Compact(o)
    <3>1. PICK gone : Databases(c)!Transaction(o, Databases(c)!Minus(db, gone))
      BY <2>3, Zenon DEF Databases!Compact
    <3> QED
      BY <1>2, <2>2, <3>1, TransactionFits
  <2> QED
    BY <1>2, <2>1, <2>2, <2>3, TransactionFits
<1> QED
  BY <1>4, <1>5, <1>6, <1>7

(* shouldPersist answers, quota is recovered, the write is tried once more. *)
LEMMA HeldFits ==
  ASSUME NEW CONSTANT c, Databases(c)!IndexedDBAssumption, DbInv(c), WritesReady(c), NEW o \in c.operations,
         Databases(c)!Admit(o) \/ Databases(c)!Recover(o) \/ Databases(c)!Rewrite(o)
  PROVE  Fitting(c)
<1>1. op[o].pc \in {"admits", "recovers", "rewrites"}
  BY DEF Databases!Admit, Databases!Recover, Databases!Rewrite
<1>2. op[o].kind = "set" /\ op[o].pc \in Live /\ op[o].pc # "waits"
  BY <1>1, HeldIsOut DEF Live
<1>3. /\ op[o] \in Call(c) /\ op[o].store \in c.stores /\ op[o].slot \in OwnSlots(c, op[o].store)
      /\ op[o].record \in Databases(c)!Record /\ op[o].record.by = o
      /\ op[o].record.version = op[o].slot[1] /\ op[o].record.valid /\ c.entries # 0 /\ op[o].record.size <= c.bytes
  BY <1>2, LiveWrite
<1>4. CASE Databases(c)!Write(o, op[o])
  BY <1>2, <1>3, <1>4, WriteFits
<1>5. CASE Databases(c)!Await(o, Databases(c)!Rejected(op[o]), conn)
  <2> DEFINE t == Databases(c)!Rejected(op[o])
  <2>1. t \in Call(c) /\ t.kind = "delete" /\ t.store \in c.stores
    BY <1>3 DEF Databases!Rejected, Call
  <2>2. Databases(c)!Await(o, t, conn)
    BY <1>5
  <2> HIDE DEF t
  <2> QED
    BY <2>1, <2>2, AwaitFits
<1>6. CASE Databases(c)!Ends(o, "failed")
  BY <1>6, EndsFits
<1>7. CASE op' = [op EXCEPT ![o].pc = "rewrites"]
  <2> DEFINE p == [op[o] EXCEPT !.pc = "rewrites"]
  <2>1. p \in Call(c) /\ p.pc = "rewrites" /\ p.record = op[o].record
    BY <1>3 DEF Call, Databases!PC
  <2>2. op' = [op EXCEPT ![o] = p]
    BY <1>7
  <2> HIDE DEF p
  <2>3. Ready(c, p)
    BY <1>3, <2>1 DEF Ready
  <2> QED
    BY <2>1, <2>2, <2>3, MovedFits
<1> QED
  BY <1>4, <1>5, <1>6, <1>7, Zenon DEF Databases!Admit, Databases!Recover, Databases!Rewrite, Databases!Fails

LEMMA DbStepFits ==
  ASSUME NEW CONSTANT c, Databases(c)!IndexedDBAssumption, DbInv(c), WritesReady(c),
         [Databases(c)!Next]_(Databases(c)!vars)
  PROVE  Fitting(c)
<1>1. ASSUME NEW o \in c.operations, NEW s \in c.stores, NEW k \in c.keys,
             (\E kind \in c.kinds : Databases(c)!Call(o, kind, s, k)) \/ Databases(c)!Set(o, s, k)
      PROVE  Fitting(c)
  BY <1>1, CallFits, SetFits
<1>2. ASSUME NEW o \in c.operations, NEW s \in c.stores, Databases(c)!Close(o, s) PROVE Fitting(c)
  BY <1>2, CloseFits
<1>3. ASSUME NEW x \in c.connections,
             Databases(c)!Open(x) \/ Databases(c)!VersionChange(x) \/ Databases(c)!Proceed(x)
      PROVE  Fitting(c)
  <2>1. CASE Databases(c)!Open(x) \/ Databases(c)!VersionChange(x)
    BY <2>1, IdleFits DEF Databases!Open, Databases!VersionChange
  <2> QED
    BY <1>3, <2>1, ProceedFits
<1>4. ASSUME NEW o \in c.operations,
             Databases(c)!Admit(o) \/ Databases(c)!Recover(o) \/ Databases(c)!Rewrite(o)
      PROVE  Fitting(c)
  BY <1>4, HeldFits
<1>5. CASE Databases(c)!Tick \/ UNCHANGED Databases(c)!vars
  BY <1>5, IdleFits DEF Databases!Tick, Databases!vars
<1> QED
  BY <1>1, <1>2, <1>3, <1>4, <1>5 DEF Databases!Next, Databases!Finished

LEMMA InitReady ==
  ASSUME NEW CONSTANT c, Databases(c)!Init
  PROVE  WritesReady(c)
<1> DEFINE none == Databases(c)!NoOperation
<1>1. op = [o \in c.operations |-> none]
  BY DEF Databases!Init
<1>2. none.pc = "new"
  BY DEF Databases!NoOperation
<1> HIDE DEF none
<1> QED
  BY <1>1, <1>2 DEF WritesReady, Ready, Live

(* IndexedDBCacheStore, for any stores, versions, keys, limits, sizes and   *)
(* calls, whatever fails: a write that succeeds leaves its own record, the  *)
(* records of its version within both limits, and drops for that none that  *)
(* was used later than one it keeps; and no step of a store touches a       *)
(* readable record of a newer schema version.                               *)
THEOREM WritesFit ==
  ASSUME NEW CONSTANT c, Databases(c)!IndexedDBAssumption
  PROVE  Databases(c)!Spec => [][Databases(c)!PruningStep]_(Databases(c)!vars)
<1>1. Databases(c)!Init => DbInv(c) /\ WritesReady(c)
  BY DbInit, InitReady
<1>2. DbInv(c) /\ WritesReady(c) /\ [Databases(c)!Next]_(Databases(c)!vars) => DbInv(c)' /\ WritesReady(c)'
  BY DbStep, DbStepFits DEF Fitting
<1>3. DbInv(c) /\ WritesReady(c) /\ [Databases(c)!Next]_(Databases(c)!vars)
         => [Databases(c)!PruningStep]_(Databases(c)!vars)
  BY DbStepFits, DbStepSpares DEF Fitting, Databases!PruningStep
<1> QED
  BY <1>1, <1>2, <1>3, PTL DEF Databases!Spec

(* The same of the composition that the run checks, in every part.          *)
THEOREM PruningExactHolds == MCSpec => PruningExact
<1> DEFINE DbReady(c) == DbInv(c) /\ WritesReady(c)
           Inv == /\ part \in Parts
                  /\ part = "versions" => DbReady(Versions)
                  /\ part = "limits" => DbReady(Limits)
                  /\ part = "faults" => DbReady(Faults)
                  /\ part = "policy" => DbReady(Policy)
                  /\ part = "admission" => DbReady(Admission)
           Step == part \in IndexedPart =>
                      InIndexed(Databases(Versions)!PruningStep, Databases(Limits)!PruningStep,
                                Databases(Faults)!PruningStep, Databases(Policy)!PruningStep,
                                Databases(Admission)!PruningStep)
<1>1. MCInit => Inv
  <2> SUFFICES ASSUME MCInit PROVE Inv
    OBVIOUS
  <2>1. part \in Parts /\ (part \in IndexedPart => InIndexed(Databases(Versions)!Init, Databases(Limits)!Init,
           Databases(Faults)!Init, Databases(Policy)!Init, Databases(Admission)!Init))
    BY DEF MCInit, TieredPart, IndexedPart
  <2> QED
    BY <2>1, DbInit, InitReady, StoresAssumption DEF InIndexed, IndexedPart
<1>2. ASSUME Inv, [MCNext]_mcvars
      PROVE  /\ part' = part
             /\ part = "versions" => [Databases(Versions)!Next]_(Databases(Versions)!vars)
             /\ part = "limits" => [Databases(Limits)!Next]_(Databases(Limits)!vars)
             /\ part = "faults" => [Databases(Faults)!Next]_(Databases(Faults)!vars)
             /\ part = "policy" => [Databases(Policy)!Next]_(Databases(Policy)!vars)
             /\ part = "admission" => [Databases(Admission)!Next]_(Databases(Admission)!vars)
  BY <1>2 DEF MCNext, mcvars, indexed, Databases!vars
<1>3. ASSUME NEW CONSTANT c, Databases(c)!IndexedDBAssumption, DbReady(c), [Databases(c)!Next]_(Databases(c)!vars)
      PROVE  DbInv(c)' /\ WritesReady(c)' /\ Databases(c)!PruningStep
  BY <1>3, DbStep, DbStepFits, DbStepSpares DEF Fitting, Databases!PruningStep
<1>4. Inv /\ [MCNext]_mcvars => Inv'
  <2> SUFFICES ASSUME Inv, [MCNext]_mcvars PROVE Inv'
    OBVIOUS
  <2> QED
    BY <1>2, <1>3, StoresAssumption
<1>5. Inv /\ [MCNext]_mcvars => Step
  <2> SUFFICES ASSUME Inv, [MCNext]_mcvars PROVE Step
    OBVIOUS
  <2> QED
    BY <1>2, <1>3, StoresAssumption DEF InIndexed, IndexedPart
<1>6. Inv /\ [MCNext]_mcvars => [Step]_mcvars
  BY <1>5
<1> HIDE DEF Inv, Step
<1>7. MCSpec => [][Step]_mcvars
  BY <1>1, <1>4, <1>6, PTL DEF MCSpec
<1> QED
  BY <1>7 DEF PruningExact, Step
=============================================================================

-------------------------- MODULE MCMediaApp_proofs --------------------------
(***************************************************************************)
(* Theorems about the web runtime's history store and its hand-off, for    *)
(* any items, requests, sources and bounds.                                *)
(***************************************************************************)
EXTENDS MCMediaApp, TLAPS

-----------------------------------------------------------------------------
(* The history store. *)

Contents == [Items -> 0..MaxWrites]
Signs == 0..(MaxWrites + 1)

StoreTyped ==
  /\ hfile \in [sign: 1..(MaxWrites + 1), items: Contents]
  /\ cache \in [sign: Signs, items: Contents]
  /\ hlock \in {NoHolder} \cup Requests
  /\ hpc \in [Writers -> {"rest", "sign", "get", "load", "check", "bind", "have", "wrote"}]
  /\ hwork \in [Writers -> {"read", "put", "drop"}]
  /\ hsign \in [Writers -> Signs]
  /\ hcopy \in [Writers -> Contents]
  /\ hseen \in [Requests -> SUBSET Contents]
  /\ hput \subseteq 0..MaxWrites

\* A content that the cache binds to a signature, or that a thread is about to.
Bound(s, items) ==
  \/ cache.sign = s /\ cache.items = items
  \/ \E u \in Requests : hpc[u] = "bind" /\ hsign[u] = s /\ hcopy[u] = items

\* What is bound to the file's own signature is the file's content.
BoundIsTrue == \A items \in Contents : Bound(hfile.sign, items) => items = hfile.items

\* No signature is ahead of the file's.
SignsPast ==
  /\ cache.sign <= hfile.sign
  /\ \A t \in Requests : hsign[t] <= hfile.sign

Underway(t) == hpc[t] \notin {"rest", "wrote"}
Signed(t) == hpc[t] \in {"get", "load", "check", "bind", "have"}

\* Of a request that is under way: the file's content has been seen; so was what
\* is bound to the signature it has read, and what it has loaded.
Seen(t) ==
  Underway(t) =>
    /\ hfile.items \in hseen[t]
    /\ Signed(t) => /\ hsign[t] # 0
                    /\ \A items \in Contents : Bound(hsign[t], items) => items \in hseen[t]
    /\ hpc[t] \in {"check", "bind", "have"} => hcopy[t] \in hseen[t]
    /\ hpc[t] \in {"check", "bind"} /\ hsign[t] = hfile.sign => hcopy[t] = hfile.items

SeenInv == \A t \in Requests : Seen(t)

ReadInv == StoreTyped /\ BoundIsTrue /\ SignsPast /\ SeenInv

LEMMA Writing == Requests \subseteq Writers /\ Saver \in Writers /\ Saver \notin Requests
  BY HistoryAssumption DEF Writers, Saver

LEMMA NothingIsContent == Nothing \in Contents
  BY HistoryAssumption DEF Nothing, Contents

LEMMA ReadInit == HInit => ReadInv
  <1> SUFFICES ASSUME HInit PROVE ReadInv
    OBVIOUS
  <1> USE HistoryAssumption, Writing, NothingIsContent DEF HInit
  <1>1. StoreTyped
    BY DEF StoreTyped, NoCache, Signs
  <1>2. BoundIsTrue
    BY DEF BoundIsTrue, Bound, NoCache
  <1>3. SignsPast /\ SeenInv
    BY DEF SignsPast, SeenInv, Seen, NoCache, Underway
  <1> QED BY <1>1, <1>2, <1>3 DEF ReadInv

LEMMA ReadTypes == StoreTyped /\ [HNext]_historyVars => StoreTyped'
  <1> SUFFICES ASSUME StoreTyped, [HNext]_historyVars PROVE StoreTyped'
    OBVIOUS
  <1> USE HistoryAssumption, Writing, NothingIsContent DEF StoreTyped
  <1>k. hfile.items \in Contents /\ hfile.sign \in 1..(MaxWrites + 1)
    OBVIOUS
  <1>w. ASSUME NEW c \in Contents, NEW k, NEW x \in 0..MaxWrites
        PROVE  [c EXCEPT ![k] = x] \in Contents
    BY DEF Contents
  <1>r. ASSUME NEW items \in Contents, Replace(items)
        PROVE  /\ hfile' \in [sign: 1..(MaxWrites + 1), items: Contents]
               /\ hseen' \in [Requests -> SUBSET Contents]
               /\ hfile.sign \in 0..MaxWrites
    BY <1>r DEF Replace
  <1>1. ASSUME NEW t \in Requests, Begin(t) PROVE StoreTyped'
    BY <1>1, <1>k DEF Begin, HGoto
  <1>2. ASSUME NEW t \in Requests, Sign(t) PROVE StoreTyped'
    BY <1>2, <1>k DEF Sign, HGoto, Signs
  <1>3. ASSUME NEW t \in Requests, Get(t) PROVE StoreTyped'
    BY <1>3 DEF Get, HGoto
  <1>4. ASSUME NEW t \in Requests, LoadFile(t) PROVE StoreTyped'
    BY <1>4, <1>k DEF LoadFile, HGoto
  <1>5. ASSUME NEW t \in Requests, CheckSign(t) PROVE StoreTyped'
    BY <1>5 DEF CheckSign, HGoto, NoCache, Signs
  <1>6. ASSUME NEW t \in Requests, Bind(t) PROVE StoreTyped'
    BY <1>6 DEF Bind, HGoto
  <1>7. ASSUME NEW t \in Requests, Answer(t) PROVE StoreTyped'
    BY <1>7 DEF Answer, Finish, HGoto, Signs
  <1>8. ASSUME NEW t \in Requests, Write(t) PROVE StoreTyped'
    <2> DEFINE items == [hcopy[t] EXCEPT ![KeyOf[t]] = IF hwork[t] = "put" THEN hfile.sign ELSE 0]
    <2>1. hfile.sign \in 0..MaxWrites
      BY <1>8 DEF Write, Replace
    <2>2. items \in Contents
      <3>1. hcopy[t] \in Contents
        OBVIOUS
      <3>2. (IF hwork[t] = "put" THEN hfile.sign ELSE 0) \in 0..MaxWrites
        BY <2>1
      <3> QED BY <3>1, <3>2 DEF Contents
    <2>3. Replace(items)
      BY <1>8 DEF Write
    <2> HIDE DEF items
    <2>4. /\ hfile' \in [sign: 1..(MaxWrites + 1), items: Contents]
          /\ hseen' \in [Requests -> SUBSET Contents]
      BY <1>r, <2>2, <2>3
    <2>5. hput' \subseteq 0..MaxWrites
      BY <1>8, <2>1 DEF Write
    <2>6. cache' \in [sign: Signs, items: Contents]
      BY <1>8 DEF Write, NoCache, Signs
    <2>7. /\ hpc' = [hpc EXCEPT ![t] = "wrote"]
          /\ UNCHANGED <<hlock, hwork, hsign, hcopy>>
      BY <1>8 DEF Write, HGoto
    <2> QED BY <2>4, <2>5, <2>6, <2>7
  <1>9. ASSUME NEW t \in Requests, Wrote(t) PROVE StoreTyped'
    BY <1>9 DEF Wrote, Finish, HGoto, NoCache, Signs
  <1>10. CASE SnapshotRead
    BY <1>10, <1>k DEF SnapshotRead, HGoto
  <1>11. CASE SnapshotWrite
    <2> DEFINE items == [hcopy[Saver] EXCEPT ![KeyOf[Saver]] = hfile.sign]
    <2>1. hfile.sign \in 0..MaxWrites
      BY <1>11 DEF SnapshotWrite, Replace
    <2>2. items \in Contents
      BY <1>w, <2>1
    <2>3. Replace(items)
      BY <1>11 DEF SnapshotWrite
    <2> QED BY <1>11, <1>r, <2>1, <2>2, <2>3 DEF SnapshotWrite, Finish, HGoto, Signs
  <1>12. CASE Outside
    <2>1. PICK k \in Items : Replace([hfile.items EXCEPT ![k] = hfile.sign])
      BY <1>12 DEF Outside
    <2>2. hfile.sign \in 0..MaxWrites
      BY <2>1 DEF Replace
    <2>3. [hfile.items EXCEPT ![k] = hfile.sign] \in Contents
      BY <1>w, <1>k, <2>2
    <2> QED BY <1>12, <1>r, <2>1, <2>2, <2>3 DEF Outside
  <1>13. CASE UNCHANGED historyVars
    BY <1>13 DEF historyVars
  <1> QED
    BY <1>1, <1>2, <1>3, <1>4, <1>5, <1>6, <1>7, <1>8, <1>9, <1>10, <1>11, <1>12, <1>13 DEF HNext
\* What a step may bind anew.
NewlyBound(s, items) == s = 0 \/ (s = hfile.sign /\ items = hfile.items)
FewBound ==
  \A s \in Signs, items \in Contents : Bound(s, items)' => Bound(s, items) \/ NewlyBound(s, items)

\* A request that does not act, while the file stays.
LEMMA Bystander ==
  ASSUME ReadInv, StoreTyped', NEW r \in Requests, FewBound,
         hfile' = hfile, hpc'[r] = hpc[r], hsign'[r] = hsign[r], hcopy'[r] = hcopy[r],
         hseen'[r] = hseen[r]
  PROVE  Seen(r)'
  <1>1. hsign[r] \in Signs
    BY Writing DEF ReadInv, StoreTyped
  <1>2. Seen(r)
    BY DEF ReadInv, SeenInv
  <1> QED BY <1>1, <1>2 DEF Seen, Underway, Signed, FewBound, NewlyBound

LEMMA StillTrue ==
  ASSUME ReadInv, FewBound, hfile' = hfile
  PROVE  BoundIsTrue'
  <1>1. hfile.sign \in Signs /\ hfile.sign # 0
    BY HistoryAssumption DEF ReadInv, StoreTyped, Signs
  <1> QED BY <1>1 DEF ReadInv, BoundIsTrue, FewBound, NewlyBound

\* The file is replaced: what is bound is bound to an earlier signature.
LEMMA ReplacedStep ==
  ASSUME ReadInv, StoreTyped', NEW items \in Contents, Replace(items),
         hsign' \in [Writers -> Signs],
         \A t \in Requests : hpc'[t] = "wrote" \/
           (hpc'[t] = hpc[t] /\ hsign'[t] = hsign[t] /\ hcopy'[t] = hcopy[t]),
         \A t \in Requests : hsign'[t] = hsign[t],
         cache' = cache \/ cache' = NoCache
  PROVE  BoundIsTrue' /\ SignsPast' /\ SeenInv'
  <1> USE HistoryAssumption, Writing
  <1>1. /\ hfile' = [sign |-> hfile.sign + 1, items |-> items]
        /\ \A t \in Requests : hpc'[t] \notin {"rest", "wrote"} => hseen'[t] = hseen[t] \cup {items}
    BY DEF Replace
  <1>2. hfile.sign \in Nat /\ cache.sign \in Nat /\ \A t \in Requests : hsign[t] \in Nat
    BY DEF ReadInv, StoreTyped, Signs
  <1>3. SignsPast'
    BY <1>1, <1>2 DEF ReadInv, SignsPast, NoCache
  <1>4. \A s \in Signs, x \in Contents : Bound(s, x)' => Bound(s, x) \/ s = 0
    BY DEF Bound, NoCache
  <1>5. \A s \in Signs, x \in Contents : Bound(s, x) => s <= hfile.sign
    BY DEF ReadInv, SignsPast, Bound
  <1>6. BoundIsTrue'
    BY <1>1, <1>2, <1>4, <1>5 DEF BoundIsTrue, StoreTyped, Signs
  <1>7. ASSUME NEW r \in Requests PROVE Seen(r)'
    <2> SUFFICES ASSUME hpc'[r] \notin {"rest", "wrote"} PROVE Seen(r)'
      BY DEF Seen, Underway
    <2>1. Seen(r) /\ Underway(r) /\ hpc'[r] = hpc[r] /\ hsign'[r] = hsign[r] /\ hcopy'[r] = hcopy[r]
      BY DEF ReadInv, SeenInv, Underway
    <2>2. hsign[r] <= hfile.sign /\ hsign[r] \in Signs
      BY DEF ReadInv, SignsPast, StoreTyped
    <2>3. hsign'[r] # hfile'.sign
      BY <1>1, <1>2, <2>1, <2>2
    <2> QED BY <1>1, <1>4, <2>1, <2>2, <2>3 DEF Seen, Underway, Signed
  <1> QED BY <1>3, <1>6, <1>7 DEF SeenInv

LEMMA BindsFew ==
  ASSUME ReadInv, NEW t \in Requests,
         \/ Begin(t) \/ Sign(t) \/ Get(t) \/ LoadFile(t) \/ CheckSign(t) \/ Bind(t)
         \/ Answer(t) \/ Wrote(t)
  PROVE  FewBound
  <1> USE Writing DEF StoreTyped
  <1>t. StoreTyped /\ Seen(t)
    BY DEF ReadInv, SeenInv
  <1>1. CASE Begin(t) \/ Sign(t) \/ Get(t) \/ LoadFile(t) \/ Answer(t)
    <2>1. cache' = cache /\ \A r \in Requests : hpc'[r] = "bind" =>
            hpc[r] = "bind" /\ hsign'[r] = hsign[r] /\ hcopy'[r] = hcopy[r]
      BY <1>1, <1>t DEF Begin, Sign, Get, LoadFile, Answer, Finish, HGoto
    <2> QED BY <2>1 DEF FewBound, Bound
  <1>2. CASE CheckSign(t) /\ hfile.sign = hsign[t]
    BY <1>2, <1>t DEF FewBound, NewlyBound, Bound, CheckSign, HGoto, Seen, Underway
  <1>3. CASE CheckSign(t) /\ hfile.sign # hsign[t]
    BY <1>3, <1>t DEF FewBound, NewlyBound, Bound, CheckSign, HGoto, NoCache
  <1>4. CASE Bind(t)
    BY <1>4, <1>t DEF FewBound, Bound, Bind, HGoto
  <1>5. CASE Wrote(t)
    BY <1>5, <1>t DEF FewBound, NewlyBound, Bound, Wrote, Finish, HGoto, NoCache
  <1> QED BY <1>1, <1>2, <1>3, <1>4, <1>5

LEMMA ReadStep == ReadInv /\ [HNext]_historyVars => ReadInv'
  <1> SUFFICES ASSUME ReadInv, [HNext]_historyVars PROVE ReadInv'
    OBVIOUS
  <1> USE HistoryAssumption, Writing
  <1>t. StoreTyped /\ StoreTyped'
    BY ReadTypes DEF ReadInv
  <1>n. hfile.sign \in Signs /\ hfile.sign # 0 /\ hfile.sign \in Nat /\ hfile.items \in Contents
    BY <1>t DEF StoreTyped, Signs
  <1>s. SignsPast /\ SeenInv
    BY DEF ReadInv
  <1>1. ASSUME NEW t \in Requests, Begin(t) PROVE ReadInv'
    <2>1. FewBound
      BY <1>1, BindsFew
    <2>2. hfile' = hfile /\ SignsPast'
      BY <1>1, <1>s DEF Begin, SignsPast
    <2>3. Seen(t)'
      BY <1>1, <1>t DEF Begin, HGoto, Seen, Underway, Signed, StoreTyped
    <2>4. \A r \in Requests \ {t} : Seen(r)'
      BY <1>1, <1>t, <2>1, Bystander DEF Begin, HGoto, StoreTyped
    <2> QED BY <1>t, <2>1, <2>2, <2>3, <2>4, StillTrue DEF ReadInv, SeenInv
  <1>2. ASSUME NEW t \in Requests, Sign(t) PROVE ReadInv'
    <2>1. FewBound
      BY <1>2, BindsFew
    <2>2. hfile' = hfile /\ SignsPast'
      BY <1>2, <1>s, <1>t, <1>n DEF Sign, SignsPast, StoreTyped
    <2>3. BoundIsTrue'
      BY <2>1, <2>2, StillTrue
    <2>4. Seen(t)'
      <3>1. hfile.items \in hseen[t]
        BY <1>2, <1>s DEF Sign, SeenInv, Seen, Underway
      <3>2. /\ hpc'[t] = "get" /\ hsign'[t] = hfile.sign /\ hseen' = hseen
        BY <1>2, <1>t DEF Sign, HGoto, StoreTyped
      <3> QED BY <2>2, <2>3, <3>1, <3>2, <1>n DEF Seen, Signed, Underway, BoundIsTrue
    <2>5. \A r \in Requests \ {t} : Seen(r)'
      BY <1>2, <1>t, <2>1, Bystander DEF Sign, HGoto, StoreTyped
    <2> QED BY <1>t, <2>2, <2>3, <2>4, <2>5 DEF ReadInv, SeenInv
  <1>3. ASSUME NEW t \in Requests, Get(t) PROVE ReadInv'
    <2>1. FewBound
      BY <1>3, BindsFew
    <2>2. hfile' = hfile /\ SignsPast'
      BY <1>3, <1>s DEF Get, SignsPast
    <2>3. Seen(t)'
      <3>1. Seen(t) /\ hpc[t] = "get"
        BY <1>3, <1>s DEF Get, SeenInv
      <3>2. cache.sign = hsign[t] => Bound(hsign[t], cache.items) /\ cache.items \in Contents
        BY <1>t DEF Bound, StoreTyped
      <3>3. \A s \in Signs, items \in Contents : Bound(s, items)' => Bound(s, items)
        BY <1>3, <1>t DEF Bound, Get, HGoto, StoreTyped
      <3>4. hsign[t] \in Signs
        BY <1>t DEF StoreTyped
      <3> QED BY <1>3, <1>t, <3>1, <3>2, <3>3, <3>4 DEF Get, HGoto, Seen, Underway, Signed, StoreTyped
    <2>4. \A r \in Requests \ {t} : Seen(r)'
      BY <1>3, <1>t, <2>1, Bystander DEF Get, HGoto, StoreTyped
    <2> QED BY <1>t, <2>1, <2>2, <2>3, <2>4, StillTrue DEF ReadInv, SeenInv
  <1>4. ASSUME NEW t \in Requests, LoadFile(t) PROVE ReadInv'
    <2>1. FewBound
      BY <1>4, BindsFew
    <2>2. hfile' = hfile /\ SignsPast'
      BY <1>4, <1>s DEF LoadFile, SignsPast
    <2>3. Seen(t)'
      <3>1. Seen(t) /\ hpc[t] = "load"
        BY <1>4, <1>s DEF LoadFile, SeenInv
      <3>3. \A s \in Signs, items \in Contents : Bound(s, items)' => Bound(s, items)
        BY <1>4, <1>t DEF Bound, LoadFile, HGoto, StoreTyped
      <3>4. hsign[t] \in Signs
        BY <1>t DEF StoreTyped
      <3> QED BY <1>4, <1>t, <3>1, <3>3, <3>4 DEF LoadFile, HGoto, Seen, Underway, Signed, StoreTyped
    <2>4. \A r \in Requests \ {t} : Seen(r)'
      BY <1>4, <1>t, <2>1, Bystander DEF LoadFile, HGoto, StoreTyped
    <2> QED BY <1>t, <2>1, <2>2, <2>3, <2>4, StillTrue DEF ReadInv, SeenInv
  <1>5. ASSUME NEW t \in Requests, CheckSign(t) PROVE ReadInv'
    <2>0. Seen(t) /\ hpc[t] = "check"
      BY <1>5, <1>s DEF CheckSign, SeenInv
    <2>1. FewBound
      BY <1>5, BindsFew
    <2>2. hfile' = hfile /\ SignsPast'
      BY <1>5, <1>s, <1>n DEF CheckSign, SignsPast, NoCache
    <2>3. Seen(t)'
      <3>4. hsign[t] \in Signs
        BY <1>t DEF StoreTyped
      <3>5. \A s \in Signs, items \in Contents : s = hsign[t] /\ Bound(s, items)' => items \in hseen[t]
        BY <2>0, <2>1, <3>4 DEF FewBound, NewlyBound, Seen, Underway, Signed
      <3> QED BY <1>5, <1>t, <2>0, <3>4, <3>5
          DEF CheckSign, HGoto, Seen, Underway, Signed, StoreTyped
    <2>4. \A r \in Requests \ {t} : Seen(r)'
      BY <1>5, <1>t, <2>1, Bystander DEF CheckSign, HGoto, StoreTyped
    <2> QED BY <1>t, <2>1, <2>2, <2>3, <2>4, StillTrue DEF ReadInv, SeenInv
  <1>6. ASSUME NEW t \in Requests, Bind(t) PROVE ReadInv'
    <2>0. Seen(t) /\ hpc[t] = "bind"
      BY <1>6, <1>s DEF Bind, SeenInv
    <2>1. \A s \in Signs, items \in Contents : Bound(s, items)' => Bound(s, items)
      BY <1>6, <1>t DEF Bound, Bind, HGoto, StoreTyped
    <2>2. hfile' = hfile /\ SignsPast'
      BY <1>6, <1>s DEF Bind, SignsPast
    <2>3. Seen(t)'
      <3>4. hsign[t] \in Signs
        BY <1>t DEF StoreTyped
      <3> QED BY <1>6, <1>t, <2>0, <2>1, <3>4 DEF Bind, HGoto, Seen, Underway, Signed, StoreTyped
    <2>f. FewBound
      BY <1>6, BindsFew
    <2>4. \A r \in Requests \ {t} : Seen(r)'
      BY <1>6, <1>t, <2>f, Bystander DEF Bind, HGoto, StoreTyped
    <2> QED BY <1>t, <2>f, <2>2, <2>3, <2>4, StillTrue DEF ReadInv, SeenInv
  <1>7. ASSUME NEW t \in Requests, Answer(t) PROVE ReadInv'
    <2>1. FewBound
      BY <1>7, BindsFew
    <2>2. hfile' = hfile /\ SignsPast'
      BY <1>7, <1>s, <1>t, <1>n DEF Answer, Finish, SignsPast, StoreTyped
    <2>3. Seen(t)'
      BY <1>7, <1>t DEF Answer, Finish, HGoto, Seen, Underway, StoreTyped
    <2>4. \A r \in Requests \ {t} : Seen(r)'
      BY <1>7, <1>t, <2>1, Bystander DEF Answer, Finish, HGoto, StoreTyped
    <2> QED BY <1>t, <2>1, <2>2, <2>3, <2>4, StillTrue DEF ReadInv, SeenInv
  <1>8. ASSUME NEW t \in Requests, Write(t) PROVE ReadInv'
    <2> DEFINE items == [hcopy[t] EXCEPT ![KeyOf[t]] = IF hwork[t] = "put" THEN hfile.sign ELSE 0]
    <2>1. Replace(items)
      BY <1>8 DEF Write
    <2>2. items \in Contents
      BY <1>t, <2>1 DEF Replace, StoreTyped
    <2> HIDE DEF items
    <2> QED BY <1>8, <1>t, <2>1, <2>2, ReplacedStep DEF Write, HGoto, StoreTyped, ReadInv
  <1>9. ASSUME NEW t \in Requests, Wrote(t) PROVE ReadInv'
    <2>1. FewBound
      BY <1>9, BindsFew
    <2>2. hfile' = hfile /\ SignsPast'
      BY <1>9, <1>s, <1>t, <1>n DEF Wrote, Finish, SignsPast, NoCache, StoreTyped
    <2>3. Seen(t)'
      BY <1>9, <1>t DEF Wrote, Finish, HGoto, Seen, Underway, StoreTyped
    <2>4. \A r \in Requests \ {t} : Seen(r)'
      BY <1>9, <1>t, <2>1, Bystander DEF Wrote, Finish, HGoto, StoreTyped
    <2> QED BY <1>t, <2>1, <2>2, <2>3, <2>4, StillTrue DEF ReadInv, SeenInv
  <1>10. CASE SnapshotRead
    <2>1. \A r \in Requests : hpc'[r] = hpc[r] /\ hcopy'[r] = hcopy[r]
      BY <1>10, <1>t DEF SnapshotRead, HGoto, StoreTyped
    <2>2. UNCHANGED <<hfile, cache, hsign, hseen>>
      BY <1>10 DEF SnapshotRead
    <2>3. FewBound
      BY <2>1, <2>2 DEF FewBound, Bound
    <2>4. SignsPast'
      BY <1>s, <2>2 DEF SignsPast
    <2>5. \A r \in Requests : Seen(r)'
      BY <1>t, <2>1, <2>2, <2>3, Bystander
    <2> QED BY <1>t, <2>2, <2>3, <2>4, <2>5, StillTrue DEF ReadInv, SeenInv
  <1>11. CASE SnapshotWrite
    <2> DEFINE items == [hcopy[Saver] EXCEPT ![KeyOf[Saver]] = hfile.sign]
    <2>1. Replace(items)
      BY <1>11 DEF SnapshotWrite
    <2>2. items \in Contents
      BY <1>t, <2>1 DEF Replace, StoreTyped
    <2> HIDE DEF items
    <2>3. \A r \in Requests : hpc'[r] = hpc[r] /\ hcopy'[r] = hcopy[r] /\ hsign'[r] = hsign[r]
      BY <1>11, <1>t DEF SnapshotWrite, Finish, HGoto, StoreTyped
    <2>4. cache' = cache
      BY <1>11 DEF SnapshotWrite
    <2> QED BY <1>t, <2>1, <2>2, <2>3, <2>4, ReplacedStep DEF StoreTyped, ReadInv
  <1>12. CASE Outside
    <2>1. PICK k \in Items : Replace([hfile.items EXCEPT ![k] = hfile.sign])
      BY <1>12 DEF Outside
    <2>2. [hfile.items EXCEPT ![k] = hfile.sign] \in Contents
      BY <1>t, <2>1 DEF Replace, StoreTyped
    <2>3. UNCHANGED <<cache, hpc, hsign, hcopy>>
      BY <1>12 DEF Outside
    <2> QED BY <1>t, <2>1, <2>2, <2>3, ReplacedStep DEF StoreTyped, ReadInv
  <1>13. CASE UNCHANGED historyVars
    BY <1>13, <1>t DEF historyVars, ReadInv, BoundIsTrue, Bound, SignsPast, SeenInv, Seen, Underway, Signed
  <1> QED
    BY <1>1, <1>2, <1>3, <1>4, <1>5, <1>6, <1>7, <1>8, <1>9, <1>10, <1>11, <1>12, <1>13 DEF HNext

\* The step of the whole process is one of the history, or leaves it alone.
LEMMA HistorySteps == [ANext]_appVars => [HNext]_historyVars
  BY DEF ANext, appVars, historyVars, Follow

\* What a request reads of the history is what the file held at some moment of
\* that request, for any number of requests, items and writes ("Never bind old
\* contents to the replacement file's signature", app.py).
THEOREM HistoryReadsCurrent == ASpec => []ReadIsCurrent
  <1>1. AInit => ReadInv
    BY ReadInit DEF AInit
  <1>2. ReadInv /\ [ANext]_appVars => ReadInv'
    BY HistorySteps, ReadStep
  <1>3. ReadInv => ReadIsCurrent
    BY DEF ReadInv, SeenInv, Seen, Underway, ReadIsCurrent
  <1> QED BY <1>1, <1>2, <1>3, PTL DEF ASpec

-----------------------------------------------------------------------------
(* Records are kept: who changes the history holds the lock. *)

LockInv ==
  \A t \in Requests : hpc[t] # "rest" /\ hwork[t] # "read" => hlock = t

\* Only requests' stamps that have been used.
PutPast == \A p \in hput : p < hfile.sign

\* A content that lacks none of the requests' records.
Kept(items) == \A k \in Items : hfile.items[k] \in hput => items[k] = hfile.items[k]

\* What a request that will write has, or may get from the cache.
Keeps(t) ==
  Underway(t) /\ hwork[t] # "read" =>
    /\ Signed(t) => \A items \in Contents : Bound(hsign[t], items) => Kept(items)
    /\ hpc[t] \in {"check", "bind", "have"} => Kept(hcopy[t])

KeepInv == ReadInv /\ LockInv /\ PutPast /\ \A t \in Requests : Keeps(t)

LEMMA KeepInit == HInit => KeepInv
  BY ReadInit, Writing DEF HInit, KeepInv, LockInv, PutPast, Keeps, Underway

LEMMA LockStep == StoreTyped /\ LockInv /\ [HNext]_historyVars => LockInv'
  <1> SUFFICES ASSUME StoreTyped, LockInv, [HNext]_historyVars PROVE LockInv'
    OBVIOUS
  <1> USE HistoryAssumption, Writing DEF LockInv, StoreTyped
  <1>1. ASSUME NEW t \in Requests, Begin(t) PROVE LockInv'
    BY <1>1 DEF Begin, HGoto
  <1>2. ASSUME NEW t \in Requests,
               Sign(t) \/ Get(t) \/ LoadFile(t) \/ CheckSign(t) \/ Bind(t) \/ Write(t)
        PROVE  LockInv'
    <2>1. hwork' = hwork /\ hlock' = hlock
      BY <1>2 DEF Sign, Get, LoadFile, CheckSign, Bind, Write
    <2>2. hpc[t] # "rest" /\ \A r \in Requests \ {t} : hpc'[r] = hpc[r]
      BY <1>2 DEF Sign, Get, LoadFile, CheckSign, Bind, Write, HGoto
    <2> QED BY <2>1, <2>2
  <1>3. ASSUME NEW t \in Requests, Answer(t) \/ Wrote(t) PROVE LockInv'
    <2>1. hpc'[t] = "rest" /\ \A r \in Requests \ {t} : hpc'[r] = hpc[r] /\ hwork'[r] = hwork[r]
      BY <1>3 DEF Answer, Wrote, Finish, HGoto
    <2>2. hlock' = hlock \/ (hlock = t /\ hlock' = NoHolder)
      BY <1>3 DEF Answer, Wrote
    <2> QED BY <2>1, <2>2
  <1>4. CASE SnapshotRead \/ SnapshotWrite
    <2>1. \A r \in Requests : hpc'[r] = hpc[r] /\ hwork'[r] = hwork[r]
      BY <1>4 DEF SnapshotRead, SnapshotWrite, Finish, HGoto
    <2>2. hlock' = hlock
      BY <1>4 DEF SnapshotRead, SnapshotWrite
    <2> QED BY <2>1, <2>2
  <1>5. CASE Outside \/ UNCHANGED historyVars
    BY <1>5 DEF Outside, historyVars
  <1> QED BY <1>1, <1>2, <1>3, <1>4, <1>5 DEF HNext

LEMMA PutStep == StoreTyped /\ PutPast /\ [HNext]_historyVars => PutPast'
  <1> SUFFICES ASSUME StoreTyped, PutPast, [HNext]_historyVars PROVE PutPast'
    OBVIOUS
  <1>1. hfile.sign \in Nat /\ hput \subseteq Nat
    BY HistoryAssumption DEF StoreTyped
  <1>2. CASE hfile' = hfile /\ hput' = hput
    BY <1>2 DEF PutPast
  <1>3. ASSUME hfile'.sign = hfile.sign + 1, hput' \subseteq hput \cup {hfile.sign}
        PROVE  PutPast'
    BY <1>1, <1>3 DEF PutPast
  <1>4. ASSUME NEW t \in Requests, Write(t) PROVE PutPast'
    BY <1>3, <1>4 DEF Write, Replace
  <1>5. CASE SnapshotWrite
    BY <1>3, <1>5 DEF SnapshotWrite, Replace
  <1>6. CASE Outside
    BY <1>3, <1>6 DEF Outside, Replace
  <1> QED
    BY <1>2, <1>4, <1>5, <1>6
    DEF HNext, historyVars, Begin, Sign, Get, LoadFile, CheckSign, Bind, Answer, Wrote, SnapshotRead

\* A request that does not act, while file and records stay.
LEMMA KeepingBystander ==
  ASSUME KeepInv, StoreTyped', NEW r \in Requests, FewBound,
         hfile' = hfile, hput' = hput, hpc'[r] = hpc[r], hwork'[r] = hwork[r],
         hsign'[r] = hsign[r], hcopy'[r] = hcopy[r]
  PROVE  Keeps(r)'
  <1>1. hsign[r] \in Signs
    BY Writing DEF KeepInv, ReadInv, StoreTyped
  <1>2. Keeps(r) /\ Seen(r)
    BY DEF KeepInv, ReadInv, SeenInv
  <1>3. Kept(hfile.items)
    BY DEF Kept
  <1>4. \A x \in Contents : Kept(x)' <=> Kept(x)
    BY DEF Kept
  <1>5. hcopy[r] \in Contents
    BY Writing DEF KeepInv, ReadInv, StoreTyped
  <1>6. \A s \in Signs, x \in Contents : s = hsign[r] /\ Bound(s, x)' => Bound(s, x) \/ NewlyBound(s, x)
    BY DEF FewBound
  <1> SUFFICES ASSUME Underway(r), hwork[r] # "read" PROVE Keeps(r)'
    BY DEF Keeps, Underway
  <1>7. \A s \in Signs, x \in Contents : Signed(r) /\ s = hsign[r] /\ Bound(s, x)' => Kept(x)'
    <2> SUFFICES ASSUME NEW s \in Signs, NEW x \in Contents, Signed(r), s = hsign[r], Bound(s, x)'
                 PROVE  Kept(x)'
      OBVIOUS
    <2>1. s # 0
      BY <1>2 DEF Seen, Underway
    <2>2. Kept(x)
      BY <1>2, <1>3, <1>6, <2>1 DEF Keeps, NewlyBound
    <2> QED BY <2>2 DEF Kept
  <1>8. hpc[r] \in {"check", "bind", "have"} => Kept(hcopy[r])'
    <2>1. hpc[r] \in {"check", "bind", "have"} => Kept(hcopy[r])
      BY <1>2 DEF Keeps
    <2> QED BY <2>1 DEF Kept
  <1> QED BY <1>1, <1>7, <1>8 DEF Keeps, Signed

\* The file is replaced, and every content that a writer may have stays good.
LEMMA KeepsReplaced ==
  ASSUME KeepInv, ReadInv', NEW r \in Requests, Underway(r)', hwork'[r] # "read",
         hpc'[r] = hpc[r], hwork'[r] = hwork[r], hsign'[r] = hsign[r], hcopy'[r] = hcopy[r],
         cache' = cache, \A u \in Requests : hpc'[u] = "bind" =>
           hpc[u] = "bind" /\ hsign'[u] = hsign[u] /\ hcopy'[u] = hcopy[u],
         \A x \in Contents : Kept(x) => Kept(x)'
  PROVE  Keeps(r)'
  <1>1. Keeps(r) /\ Underway(r) /\ hwork[r] # "read"
    BY DEF KeepInv, Underway
  <1>2. \A s \in Signs, x \in Contents : Bound(s, x)' => Bound(s, x)
    BY DEF Bound
  <1>3. hsign[r] \in Signs /\ hcopy[r] \in Contents
    BY Writing DEF KeepInv, ReadInv, StoreTyped
  <1>4. \A s \in Signs, x \in Contents : Signed(r) /\ s = hsign[r] /\ Bound(s, x)' => Kept(x)'
    BY <1>1, <1>2, <1>3 DEF Keeps
  <1>5. \A x \in Contents : hpc[r] \in {"check", "bind", "have"} /\ x = hcopy[r] => Kept(x)'
    BY <1>1, <1>3 DEF Keeps
  <1> QED BY <1>3, <1>4, <1>5 DEF Keeps, Signed

LEMMA KeepStep == KeepInv /\ [HNext]_historyVars => KeepInv'
  <1> SUFFICES ASSUME KeepInv, [HNext]_historyVars PROVE KeepInv'
    OBVIOUS
  <1> USE HistoryAssumption, Writing
  <1>t. ReadInv /\ StoreTyped /\ LockInv /\ PutPast
    BY DEF KeepInv, ReadInv
  <1>r. ReadInv' /\ StoreTyped' /\ LockInv' /\ PutPast'
    BY <1>t, ReadStep, LockStep, PutStep DEF ReadInv
  <1>q. SUFFICES ASSUME NEW r \in Requests PROVE Keeps(r)'
    BY <1>r DEF KeepInv
  <1>k. Keeps(r) /\ Seen(r) /\ Seen(r)'
    BY <1>t, <1>r DEF KeepInv, ReadInv, SeenInv
  <1>c. hsign[r] \in Signs /\ hcopy[r] \in Contents
    BY <1>t DEF StoreTyped
  <1>1. ASSUME NEW t \in Requests, t # r,
               \/ Begin(t) \/ Sign(t) \/ Get(t) \/ LoadFile(t) \/ CheckSign(t) \/ Bind(t)
               \/ Answer(t) \/ Wrote(t)
        PROVE  Keeps(r)'
    <2>1. hfile' = hfile /\ hput' = hput
      BY <1>1 DEF Begin, Sign, Get, LoadFile, CheckSign, Bind, Answer, Wrote, Finish
    <2>2. hpc'[r] = hpc[r] /\ hwork'[r] = hwork[r] /\ hsign'[r] = hsign[r] /\ hcopy'[r] = hcopy[r]
      BY <1>1, <1>t DEF StoreTyped, Begin, Sign, Get, LoadFile, CheckSign, Bind, Answer, Wrote, Finish, HGoto
    <2> QED BY <1>1, <1>t, <1>r, <2>1, <2>2, BindsFew, KeepingBystander
  <1>2. CASE Begin(r) \/ Answer(r) \/ Write(r) \/ Wrote(r)
    <2>1. hpc'[r] \in {"rest", "wrote"} \/ hpc'[r] = "sign"
      BY <1>2, <1>t DEF StoreTyped, Begin, Answer, Write, Wrote, Finish, HGoto
    <2> QED BY <2>1 DEF Keeps, Underway, Signed
  <1>3. CASE Sign(r)
    <2>1. hpc'[r] = "get" /\ hsign'[r] = hfile.sign /\ hfile' = hfile
      BY <1>3, <1>t DEF StoreTyped, Sign, HGoto
    <2>2. \A x \in Contents, s \in Signs : s = hsign'[r] /\ Bound(s, x)' => x = hfile'.items
      BY <1>r, <2>1 DEF ReadInv, BoundIsTrue
    <2>3. hsign'[r] \in Signs
      BY <1>r DEF StoreTyped
    <2> QED BY <2>1, <2>2, <2>3 DEF Keeps, Kept
  <1>4. CASE Get(r) \/ LoadFile(r) \/ CheckSign(r) \/ Bind(r)
    <2>1. hfile' = hfile /\ hput' = hput /\ hwork' = hwork /\ hsign' = hsign
      BY <1>4 DEF Get, LoadFile, CheckSign, Bind
    <2>2. Underway(r) /\ Signed(r)
      BY <1>4 DEF Get, LoadFile, CheckSign, Bind, Underway, Signed
    <2>3. \A s \in Signs, x \in Contents : s = hsign[r] /\ Bound(s, x)' => Bound(s, x) \/ x = hfile.items
      BY <1>4, <1>k, <2>2, BindsFew, <1>t DEF FewBound, NewlyBound, Seen
    <2>4. \A x \in Contents : Kept(x) => Kept(x)'
      BY <2>1 DEF Kept
    <2>5. Kept(hfile.items) /\ hfile.items \in Contents
      BY <1>t DEF Kept, StoreTyped
    <2>6. SUFFICES ASSUME hwork[r] # "read" PROVE Keeps(r)'
      BY <2>1 DEF Keeps
    <2>7. \A s \in Signs, x \in Contents : s = hsign'[r] /\ Bound(s, x)' => Kept(x)'
      BY <1>k, <2>1, <2>2, <2>3, <2>4, <2>5, <2>6 DEF Keeps
    <2>8. hpc'[r] \in {"check", "bind", "have"} => \E x \in Contents : x = hcopy'[r] /\ Kept(x)
      <3>1. CASE Get(r)
        <4>1. cache.sign = hsign[r] => Kept(cache.items) /\ cache.items \in Contents
          BY <1>c, <1>k, <1>t, <2>2, <2>6 DEF Keeps, Bound, StoreTyped
        <4> QED BY <3>1, <4>1, <1>t DEF Get, HGoto, StoreTyped
      <3>2. CASE LoadFile(r)
        BY <3>2, <2>5, <1>t DEF LoadFile, HGoto, StoreTyped
      <3>3. CASE CheckSign(r) \/ Bind(r)
        BY <3>3, <1>c, <1>k, <2>2, <2>6 DEF CheckSign, Bind, Keeps
      <3> QED BY <1>4, <3>1, <3>2, <3>3
    <2>9. hsign'[r] \in Signs
      BY <1>r DEF StoreTyped
    <2> QED BY <2>4, <2>7, <2>8, <2>9 DEF Keeps, Kept
  <1>5. ASSUME NEW t \in Requests, t # r, Write(t) PROVE Keeps(r)'
    <2>1. hlock = t /\ hlock' = t
      BY <1>5, <1>t DEF Write, LockInv
    <2>2. hpc'[r] = "rest" \/ hwork'[r] = "read"
      BY <1>5, <2>1, <1>r DEF LockInv
    <2> QED BY <2>2 DEF Keeps, Underway
  <1>6. CASE SnapshotRead
    <2>1. \A u \in Requests : hpc'[u] = hpc[u] /\ hcopy'[u] = hcopy[u]
      BY <1>6, <1>t DEF SnapshotRead, HGoto, StoreTyped
    <2>2. UNCHANGED <<hfile, cache, hsign, hseen, hput, hwork>>
      BY <1>6 DEF SnapshotRead
    <2>3. FewBound
      BY <2>1, <2>2 DEF FewBound, Bound
    <2> QED BY <1>t, <1>r, <2>1, <2>2, <2>3, KeepingBystander
  <1>7. CASE SnapshotWrite
    <2>1. hlock' = NoHolder
      BY <1>7 DEF SnapshotWrite
    <2> QED BY <2>1, <1>r DEF LockInv, Keeps, Underway
  <1>8. CASE Outside
    <2>1. PICK k \in Items : Replace([hfile.items EXCEPT ![k] = hfile.sign])
      BY <1>8 DEF Outside
    <2>2. UNCHANGED <<cache, hpc, hsign, hcopy, hwork, hput>>
      BY <1>8 DEF Outside
    <2>3. hfile'.items = [hfile.items EXCEPT ![k] = hfile.sign]
      BY <2>1 DEF Replace
    <2>4. hfile.sign \notin hput
      BY <1>t DEF PutPast, StoreTyped
    <2>5. hfile.items \in Contents
      BY <1>t DEF StoreTyped
    <2>6. \A x \in Contents : Kept(x) => Kept(x)'
      BY <2>2, <2>3, <2>4, <2>5 DEF Kept, Contents
    <2>7. CASE Underway(r)' /\ hwork'[r] # "read"
      BY <1>r, <2>2, <2>6, <2>7, KeepsReplaced
    <2> QED BY <2>7 DEF Keeps
  <1>9. CASE UNCHANGED historyVars
    BY <1>9, <1>k DEF historyVars, Keeps, Kept, Bound, Underway, Signed
  <1> QED BY <1>1, <1>2, <1>3, <1>4, <1>5, <1>6, <1>7, <1>8, <1>9 DEF HNext

\* A request that records progress or deletes an item undoes no other request's
\* record, for any number of requests, items and writes.
THEOREM RequestsKeepWrites == ASpec => RequestWritesKept
  <1>1. AInit => KeepInv
    BY KeepInit DEF AInit
  <1>2. KeepInv /\ [ANext]_appVars => KeepInv'
    BY HistorySteps, KeepStep
  <1> DEFINE A == \A t \in Requests :
       hpc[t] = "have" /\ hpc'[t] = "wrote"
       => \A k \in Items \ {KeyOf[t]} :
            hfile.items[k] \in hput => hfile'.items[k] = hfile.items[k]
  <1>3. KeepInv /\ [ANext]_appVars => [A]_historyVars
    <2> SUFFICES ASSUME KeepInv, [HNext]_historyVars, NEW t \in Requests,
                        hpc[t] = "have", hpc'[t] = "wrote",
                        NEW k \in Items \ {KeyOf[t]}, hfile.items[k] \in hput
                 PROVE  hfile'.items[k] = hfile.items[k]
      BY HistorySteps
    <2>1. Write(t)
      <3>1. /\ DOMAIN hpc = Writers
            /\ hpc[t] = "have" /\ hpc'[t] = "wrote"
        BY DEF KeepInv, ReadInv, StoreTyped
      <3>2. ASSUME NEW r \in Requests, Begin(r) \/ Sign(r) \/ Get(r) PROVE FALSE
        BY <3>1, <3>2, Writing DEF Begin, Sign, Get, HGoto
      <3>3. ASSUME NEW r \in Requests, LoadFile(r) \/ CheckSign(r) \/ Bind(r) PROVE FALSE
        BY <3>1, <3>3, Writing DEF LoadFile, CheckSign, Bind, HGoto
      <3>4. ASSUME NEW r \in Requests, Answer(r) \/ Wrote(r) PROVE FALSE
        BY <3>1, <3>4, Writing DEF Answer, Wrote, Finish, HGoto
      <3>5. ASSUME NEW r \in Requests, Write(r) PROVE r = t
        BY <3>1, <3>5, Writing DEF Write, HGoto
      <3>6. ~SnapshotRead /\ ~SnapshotWrite /\ ~Outside /\ ~UNCHANGED historyVars
        <4>4. t \in Writers /\ t # Saver
          BY Writing
        <4>1. ~SnapshotRead
          <5>1. SnapshotRead => hpc' = [hpc EXCEPT ![Saver] = "have"]
            BY DEF SnapshotRead, HGoto
          <5> QED BY <3>1, <4>4, <5>1
        <4>2. ~SnapshotWrite
          <5>1. SnapshotWrite => hpc' = [hpc EXCEPT ![Saver] = "rest"]
            BY DEF SnapshotWrite, Finish, HGoto
          <5> QED BY <3>1, <4>4, <5>1
        <4>3. ~Outside /\ ~UNCHANGED historyVars
          BY <3>1 DEF Outside, historyVars
        <4> QED BY <4>1, <4>2, <4>3
      <3> QED BY <3>2, <3>3, <3>4, <3>5, <3>6 DEF HNext
    <2>2. hwork[t] # "read" /\ Kept(hcopy[t]) /\ hcopy[t] \in Contents
      BY <2>1, Writing DEF Write, KeepInv, Keeps, Underway, ReadInv, StoreTyped
    <2>3. hcopy[t][k] = hfile.items[k]
      BY <2>2 DEF Kept
    <2>4. hfile'.items[k] = hcopy[t][k]
      BY <2>1, <2>2 DEF Write, Replace, Contents
    <2> QED BY <2>3, <2>4
  <1> QED BY <1>1, <1>2, <1>3, PTL DEF ASpec, RequestWritesKept

-----------------------------------------------------------------------------
(* The hand-off. *)

\* What the receiver can be asked for.
Real == {d \in Wishes : d.rev # 0 /\ d.source \in Sources}

HandoffTyped ==
  /\ MTypeOK
  /\ receiver \in [rev: 0..MaxRevision, source: Sources \cup {NoSource}, playing: BOOLEAN]
  /\ cap \in [Movers -> [from: Endpoints \cup {"none"}, source: Sources \cup {NoSource},
                         playing: BOOLEAN, paused: BOOLEAN]]
  /\ {desired, scratch} \subseteq Real \cup {NoDesire}

\* Nobody has heard of a revision that was never desired.
RevisionsPast ==
  /\ desired.rev <= top /\ receiver.rev <= top
  /\ post.rev <= top /\ status.rev <= top

\* A request that has chosen its revision and not yet published it, and one that
\* has published it.
Choosing(m) == mpc[m] \in {"write", "replace"} /\ draft[m].action = "play"
Wishing(m) ==
  \/ mpc[m] \in {"hold", "await", "quiet"}
  \/ mpc[m] \in {"write", "replace"} /\ draft[m].action = "pause"

\* What is told of its revision is told of its source.
Shown(m) ==
  top \in {receiver.rev, post.rev, status.rev} => <<top, cap[m].source>> \in shown

\* A request that nobody disturbs has a revision of its own, which the desired
\* state has as soon as it is published.
Undisturbed(m) ==
  /\ mpc[m] \in {"write", "replace"} => draft[m].source = cap[m].source
  /\ mpc[m] = "replace" => scratch = draft[m]
  /\ Choosing(m) => draft[m].rev > top
  /\ Wishing(m) => /\ draft[m].rev = top
                   /\ desired.rev = top /\ desired.source = cap[m].source
                   /\ Shown(m)
  /\ mpc[m] = "quiet" => <<draft[m].rev, cap[m].source>> \in shown

Tracked(m) ==
  /\ mpc[m] # "rest" => cap[m].source \in Sources
  /\ mpc[m] \in {"revise", "write", "replace", "hold", "await"} => cap[m].from # "samsung"
  /\ mpc[m] \in {"play", "watch", "hush", "overwrite", "quieten"} => cap[m].from = "samsung"
  /\ mpc[m] \in {"write", "replace", "overwrite", "quieten"} => draft[m] \in Real
  /\ alone[m] /\ cap[m].from # "samsung" => Undisturbed(m)

HandoffInv == HandoffTyped /\ RevisionsPast /\ \A m \in Movers : Tracked(m)

LEMMA NotReal == NoDesire \in Wishes /\ NoDesire \notin Real /\ Real \subseteq Wishes
  BY HandoffAssumption DEF NoDesire, Wishes, Real, Actions

LEMMA HandoffInit == MInit => HandoffInv
  BY HandoffAssumption, NotReal
  DEF MInit, HandoffInv, HandoffTyped, MTypeOK, RevisionsPast, Tracked, Undisturbed, Choosing,
      Wishing, NoCharge, NoPost, NoDesire, Charges, Endpoints, Words, MPhases

\* A step of somebody else leaves a request as it is, or disturbs it.
LEMMA MoverStandsBy ==
  ASSUME NEW n \in Movers, Tracked(n),
         mpc'[n] = mpc[n], cap'[n] = cap[n], draft'[n] = draft[n],
         \/ ~alone'[n]
         \/ alone'[n] = alone[n] /\ UNCHANGED <<desired, scratch, top>>,
         UNCHANGED <<receiver, post, status, shown>>
  PROVE  Tracked(n)'
  BY DEF Tracked, Undisturbed, Choosing, Wishing, Shown

\* The requests themselves stay well formed, and so do the wishes.
LEMMA MoversStand ==
  ASSUME UNCHANGED moverVars, UNCHANGED desireVars, UNCHANGED <<receiver, post, status, shown>>
  PROVE  /\ (\A m \in Movers : Tracked(m)) => (\A m \in Movers : Tracked(m)')
         /\ RevisionsPast => RevisionsPast'
  BY DEF moverVars, desireVars, Tracked, Undisturbed, Choosing, Wishing, Shown, RevisionsPast

\* A step of one request.
LEMMA MoverStepKeeps ==
  ASSUME HandoffInv, NEW m \in Movers, MoverStep(m)
  PROVE  HandoffInv'
  <1> USE HandoffAssumption, NotReal DEF HandoffInv, MGoto
  <1> USE DEF deviceVars, desireVars
  <1>n. NoCharge \notin Charges /\ NoCharge.source = NoSource /\ NoCharge.from = "none"
    BY DEF NoCharge, Charges, Endpoints
  <1>s. ASSUME HandoffTyped', RevisionsPast', Tracked(m)',
               UNCHANGED <<receiver, post, status, shown>>,
               \A n \in Movers \ {m} :
                 /\ mpc'[n] = mpc[n] /\ cap'[n] = cap[n] /\ draft'[n] = draft[n]
                 /\ ~alone'[n] \/ (alone'[n] = alone[n] /\ UNCHANGED <<desired, scratch, top>>)
        PROVE  HandoffInv'
    <2>1. ASSUME NEW n \in Movers PROVE Tracked(n)'
      <3>1. CASE n = m
        BY <3>1, <1>s
      <3>2. CASE n # m
        BY <3>2, <1>s, MoverStandsBy
      <3> QED BY <3>1, <3>2
    <2> QED BY <1>s, <2>1
  <1>1. CASE Handoff(m) \/ Resume(m)
    <2>1. PICK c \in [from: Endpoints \cup {"none"}, source: Sources, playing: BOOLEAN, paused: BOOLEAN] :
            /\ cap' = [cap EXCEPT ![m] = c]
            /\ \/ mpc' = [mpc EXCEPT ![m] = "revise"] /\ c.from # "samsung"
               \/ mpc' = [mpc EXCEPT ![m] = "play"] /\ c.from = "samsung"
      <3>1. CASE Handoff(m)
        <4>1. charge \in Charges
          BY <3>1 DEF Handoff, HandoffTyped, MTypeOK
        <4>2. charge \in [from: Endpoints \cup {"none"}, source: Sources, playing: BOOLEAN, paused: BOOLEAN]
              /\ charge.from \in {"tv", "samsung"}
          BY <4>1 DEF Charges, Endpoints
        <4>3. cap' = [cap EXCEPT ![m] = charge]
              /\ mpc' = [mpc EXCEPT ![m] = IF charge.from = "tv" THEN "revise" ELSE "play"]
          BY <3>1 DEF Handoff
        <4> QED BY <4>2, <4>3
      <3>2. CASE Resume(m)
        <4>1. PICK x \in Sources : cap' = [cap EXCEPT ![m] = [NoCharge EXCEPT !.source = x]]
          BY <3>2 DEF Resume
        <4>2. [NoCharge EXCEPT !.source = x] \in
                [from: Endpoints \cup {"none"}, source: Sources, playing: BOOLEAN, paused: BOOLEAN]
              /\ [NoCharge EXCEPT !.source = x].from = "none"
          BY DEF NoCharge
        <4> QED BY <3>2, <4>1, <4>2 DEF Resume
      <3> QED BY <1>1, <3>1, <3>2
    <2>2. moves' \in 0..MaxMoves /\ UNCHANGED <<charge, deviceVars, desireVars, draft>>
      BY <1>1 DEF Handoff, Resume, Move, HandoffTyped, MTypeOK
    <2>3. HandoffTyped'
      BY <2>1, <2>2 DEF HandoffTyped, MTypeOK, MPhases
    <2>4. Tracked(m)'
      BY <2>1, <2>2 DEF Tracked, Undisturbed, Choosing, Wishing, HandoffTyped, MTypeOK
    <2>5. RevisionsPast'
      BY <2>2 DEF RevisionsPast
    <2>6. \A n \in Movers \ {m} : mpc'[n] = mpc[n] /\ cap'[n] = cap[n] /\ draft'[n] = draft[n]
      BY <2>1, <2>2 DEF HandoffTyped, MTypeOK
    <2> QED BY <2>2, <2>3, <2>4, <2>5, <2>6, <1>s
  <1>2. CASE Revise(m)
    <2>1. PICK d \in {desired.rev, 0}, s \in {status.rev, 0} :
            LET next == Greater(d, s) + 1
            IN /\ next <= MaxRevision
               /\ draft' = [draft EXCEPT ![m] =
                              [rev |-> next, source |-> cap[m].source, action |-> "play"]]
               /\ alone' = [alone EXCEPT ![m] = next > top]
      BY <1>2 DEF Revise
    <2> DEFINE next == Greater(d, s) + 1
               wish == [rev |-> next, source |-> cap[m].source, action |-> "play"]
    <2>2. next \in 1..MaxRevision
      BY <2>1 DEF HandoffTyped, MTypeOK, Greater, Wishes
    <2>3. /\ mpc[m] = "revise" /\ mpc' = [mpc EXCEPT ![m] = "write"]
          /\ UNCHANGED <<charge, deviceVars, desired, scratch, top, cap, moves>>
      BY <1>2 DEF Revise
    <2>4. cap[m].source \in Sources /\ cap[m].from # "samsung"
      BY <2>3 DEF Tracked
    <2>5. draft' = [draft EXCEPT ![m] = wish] /\ alone' = [alone EXCEPT ![m] = next > top]
      BY <2>1
    <2> HIDE DEF next
    <2>6. wish \in Real
      BY <2>2, <2>4 DEF Real, Wishes, Actions
    <2>7. HandoffTyped'
      BY <2>3, <2>5, <2>6 DEF HandoffTyped, MTypeOK, MPhases
    <2>8. draft'[m] = wish /\ alone'[m] = (next > top) /\ mpc'[m] = "write"
      BY <2>3, <2>5 DEF HandoffTyped, MTypeOK
    <2>9. Tracked(m)'
      <3>1. cap' = cap /\ top' = top
        BY <2>3
      <3>2. wish.source = cap[m].source /\ wish.action = "play" /\ wish.rev = next
        OBVIOUS
      <3> HIDE DEF wish
      <3> QED BY <2>4, <2>6, <2>8, <3>1, <3>2 DEF Tracked, Undisturbed, Choosing, Wishing
    <2>10. RevisionsPast'
      BY <2>3 DEF RevisionsPast
    <2> QED BY <2>3, <2>5, <2>7, <2>9, <2>10, <1>s DEF HandoffTyped, MTypeOK
  <1>3. CASE WriteDraft(m, "write", "replace") \/ WriteDraft(m, "overwrite", "quieten")
    <2>1. /\ \/ mpc[m] = "write" /\ mpc' = [mpc EXCEPT ![m] = "replace"]
             \/ mpc[m] = "overwrite" /\ mpc' = [mpc EXCEPT ![m] = "quieten"]
          /\ scratch' = draft[m]
          /\ alone' = [n \in Movers |-> alone[n] /\ n = m]
          /\ UNCHANGED <<charge, deviceVars, desired, top, cap, draft, moves>>
      BY <1>3 DEF WriteDraft, Disturb
    <2>2. draft[m] \in Real
      BY <2>1 DEF Tracked
    <2>3. HandoffTyped'
      BY <2>1, <2>2 DEF HandoffTyped, MTypeOK, MPhases
    <2>4. mpc'[m] \in {"replace", "quieten"} /\ alone'[m] => alone[m]
      BY <2>1
    <2>5. Tracked(m)'
      BY <2>1, <2>2, <2>4 DEF Tracked, Undisturbed, Choosing, Wishing, Shown, HandoffTyped, MTypeOK
    <2>6. RevisionsPast'
      BY <2>1 DEF RevisionsPast
    <2> QED BY <2>1, <2>3, <2>5, <2>6, <1>s DEF HandoffTyped, MTypeOK
  <1>4. CASE ReplaceDesired(m)
    <2>1. /\ mpc[m] \in {"replace", "quieten"} /\ scratch \in Real
          /\ desired' = scratch /\ scratch' = NoDesire
          /\ top' = Greater(top, scratch.rev)
          /\ alone' = [n \in Movers |-> alone[n] /\ n = m]
          /\ UNCHANGED <<charge, deviceVars, moves>>
      BY <1>4 DEF ReplaceDesired, Disturb, HandoffTyped
    <2>2. \/ /\ mpc' = [mpc EXCEPT ![m] = "rest"]
             /\ cap' = [cap EXCEPT ![m] = NoCharge]
             /\ draft' = [draft EXCEPT ![m] = NoDesire]
          \/ /\ mpc[m] = "quieten" /\ mpc' = [mpc EXCEPT ![m] = "settle"]
             /\ UNCHANGED <<cap, draft>>
          \/ /\ mpc[m] = "replace" /\ mpc' = [mpc EXCEPT ![m] = "hold"]
             /\ draft[m].action = "play"
             /\ UNCHANGED <<cap, draft>>
          \/ /\ mpc[m] = "replace" /\ mpc' = [mpc EXCEPT ![m] = "await"]
             /\ UNCHANGED <<cap, draft>>
      BY <1>4 DEF ReplaceDesired, Rest
    <2>3. top' \in 0..MaxRevision /\ top' >= top /\ top' >= scratch.rev
          /\ (scratch.rev >= top => top' = scratch.rev)
      BY <2>1 DEF Greater, HandoffTyped, MTypeOK, Real, Wishes
    <2>4. HandoffTyped'
      <3>1. mpc' \in [Movers -> MPhases] /\ draft' \in [Movers -> Wishes]
        BY <2>2 DEF HandoffTyped, MTypeOK, MPhases
      <3>2. cap' \in [Movers -> [from: Endpoints \cup {"none"}, source: Sources \cup {NoSource},
                                 playing: BOOLEAN, paused: BOOLEAN]]
        <4>1. CASE cap' = cap
          BY <4>1 DEF HandoffTyped
        <4>2. CASE cap' = [cap EXCEPT ![m] = NoCharge]
          BY <4>2 DEF HandoffTyped, NoCharge
        <4> QED BY <2>2, <4>1, <4>2
      <3>3. {desired', scratch'} \subseteq Real \cup {NoDesire} /\ {desired', scratch'} \subseteq Wishes
        BY <2>1
      <3>4. alone' \in [Movers -> BOOLEAN]
        BY <2>1, <2>2 DEF HandoffTyped, MTypeOK
      <3>5. charge' = charge /\ tv' = tv /\ post' = post /\ status' = status /\ receiver' = receiver
            /\ moves' = moves
        BY <2>1
      <3> QED BY <2>3, <3>1, <3>2, <3>3, <3>4, <3>5 DEF HandoffTyped, MTypeOK
    <2>5. RevisionsPast'
      BY <2>1, <2>3 DEF RevisionsPast, HandoffTyped, MTypeOK, Wishes, Real
    <2>6. ASSUME alone'[m], cap'[m].from # "samsung", mpc'[m] # "rest"
          PROVE  Undisturbed(m)'
      <3>1. /\ mpc[m] = "replace" /\ mpc'[m] \in {"hold", "await"}
            /\ cap'[m] = cap[m] /\ draft'[m] = draft[m] /\ cap[m].from # "samsung" /\ alone[m]
        BY <2>1, <2>2, <2>6 DEF HandoffTyped, MTypeOK, Tracked
      <3>2. Undisturbed(m)
        BY <3>1 DEF Tracked
      <3>3. scratch = draft[m] /\ draft[m].source = cap[m].source /\ draft[m].rev \in Nat /\ top \in Nat
        BY <3>1, <3>2 DEF Undisturbed, HandoffTyped, MTypeOK, Wishes
      <3>4. CASE draft[m].action = "play"
        <4>1. draft[m].rev > top
          BY <3>1, <3>2, <3>4 DEF Undisturbed, Choosing
        <4>2. top' = draft[m].rev
          BY <2>3, <3>3, <4>1
        <4>3. top' \notin {receiver.rev, post.rev, status.rev}
          BY <4>1, <4>2, <3>3 DEF RevisionsPast, HandoffTyped, MTypeOK
        <4> QED BY <2>1, <3>1, <3>3, <4>2, <4>3 DEF Undisturbed, Choosing, Wishing, Shown
      <3>5. CASE draft[m].action # "play"
        <4>1. draft[m].action = "pause"
          BY <3>5 DEF HandoffTyped, MTypeOK, Wishes, Actions
        <4>2. draft[m].rev = top /\ desired.source = cap[m].source /\ Shown(m)
          BY <4>1, <3>1, <3>2 DEF Undisturbed, Wishing
        <4>3. top' = top
          BY <2>3, <3>3, <4>2
        <4> QED BY <2>1, <3>1, <3>3, <4>2, <4>3 DEF Undisturbed, Choosing, Wishing, Shown
      <3> QED BY <3>4, <3>5
    <2>7. Tracked(m)'
      <3>1. CASE mpc'[m] = "rest"
        BY <3>1 DEF Tracked, Undisturbed, Choosing, Wishing
      <3>2. CASE mpc'[m] # "rest"
        <4>1. /\ mpc'[m] \in {"hold", "await", "settle"} /\ mpc[m] # "rest" /\ cap'[m] = cap[m]
              /\ mpc'[m] # "settle" => mpc[m] = "replace"
          BY <2>1, <2>2, <3>2 DEF HandoffTyped, MTypeOK
        <4> QED BY <4>1, <3>2, <2>6 DEF Tracked
      <3> QED BY <3>1, <3>2
    <2>8. \A n \in Movers \ {m} : /\ mpc'[n] = mpc[n] /\ cap'[n] = cap[n] /\ draft'[n] = draft[n]
                                  /\ ~alone'[n]
      BY <2>1, <2>2 DEF HandoffTyped, MTypeOK
    <2> QED BY <2>1, <2>4, <2>5, <2>7, <2>8, <1>s
  <1>5. CASE Hold(m)
    <2>1. /\ draft' = [draft EXCEPT ![m] = [desired EXCEPT !.action = "pause"]]
          /\ \/ mpc[m] = "hold" /\ mpc' = [mpc EXCEPT ![m] = "write"]
             \/ mpc[m] = "hush" /\ mpc' = [mpc EXCEPT ![m] = "overwrite"]
          /\ desired \in Real
          /\ UNCHANGED <<charge, deviceVars, desireVars, cap, moves>>
      BY <1>5 DEF Hold, HandoffTyped
    <2>2. [desired EXCEPT !.action = "pause"] \in Real
      BY <2>1 DEF Real, Wishes, Actions
    <2>3. HandoffTyped'
      BY <2>1, <2>2 DEF HandoffTyped, MTypeOK, MPhases
    <2>4. /\ draft'[m].rev = desired.rev /\ draft'[m].source = desired.source
          /\ draft'[m].action = "pause" /\ draft'[m] \in Real
      BY <2>1, <2>2 DEF HandoffTyped, MTypeOK, Real, Wishes
    <2>5. mpc'[m] \in {"write", "overwrite"}
          /\ (mpc'[m] = "write" => mpc[m] = "hold") /\ (mpc'[m] = "overwrite" => mpc[m] = "hush")
      BY <2>1 DEF HandoffTyped, MTypeOK
    <2>6. Tracked(m)'
      BY <2>1, <2>4, <2>5 DEF Tracked, Undisturbed, Choosing, Wishing, Shown
    <2>7. RevisionsPast'
      BY <2>1 DEF RevisionsPast
    <2> QED BY <2>1, <2>3, <2>6, <2>7, <1>s DEF HandoffTyped, MTypeOK
  <1>6. CASE Await(m)
    <2>1. /\ mpc[m] = "await" /\ mpc' = [mpc EXCEPT ![m] = "quiet"]
          /\ status.rev >= draft[m].rev
          /\ UNCHANGED <<charge, deviceVars, desireVars, cap, draft, moves>>
      BY <1>6 DEF Await, Verified
    <2>2. HandoffTyped' /\ mpc'[m] = "quiet"
      BY <2>1 DEF HandoffTyped, MTypeOK, MPhases
    <2>3. ASSUME alone[m], cap[m].from # "samsung" PROVE Undisturbed(m)'
      <3>1. Undisturbed(m) /\ Wishing(m)
        BY <2>1, <2>3 DEF Tracked, Wishing
      <3>2. draft[m].rev = top
        BY <3>1 DEF Undisturbed
      <3>3. status.rev \in Nat /\ top \in Nat
        BY HandoffAssumption DEF HandoffTyped, MTypeOK
      <3>4. status.rev <= top
        BY DEF RevisionsPast
      <3>5. status.rev >= top
        BY <2>1, <3>2
      <3>6. status.rev = top
        BY <3>3, <3>4, <3>5
      <3> QED BY <2>1, <2>2, <3>1, <3>2, <3>6 DEF Undisturbed, Choosing, Wishing, Shown
    <2>4. Tracked(m)'
      BY <2>1, <2>2, <2>3 DEF Tracked
    <2>5. RevisionsPast'
      BY <2>1 DEF RevisionsPast
    <2> QED BY <2>1, <2>2, <2>4, <2>5, <1>s DEF HandoffTyped, MTypeOK
  <1>7. CASE PlayOnTv(m) \/ Watch(m)
    <2>1. /\ \/ mpc[m] = "play" /\ mpc' = [mpc EXCEPT ![m] = "watch"]
             \/ mpc[m] = "watch" /\ mpc' = [mpc EXCEPT ![m] = "quiet"]
          /\ UNCHANGED <<charge, receiver, post, status, shown, desireVars, cap, draft, moves>>
      BY <1>7 DEF PlayOnTv, Watch
    <2>2. cap[m].source \in Sources /\ cap[m].from = "samsung"
      BY <2>1 DEF Tracked
    <2>3. tv' \in [source: Sources, playing: BOOLEAN]
      <3>1. CASE PlayOnTv(m)
        <4>1. tv' = [source |-> cap[m].source, playing |-> ~cap[m].paused]
          BY <3>1 DEF PlayOnTv
        <4>2. (~cap[m].paused) \in BOOLEAN
          OBVIOUS
        <4> QED BY <4>1, <4>2, <2>2
      <3>2. CASE Watch(m)
        BY <3>2 DEF Watch, HandoffTyped, MTypeOK
      <3> QED BY <1>7, <3>1, <3>2
    <2>4. HandoffTyped' /\ mpc'[m] \in {"watch", "quiet"}
      BY <2>1, <2>3 DEF HandoffTyped, MTypeOK, MPhases
    <2>5. Tracked(m)'
      BY <2>1, <2>2, <2>4 DEF Tracked
    <2>6. RevisionsPast'
      BY <2>1 DEF RevisionsPast
    <2> QED BY <2>1, <2>4, <2>5, <2>6, <1>s DEF HandoffTyped, MTypeOK
  <1>8. CASE GiveUp(m) \/ Settle(m)
    <2>1. /\ mpc' = [mpc EXCEPT ![m] = "rest"] /\ cap' = [cap EXCEPT ![m] = NoCharge]
          /\ draft' = [draft EXCEPT ![m] = NoDesire]
          /\ alone' = [alone EXCEPT ![m] = FALSE]
          /\ charge' \in {charge, NoCharge}
          /\ UNCHANGED <<deviceVars, desired, scratch, top, moves>>
      BY <1>8 DEF GiveUp, Settle, Rest
    <2>2. cap' \in [Movers -> [from: Endpoints \cup {"none"}, source: Sources \cup {NoSource},
                               playing: BOOLEAN, paused: BOOLEAN]]
      BY <2>1 DEF HandoffTyped, NoCharge
    <2>3. HandoffTyped' /\ mpc'[m] = "rest"
      BY <2>1, <2>2 DEF HandoffTyped, MTypeOK, MPhases
    <2>4. Tracked(m)'
      BY <2>3 DEF Tracked, Undisturbed, Choosing, Wishing
    <2>5. RevisionsPast'
      BY <2>1 DEF RevisionsPast
    <2> QED BY <2>1, <2>3, <2>4, <2>5, <1>s DEF HandoffTyped, MTypeOK
  <1>9. CASE Quiet(m)
    <2>1. /\ mpc[m] = "quiet"
          /\ \/ mpc' = [mpc EXCEPT ![m] = "hush"] /\ cap[m].from = "samsung"
             \/ mpc' = [mpc EXCEPT ![m] = "settle"]
          /\ UNCHANGED <<charge, receiver, post, status, shown, desireVars, cap, draft, moves>>
      BY <1>9 DEF Quiet
    <2>2. tv' \in [source: Sources, playing: BOOLEAN]
      BY <1>9 DEF Quiet, HandoffTyped, MTypeOK
    <2>3. HandoffTyped' /\ mpc'[m] \in {"hush", "settle"} /\ (mpc'[m] = "hush" => cap[m].from = "samsung")
      BY <2>1, <2>2 DEF HandoffTyped, MTypeOK, MPhases
    <2>4. Tracked(m)'
      BY <2>1, <2>3 DEF Tracked, Undisturbed, Choosing, Wishing
    <2>5. RevisionsPast'
      BY <2>1 DEF RevisionsPast
    <2> QED BY <2>1, <2>3, <2>4, <2>5, <1>s DEF HandoffTyped, MTypeOK
  <1> QED BY <1>1, <1>2, <1>3, <1>4, <1>5, <1>6, <1>7, <1>8, <1>9 DEF MoverStep

LEMMA HandoffStep == HandoffInv /\ [MNext]_mediaVars => HandoffInv'
  <1> SUFFICES ASSUME HandoffInv, [MNext]_mediaVars PROVE HandoffInv'
    OBVIOUS
  <1> USE HandoffAssumption DEF HandoffInv
  <1>1. ASSUME NEW m \in Movers, MoverStep(m) PROVE HandoffInv'
    BY <1>1, MoverStepKeeps
  <1>2. CASE Capture \/ LetGo \/ Zap
    <2>1. UNCHANGED moverVars /\ UNCHANGED desireVars /\ UNCHANGED <<receiver, post, status, shown>>
      BY <1>2 DEF Capture, LetGo, Zap, deviceVars
    <2>2. charge' \in Charges \cup {NoCharge}
      <3>1. desired.source # NoSource => desired.source \in Sources
        <4>1. desired \in Wishes
          BY DEF HandoffTyped, MTypeOK
        <4> QED BY <4>1 DEF Wishes
      <3>2. tv.source \in Sources /\ tv.playing \in BOOLEAN
        BY DEF HandoffTyped, MTypeOK
      <3>3. CASE Capture
        <4>1. \A e \in Endpoints, x \in Sources, a, b \in BOOLEAN :
                [from |-> e, source |-> x, playing |-> a, paused |-> b] \in Charges
          BY DEF Charges
        <4>2. CASE charge' = [from |-> "tv", source |-> tv.source,
                              playing |-> tv.playing, paused |-> ~tv.playing]
          BY <4>1, <4>2, <3>2 DEF Endpoints
        <4>3. CASE /\ desired.source # NoSource
                   /\ charge' = [from |-> "samsung", source |-> desired.source,
                                 playing |-> IF status.playing = "unknown"
                                             THEN desired.action = "play"
                                             ELSE status.playing = "yes",
                                 paused |-> desired.action = "pause"]
          <5>1. (IF status.playing = "unknown" THEN desired.action = "play"
                 ELSE status.playing = "yes") \in BOOLEAN
                /\ (desired.action = "pause") \in BOOLEAN
            OBVIOUS
          <5> QED BY <4>1, <4>3, <5>1, <3>1 DEF Endpoints
        <4> QED BY <3>3, <4>2, <4>3 DEF Capture
      <3>4. CASE LetGo \/ Zap
        BY <3>4 DEF LetGo, Zap, HandoffTyped, MTypeOK
      <3> QED BY <1>2, <3>3, <3>4
    <2>3. tv' \in [source: Sources, playing: BOOLEAN]
      <3>1. CASE Zap
        BY <3>1 DEF Zap
      <3>2. CASE Capture \/ LetGo
        BY <3>2 DEF Capture, LetGo, deviceVars, HandoffTyped, MTypeOK
      <3> QED BY <1>2, <3>1, <3>2
    <2>4. HandoffTyped'
      BY <2>1, <2>2, <2>3 DEF HandoffTyped, MTypeOK, moverVars, desireVars
    <2> QED BY <2>1, <2>4, MoversStand
  <1>3. CASE Poll
    <2>1. desired \in Real
      BY <1>3 DEF Poll, HandoffTyped
    <2>2. /\ receiver' = [rev |-> desired.rev,
                          source |-> IF desired.rev # receiver.rev THEN desired.source
                                     ELSE receiver.source,
                          playing |-> desired.action = "play"]
          /\ shown' = shown \cup {<<receiver'.rev, receiver'.source>>}
          /\ UNCHANGED <<charge, tv, post, status, desireVars, moverVars>>
      BY <1>3 DEF Poll
    <2>3. receiver'.rev = desired.rev
          /\ (desired.rev # receiver.rev => <<desired.rev, desired.source>> \in shown')
          /\ shown \subseteq shown'
      BY <2>2
    <2>4. HandoffTyped'
      <3>1. receiver' \in [rev: 0..MaxRevision, source: Sources \cup {NoSource}, playing: BOOLEAN]
        BY <2>1, <2>2 DEF HandoffTyped, MTypeOK, Real, Wishes
      <3> QED BY <2>2, <3>1 DEF HandoffTyped, MTypeOK, moverVars, desireVars
    <2>5. RevisionsPast'
      BY <2>2, <2>3 DEF RevisionsPast, desireVars
    <2>6. ASSUME NEW m \in Movers PROVE Tracked(m)'
      <3>1. Undisturbed(m) => Undisturbed(m)'
        BY <2>2, <2>3 DEF Undisturbed, Choosing, Wishing, Shown, moverVars, desireVars
      <3> QED BY <2>2, <3>1 DEF Tracked, moverVars, desireVars
    <2> QED BY <2>4, <2>5, <2>6
  <1>4. CASE Send \/ Receive
    <2>1. /\ UNCHANGED moverVars /\ UNCHANGED desireVars /\ UNCHANGED <<charge, tv, receiver, shown>>
          /\ \/ post'.rev = receiver.rev /\ status' = status
             \/ status'.rev = post.rev /\ post'.rev = 0
      BY <1>4 DEF Send, Receive, NoPost
    <2>2. post' \in [rev: 0..MaxRevision, clip: BOOLEAN, playing: Words \cup {"same"}]
      <3>1. CASE Send
        <4>1. PICK word \in {"yes", "no", "same", "unknown"} :
                post' = [rev |-> receiver.rev, clip |-> receiver.source \in Clips, playing |-> word]
          BY <3>1 DEF Send
        <4>2. receiver.rev \in 0..MaxRevision /\ (receiver.source \in Clips) \in BOOLEAN
          BY DEF HandoffTyped
        <4> QED BY <4>1, <4>2 DEF Words
      <3>2. CASE Receive
        BY <3>2 DEF Receive, NoPost, Words
      <3> QED BY <1>4, <3>1, <3>2
    <2>3. status' \in [rev: 0..MaxRevision, clip: BOOLEAN, playing: Words]
      <3>1. CASE Send
        BY <3>1 DEF Send, HandoffTyped, MTypeOK
      <3>2. CASE Receive
        <4>1. PICK c \in {post.clip, status.clip} :
                status' = [rev |-> post.rev, clip |-> c,
                           playing |-> IF post.playing = "same"
                                          \/ (post.playing = "unknown" /\ post.rev = status.rev)
                                       THEN status.playing ELSE post.playing]
          BY <3>2 DEF Receive
        <4>2. post.rev \in 0..MaxRevision /\ {post.clip, status.clip} \subseteq BOOLEAN
              /\ status.playing \in Words /\ (post.playing # "same" => post.playing \in Words)
          BY DEF HandoffTyped, MTypeOK
        <4> QED BY <4>1, <4>2
      <3> QED BY <1>4, <3>1, <3>2
    <2>4. HandoffTyped'
      BY <2>1, <2>2, <2>3 DEF HandoffTyped, MTypeOK, moverVars, desireVars
    <2>5. RevisionsPast'
      BY <2>1 DEF RevisionsPast, desireVars, HandoffTyped, MTypeOK
    <2>6. ASSUME NEW m \in Movers PROVE Tracked(m)'
      <3>1. top # 0 => (Shown(m) => Shown(m)')
        BY <2>1 DEF Shown, moverVars, desireVars
      <3>2. Wishing(m) /\ Undisturbed(m) => desired.rev = top /\ desired.source = cap[m].source
        BY DEF Undisturbed
      <3>3. Wishing(m) /\ Undisturbed(m) /\ mpc[m] # "rest" /\ cap[m].source \in Sources => top # 0
        BY <3>2 DEF HandoffTyped, Real, NoDesire
      <3>4. mpc[m] # "rest" /\ cap[m].source \in Sources /\ Undisturbed(m) => Undisturbed(m)'
        BY <2>1, <3>1, <3>3 DEF Undisturbed, Choosing, Wishing, moverVars, desireVars
      <3>5. mpc[m] = "rest" => Undisturbed(m)'
        BY <2>1 DEF Undisturbed, Choosing, Wishing, moverVars
      <3> QED BY <2>1, <3>4, <3>5 DEF Tracked, moverVars, desireVars
    <2> QED BY <2>4, <2>5, <2>6
  <1>5. CASE UNCHANGED mediaVars
    <2>1. UNCHANGED moverVars /\ UNCHANGED desireVars /\ UNCHANGED deviceVars /\ charge' = charge
      BY <1>5 DEF mediaVars
    <2>2. HandoffTyped'
      BY <2>1 DEF HandoffTyped, MTypeOK, moverVars, desireVars, deviceVars
    <2> QED BY <2>1, <2>2, MoversStand DEF deviceVars
  <1> QED BY <1>1, <1>2, <1>3, <1>4, <1>5 DEF MNext

LEMMA HandoffSteps == [ANext]_appVars => [MNext]_mediaVars
  BY DEF ANext, appVars, mediaVars, Follow

\* A hand-off to the receiver pauses its source only after the receiver has
\* applied this revision with this source, for any requests, sources and
\* revisions, as long as nobody else writes the desired state meanwhile.
THEOREM HandoffPausesMoved == ASpec => []MovedBeforePaused
  <1>1. AInit => HandoffInv
    BY HandoffInit DEF AInit
  <1>2. HandoffInv /\ [ANext]_appVars => HandoffInv'
    BY HandoffSteps, HandoffStep
  <1>3. HandoffInv => MovedBeforePaused
    BY DEF HandoffInv, Tracked, Undisturbed, MovedBeforePaused
  <1> QED BY <1>1, <1>2, <1>3, PTL DEF ASpec

-----------------------------------------------------------------------------
(* The state of all four parts is well formed. *)

\* The history lock is held by a request that writes, until it is over.
HeldInv == hlock # NoHolder => hlock \in Requests /\ hpc[hlock] # "rest" /\ hwork[hlock] # "read"

LEMMA HeldStep == StoreTyped /\ HeldInv /\ [HNext]_historyVars => HeldInv'
  <1> SUFFICES ASSUME StoreTyped, HeldInv, [HNext]_historyVars PROVE HeldInv'
    OBVIOUS
  <1> USE HistoryAssumption, Writing DEF HeldInv, StoreTyped
  <1>1. ASSUME NEW t \in Requests, Begin(t) PROVE HeldInv'
    <2>1. CASE hlock' = t /\ hwork'[t] # "read" /\ hpc'[t] # "rest"
      BY <2>1
    <2>2. CASE hlock' = hlock
      <3>1. hlock # t /\ hpc' = [hpc EXCEPT ![t] = "sign"]
        BY <1>1 DEF Begin, HGoto
      <3>2. \A r \in Requests \ {t} : hwork'[r] = hwork[r]
        BY <1>1 DEF Begin
      <3> QED BY <2>2, <3>1, <3>2
    <2> QED BY <1>1, <2>1, <2>2 DEF Begin, HGoto
  <1>2. ASSUME NEW t \in Requests,
               Sign(t) \/ Get(t) \/ LoadFile(t) \/ CheckSign(t) \/ Bind(t) \/ Write(t)
        PROVE  HeldInv'
    BY <1>2 DEF Sign, Get, LoadFile, CheckSign, Bind, Write, HGoto
  <1>3. ASSUME NEW t \in Requests, Answer(t) \/ Wrote(t) PROVE HeldInv'
    <2>1. \A r \in Requests \ {t} : hpc'[r] = hpc[r] /\ hwork'[r] = hwork[r]
      BY <1>3 DEF Answer, Wrote, Finish, HGoto
    <2>2. hlock' # t /\ (hlock' = hlock \/ hlock' = NoHolder)
      BY <1>3 DEF Answer, Wrote
    <2> QED BY <2>1, <2>2
  <1>4. CASE SnapshotRead \/ SnapshotWrite
    BY <1>4 DEF SnapshotRead, SnapshotWrite, Finish, HGoto
  <1>5. CASE Outside \/ UNCHANGED historyVars
    BY <1>5 DEF Outside, historyVars
  <1> QED BY <1>1, <1>2, <1>3, <1>4, <1>5 DEF HNext

LEMMA HistoryTypes == StoreTyped /\ HeldInv => HTypeOK
  BY DEF StoreTyped, HeldInv, HTypeOK, Contents, Signs

\* A confirmation has a copy of a job that was saved.
Handlings == [at: Calls, job: Jobs \cup {"none"}, copy: Files \cup {NoFile}]
AskersFine ==
  /\ handling \in [Askers -> Handlings]
  /\ \A t \in Askers :
       /\ handling[t].at # "rest" => handling[t].job \in Jobs
       /\ handling[t].at \in {"register", "confirm"} => handling[t].copy \in Files
ResolversFine ==
  /\ running \in [Resolvers -> Handlings]
  /\ \A w \in Resolvers : running[w] # Idle => running[w].job \in Jobs
FilesFine == {file, temp} \subseteq [Jobs -> Files \cup {NoFile}]
JobsTyped ==
  AskersFine /\ ResolversFine /\ FilesFine
  /\ waiting \in [Jobs -> Nat] /\ registry \in BOOLEAN /\ lost \subseteq Jobs

LEMMA JobTypesInit == RInit => JobsTyped
  BY DEF RInit, JobsTyped, AskersFine, ResolversFine, FilesFine, Handlings, Idle, Calls

LEMMA JobTypesStep == JobsTyped /\ [RNext]_jobVars => JobsTyped'
  <1> SUFFICES ASSUME JobsTyped, [RNext]_jobVars PROVE JobsTyped'
    OBVIOUS
  <1> USE DEF JobsTyped
  <1>r. ASSUME NEW c \in Files \cup {NoFile}
        PROVE  /\ [c EXCEPT !.status = "resolving", !.sources = FALSE] \in Files
               /\ [c EXCEPT !.status = "error"] \in Files
               /\ \A s \in SiteStates : [status |-> "ready", sources |-> TRUE, site |-> s] \in Files
               /\ c.site \in SiteStates
    <2>1. NoFile \in [status: {"none"}, site: SiteStates, sources: BOOLEAN]
      BY DEF NoFile, SiteStates
    <2>2. c \in [status: {"resolving", "ready", "error", "none"}, site: SiteStates, sources: BOOLEAN]
      BY <2>1 DEF Files
    <2> QED BY <2>2 DEF Files
  <1>s. ASSUME NEW c \in Files PROVE [c EXCEPT !.site = "confirmed"] \in Files
    BY DEF Files, SiteStates
  <1>i. Idle \in Handlings /\ Idle.at = "rest"
    BY DEF Idle, Handlings, Calls
  <1>h. ASSUME NEW t \in Askers, NEW call \in Calls, NEW j \in Jobs, NEW c \in Files \cup {NoFile},
               call \in {"register", "confirm"} => c \in Files, Now(t, call, j, c)
        PROVE  AskersFine'
    <2>1. [at |-> call, job |-> j, copy |-> c] \in Handlings
      BY DEF Handlings
    <2> QED BY <1>h, <2>1 DEF AskersFine, Now
  <1>d. ASSUME NEW t \in Askers, Done(t) PROVE AskersFine'
    BY <1>d, <1>i DEF AskersFine, Done
  <1>w. ASSUME NEW j \in Jobs, NEW c \in Files \cup {NoFile}, WriteTemp(j, c) PROVE FilesFine'
    BY <1>w DEF WriteTemp, FilesFine
  <1>p. ASSUME NEW j \in Jobs, ReplaceFile(j) PROVE FilesFine'
    BY <1>p DEF ReplaceFile, FilesFine
  <1>v. ASSUME NEW t \in Askers, NEW j \in Jobs, NEW c \in Files \cup {NoFile}, Save(t, j, c)
        PROVE  AskersFine' /\ FilesFine'
    BY <1>v, <1>h, <1>w DEF Save, Calls
  <1>j. \A t \in Askers : handling[t].at # "rest" => handling[t].job \in Jobs
    BY DEF AskersFine
  <1>c. \A t \in Askers : handling[t].copy \in Files \cup {NoFile}
    BY DEF AskersFine, Handlings
  <1>f. \A j \in Jobs : file[j] \in Files \cup {NoFile}
    BY DEF FilesFine
  <1>u. UNCHANGED fileVars => FilesFine'
    BY DEF fileVars, FilesFine
  <1>x. (running' = running => ResolversFine') /\ (handling' = handling => AskersFine')
    BY DEF ResolversFine, AskersFine
  <1>1. ASSUME NEW t \in Askers, NEW j \in Jobs, Share(t, j) PROVE JobsTyped'
    <2>1. PICK s \in {"confirmed", "unknown"} :
            Save(t, j, [status |-> "resolving", sources |-> FALSE, site |-> s])
      BY <1>1 DEF Share
    <2>2. [status |-> "resolving", sources |-> FALSE, site |-> s] \in Files
      BY DEF Files, SiteStates
    <2> QED BY <1>1, <2>1, <2>2, <1>v, <1>x DEF Share
  <1>2. ASSUME NEW t \in Askers, NEW j \in Jobs, AskAgain(t, j) \/ AskConfirm(t, j) PROVE JobsTyped'
    <2>1. AskConfirm(t, j) => file[j] \in Files
      BY <1>f DEF AskConfirm, NoFile
    <2>2. AskersFine'
      BY <1>2, <2>1, <1>f, <1>h DEF AskAgain, AskConfirm, Calls
    <2> QED BY <1>2, <2>2, <1>u, <1>x DEF AskAgain, AskConfirm
  <1>3. ASSUME NEW t \in Askers, Submit(t) PROVE JobsTyped'
    <2>1. waiting' \in [Jobs -> Nat]
      <3>1. \A j \in Jobs : waiting'[j] \in {waiting[j], waiting[j] + 1}
        BY <1>3 DEF Submit
      <3>2. waiting' = [j \in Jobs |-> waiting'[j]]
        BY <1>3 DEF Submit
      <3> QED BY <3>1, <3>2
    <2> QED BY <1>3, <2>1, <1>d, <1>u, <1>x DEF Submit
  <1>4. ASSUME NEW t \in Askers, SaveAgain(t) \/ SaveConfirmed(t) PROVE JobsTyped'
    <2>1. /\ handling[t].job \in Jobs
          /\ [handling[t].copy EXCEPT !.status = "resolving", !.sources = FALSE] \in Files
      BY <1>4, <1>j, <1>c, <1>r DEF SaveAgain, SaveConfirmed
    <2>2. SaveConfirmed(t) => [handling[t].copy EXCEPT !.site = "confirmed"] \in Files
      BY <1>s DEF SaveConfirmed, AskersFine
    <2> QED BY <1>4, <2>1, <2>2, <1>v, <1>x DEF SaveAgain, SaveConfirmed
  <1>5. ASSUME NEW t \in Askers, Register(t) PROVE JobsTyped'
    <2>1. handling[t].job \in Jobs /\ handling[t].copy \in Files
      BY <1>5 DEF Register, AskersFine
    <2> QED BY <1>5, <2>1, <1>h, <1>u, <1>x DEF Register, Calls
  <1>6. ASSUME NEW t \in Askers, Saved(t) PROVE JobsTyped'
    <2>1. handling[t].job \in Jobs
      BY <1>6, <1>j DEF Saved
    <2>2. AskersFine'
      BY <1>6, <2>1, <1>h, <1>d DEF Saved, Calls
    <2> QED BY <1>6, <2>1, <2>2, <1>p, <1>x DEF Saved
  <1>7. ASSUME NEW t \in Askers, Raise(t) PROVE JobsTyped'
    <2>1. handling[t].job \in Jobs
      BY <1>7, <1>j DEF Raise
    <2> QED BY <1>7, <2>1, <1>d, <1>u, <1>x DEF Raise
  <1>8. ASSUME NEW w \in Resolvers, NEW j \in Jobs, Take(w, j) PROVE JobsTyped'
    <2>1. waiting' \in [Jobs -> Nat]
      BY <1>8 DEF Take
    <2>2. [at |-> "resolve", job |-> j, copy |-> file[j]] \in Handlings
      BY <1>f DEF Handlings, Calls
    <2>3. ResolversFine'
      BY <1>8, <2>2 DEF Take, ResolversFine
    <2> QED BY <1>8, <2>1, <2>3, <1>u, <1>x DEF Take
  <1>9. ASSUME NEW w \in Resolvers, Resolve(w) PROVE JobsTyped'
    <2>1. running[w] # Idle /\ running[w] \in Handlings /\ running[w].job \in Jobs
      BY <1>9, <1>i DEF Resolve, ResolversFine
    <2>2. running[w].copy \in Files \cup {NoFile}
      BY <2>1 DEF Handlings
    <2>3. FilesFine'
      <3>1. PICK c \in Files : WriteTemp(running[w].job, c)
        <4>1. /\ [running[w].copy EXCEPT !.status = "error"] \in Files
              /\ \A s \in SiteStates : [status |-> "ready", sources |-> TRUE, site |-> s] \in Files
              /\ (IF running[w].copy.site = "confirmed" THEN running[w].copy.site
                  ELSE "candidate") \in SiteStates
          BY <2>2, <1>r DEF SiteStates
        <4> QED BY <1>9, <4>1 DEF Resolve
      <3> QED BY <3>1, <2>1, <1>w
    <2>4. [running[w] EXCEPT !.at = "replace"] \in Handlings
          /\ [running[w] EXCEPT !.at = "replace"].job \in Jobs
      BY <2>1 DEF Handlings, Calls
    <2>5. ResolversFine'
      BY <1>9, <2>4 DEF Resolve, ResolversFine
    <2> QED BY <1>9, <2>3, <2>5, <1>x DEF Resolve
  <1>10. ASSUME NEW w \in Resolvers, Resolved(w) \/ Dies(w) PROVE JobsTyped'
    <2>1. running[w].job \in Jobs
      BY <1>10, <1>i DEF Resolved, Dies, ResolversFine
    <2>2. ResolversFine'
      BY <1>10, <1>i DEF Resolved, Dies, ResolversFine
    <2>3. FilesFine'
      BY <1>10, <2>1, <1>p, <1>u DEF Resolved, Dies
    <2> QED BY <1>10, <2>1, <2>2, <2>3, <1>x DEF Resolved, Dies
  <1>11. CASE RestartWeb
    <2>1. AskersFine' /\ ResolversFine'
      BY <1>11, <1>i DEF RestartWeb, AskersFine, ResolversFine
    <2> QED BY <1>11, <2>1, <1>u DEF RestartWeb
  <1>12. CASE UNCHANGED jobVars
    BY <1>12, <1>u, <1>x DEF jobVars, taskVars
  <1> QED BY <1>1, <1>2, <1>3, <1>4, <1>5, <1>6, <1>7, <1>8, <1>9, <1>10, <1>11, <1>12
       DEF RNext, RProceed, RResolve

LEMMA JobTypes == JobsTyped => RTypeOK
  BY DEF JobsTyped, AskersFine, ResolversFine, FilesFine, Handlings, RTypeOK

LEMMA PointerTypesStep == DTypeOK /\ [DNext]_pointerVars => DTypeOK'
  <1> SUFFICES ASSUME DTypeOK, [DNext]_pointerVars PROVE DTypeOK'
    OBVIOUS
  <1> USE DEF DTypeOK
  <1>c. Cancelled \in [Timers -> {"none", "armed", "fired", "releasing"}]
    BY DEF Cancelled
  <1>a. ArmTimer => /\ dragging' = TRUE /\ timer' \in Timers
                    /\ phase' \in [Timers -> {"none", "armed", "fired", "releasing"}]
    BY <1>c DEF ArmTimer
  <1>1. CASE DragStart \/ DragMove
    BY <1>1, <1>a DEF DragStart, DragMove
  <1>2. CASE DragStartFails \/ DragMoveFails \/ Tap
    BY <1>2 DEF DragStartFails, DragMoveFails, Tap, Outage
  <1>3. CASE DragEnd \/ DragEndFails
    BY <1>3, <1>c DEF DragEnd, DragEndFails, Outage
  <1>4. ASSUME NEW x \in Timers, Fire(x) \/ Forget(x) \/ Release(x) PROVE DTypeOK'
    BY <1>4 DEF Fire, Forget, Release, Outage
  <1>5. CASE UNCHANGED pointerVars
    BY <1>5 DEF pointerVars
  <1> QED BY <1>1, <1>2, <1>3, <1>4, <1>5 DEF DNext

LEMMA OtherSteps == [ANext]_appVars => [RNext]_jobVars /\ [DNext]_pointerVars
  BY DEF ANext, appVars, jobVars, pointerVars, Follow

\* History, hand-off, jobs and pointer stay well formed; the history lock is
\* held by a request that is under way.
THEOREM AppTypeCorrect == ASpec => []AppTypeOK
  <1> DEFINE Types == ReadInv /\ HeldInv /\ HandoffInv /\ JobsTyped /\ DTypeOK
  <1>1. AInit => Types
    <2> SUFFICES ASSUME AInit PROVE Types
      OBVIOUS
    <2>1. ReadInv /\ HandoffInv /\ JobsTyped
      BY ReadInit, HandoffInit, JobTypesInit DEF AInit
    <2>2. HeldInv
      BY DEF AInit, HInit, HeldInv
    <2>3. DTypeOK
      BY DEF AInit, DInit, DTypeOK
    <2> QED BY <2>1, <2>2, <2>3
  <1>2. Types /\ [ANext]_appVars => Types'
    BY HistorySteps, HandoffSteps, OtherSteps, ReadStep, HeldStep, HandoffStep, JobTypesStep,
       PointerTypesStep DEF ReadInv
  <1>3. Types => AppTypeOK
    BY HistoryTypes, JobTypes DEF ReadInv, HandoffInv, HandoffTyped, AppTypeOK
  <1> QED BY <1>1, <1>2, <1>3, PTL DEF ASpec
=============================================================================

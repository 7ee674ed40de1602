---------------------------- MODULE ProjectProofs ----------------------------
(***************************************************************************)
(* What the commands install, upgrade and remove leave in elm.json, for    *)
(* any packages, versions, projects and commands.                          *)
(*                                                                         *)
(* First what each edit of the maps does (the lemmas ...Keeps, ...Writes), *)
(* then what a plan may change, then the invariant: until it is written,   *)
(* the project in memory is the file; while it is written, it is what      *)
(* Leaves promises of it; once a lost write has torn it, no command runs.  *)
(***************************************************************************)
EXTENDS Project, TLAPS

-----------------------------------------------------------------------------
(* The dependency maps *)

\* Every map of a file lists packages, each with an entry.
LEMMA MapTypes ==
  ASSUME NEW j \in File, NEW m \in MapNames
  PROVE  /\ j[m] \in [DOMAIN j[m] -> Entry]
         /\ DOMAIN j[m] \subseteq Packages
<1>1. \A f \in Partial(Packages, Entry) : f \in [DOMAIN f -> Entry] /\ DOMAIN f \subseteq Packages
  BY DEF Partial
<1>2. CASE m = "direct" BY <1>1, <1>2 DEF File
<1>3. CASE m = "indirect" BY <1>1, <1>3 DEF File
<1>4. CASE m = "test_direct" BY <1>1, <1>4 DEF File
<1>5. CASE m = "test_indirect" BY <1>1, <1>5 DEF File
<1> QED BY <1>2, <1>3, <1>4, <1>5 DEF MapNames

\* The map that lists a package first is one of those that list it.
LEMMA FirstHome ==
  ASSUME NEW j, NEW p, p \in Listed(j)
  PROVE  /\ find_package_map(j, p) \in MapNames
         /\ p \in DOMAIN j[find_package_map(j, p)]
         /\ \A m \in MapNames : p \in DOMAIN j[m] => Rank[find_package_map(j, p)] <= Rank[m]
<1>1. PICK m \in MapNames : p \in DOMAIN j[m]
  BY DEF Listed
<1>2. /\ \A o \in MapNames : Rank["direct"] <= Rank[o]
      /\ \A o \in MapNames \ {"direct"} : Rank["indirect"] <= Rank[o]
      /\ \A o \in MapNames \ {"direct", "indirect"} : Rank["test_direct"] <= Rank[o]
      /\ \A o \in MapNames \ {"direct", "indirect", "test_direct"} : Rank["test_indirect"] <= Rank[o]
      /\ MapNames = {"direct", "indirect", "test_direct", "test_indirect"}
  BY DEF MapNames, Rank
<1>3. m \in Homes(j, p) /\ Homes(j, p) \subseteq MapNames
  BY <1>1 DEF Homes
<1>4. \E n \in Homes(j, p) : \A o \in Homes(j, p) : Rank[n] <= Rank[o]
  <2>1. CASE "direct" \in Homes(j, p) BY <1>2, <1>3, <2>1
  <2>2. CASE "direct" \notin Homes(j, p) /\ "indirect" \in Homes(j, p) BY <1>2, <1>3, <2>2
  <2>3. CASE "direct" \notin Homes(j, p) /\ "indirect" \notin Homes(j, p) /\ "test_direct" \in Homes(j, p)
    BY <1>2, <1>3, <2>3
  <2>4. CASE {"direct", "indirect", "test_direct"} \cap Homes(j, p) = {} BY <1>2, <1>3, <2>4
  <2> QED BY <2>1, <2>2, <2>3, <2>4
<1>5. /\ find_package_map(j, p) \in Homes(j, p)
      /\ \A o \in Homes(j, p) : Rank[find_package_map(j, p)] <= Rank[o]
  BY <1>4 DEF find_package_map
<1> QED BY <1>5 DEF Homes

\* Two files whose maps list a package alike find it in the same one.
LEMMA SameHome ==
  ASSUME NEW j, NEW k, NEW p,
         \A m \in MapNames : p \in DOMAIN j[m] <=> p \in DOMAIN k[m]
  PROVE  find_package_map(j, p) = find_package_map(k, p) /\ (p \in Listed(j) <=> p \in Listed(k))
<1>1. Homes(j, p) = Homes(k, p)
  BY DEF Homes
<1>2. p \in Listed(j) <=> p \in Listed(k)
  BY DEF Listed
<1> QED BY <1>1, <1>2 DEF find_package_map

\* Which map it is.
LEMMA HomeIs ==
  ASSUME NEW j, NEW p, NEW m \in MapNames, p \in DOMAIN j[m],
         \A o \in MapNames : p \in DOMAIN j[o] => Rank[m] <= Rank[o]
  PROVE  find_package_map(j, p) = m
<1>1. p \in Listed(j)
  BY DEF Listed
<1>2. \A o \in MapNames : Rank[o] <= Rank[m] /\ Rank[m] <= Rank[o] => o = m
  BY DEF MapNames, Rank
<1> QED BY <1>1, <1>2, FirstHome

\* Production is asked before the tests.
LEMMA ProductionFirst ==
  ASSUME NEW j, NEW p
  PROVE  /\ p \in Production(j) => p \in Listed(j) /\ find_package_map(j, p) \in ProductionMaps
         /\ p \in Listed(j) /\ find_package_map(j, p) \in ProductionMaps => p \in Production(j)
         /\ p \in Production(j) =>
              p \in DOMAIN j[find_package_map(j, p)] /\ find_package_map(j, p) \in {"direct", "indirect"}
<1>1. ASSUME p \in Production(j) PROVE p \in Listed(j) /\ find_package_map(j, p) \in ProductionMaps
  <2>1. PICK m \in {"direct", "indirect"} : p \in DOMAIN j[m]
    BY <1>1 DEF Production
  <2>2. p \in Listed(j) /\ m \in MapNames
    BY <2>1 DEF Listed, MapNames
  <2>3. \A o \in MapNames : Rank[o] <= Rank[m] => o \in ProductionMaps
    BY <2>1 DEF MapNames, ProductionMaps, Rank
  <2> QED BY <2>1, <2>2, <2>3, FirstHome
<1>2. ASSUME p \in Listed(j), find_package_map(j, p) \in ProductionMaps PROVE p \in Production(j)
  BY <1>2, FirstHome DEF Production, ProductionMaps
<1> QED BY <1>1, <1>2, FirstHome DEF ProductionMaps

-----------------------------------------------------------------------------
(* The edits *)

\* Map m of project k after the entries e have been written at the places "at".
PutIn(j, at, e, k, m) ==
  /\ \A p : p \in DOMAIN k[m] <=> p \in DOMAIN j[m] \/ <<p, m>> \in at
  /\ \A p \in DOMAIN k[m] : k[m][p] = IF <<p, m>> \in at THEN e[p] ELSE j[m][p]
  /\ k.kind = j.kind /\ k.name = j.name

\* Writing entries at places: the maps list what they listed and the places,
\* and a place holds the entry that was written.
LEMMA PutMaps ==
  ASSUME NEW j \in File, NEW at \in SUBSET (Packages \X MapNames), NEW e, NEW m \in MapNames
  PROVE  PutIn(j, at, e, Put(j, at, e), m)
<1> DEFINE Over(n) == [p \in DOMAIN j[n] \cup {a[1] : a \in {b \in at : b[2] = n}} |->
                         IF <<p, n>> \in at THEN e[p] ELSE j[n][p]]
           r == [j EXCEPT !.direct = Over("direct"), !.indirect = Over("indirect"),
                          !.test_direct = Over("test_direct"), !.test_indirect = Over("test_indirect")]
<1>1. Put(j, at, e) = r
  BY DEF Put
<1>2. \A n : \A p : p \in DOMAIN Over(n) <=> p \in DOMAIN j[n] \/ <<p, n>> \in at
  <2> TAKE n
  <2> TAKE p
  <2>1. p \in {a[1] : a \in {b \in at : b[2] = n}} <=> <<p, n>> \in at
    OBVIOUS
  <2> QED BY <2>1
<1>3. \A n : \A p \in DOMAIN Over(n) : Over(n)[p] = IF <<p, n>> \in at THEN e[p] ELSE j[n][p]
  OBVIOUS
<1> HIDE DEF Over
<1>4. /\ r["direct"] = Over("direct") /\ r["indirect"] = Over("indirect")
      /\ r["test_direct"] = Over("test_direct") /\ r["test_indirect"] = Over("test_indirect")
      /\ r.kind = j.kind /\ r.name = j.name
  BY DEF File
<1>5. r[m] = Over(m)
  BY <1>4 DEF MapNames
<1> HIDE DEF r
<1> QED BY <1>1, <1>2, <1>3, <1>4, <1>5 DEF PutIn

\* Entries that are entries make it a file again.
LEMMA PutFile ==
  ASSUME NEW j \in File, NEW at \in SUBSET (Packages \X MapNames), NEW e,
         \A a \in at : e[a[1]] \in Entry
  PROVE  Put(j, at, e) \in File
<1> DEFINE Over(n) == [p \in DOMAIN j[n] \cup {a[1] : a \in {b \in at : b[2] = n}} |->
                         IF <<p, n>> \in at THEN e[p] ELSE j[n][p]]
<1>1. Put(j, at, e) = [j EXCEPT !.direct = Over("direct"), !.indirect = Over("indirect"),
                          !.test_direct = Over("test_direct"), !.test_indirect = Over("test_indirect")]
  BY DEF Put
<1>2. ASSUME NEW n \in MapNames PROVE Over(n) \in Partial(Packages, Entry)
  <2>1. j[n] \in [DOMAIN j[n] -> Entry] /\ DOMAIN j[n] \subseteq Packages
    BY MapTypes
  <2>2. DOMAIN Over(n) \subseteq Packages
    BY <2>1
  <2>3. ASSUME NEW p \in DOMAIN Over(n) PROVE Over(n)[p] \in Entry
    <3>1. CASE <<p, n>> \in at
      <4>1. e[<<p, n>>[1]] \in Entry BY <3>1
      <4> QED BY <3>1, <4>1
    <3>2. CASE <<p, n>> \notin at
      <4>1. p \in DOMAIN j[n] BY <3>2
      <4> QED BY <2>1, <3>2, <4>1
    <3> QED BY <3>1, <3>2
  <2>4. Over(n) \in [DOMAIN Over(n) -> Entry]
    BY <2>3
  <2> QED BY <2>2, <2>4 DEF Partial
<1> HIDE DEF Over
<1>3. \A n \in MapNames : Over(n) \in Partial(Packages, Entry)
  BY <1>2
<1>4. /\ Over("direct") \in Partial(Packages, Entry) /\ Over("indirect") \in Partial(Packages, Entry)
      /\ Over("test_direct") \in Partial(Packages, Entry) /\ Over("test_indirect") \in Partial(Packages, Entry)
  BY <1>3 DEF MapNames
<1> QED BY <1>1, <1>4 DEF File

\* A map without some packages.
LEMMA WithoutMap ==
  ASSUME NEW f \in Partial(Packages, Entry), NEW S
  PROVE  /\ Without(f, S) \in Partial(Packages, Entry)
         /\ DOMAIN Without(f, S) = DOMAIN f \ S
         /\ \A p \in DOMAIN f \ S : Without(f, S)[p] = f[p]
<1>1. f \in [DOMAIN f -> Entry] /\ DOMAIN f \subseteq Packages
  BY DEF Partial
<1>2. Without(f, S) \in [DOMAIN f \ S -> Entry]
  BY <1>1 DEF Without
<1>3. DOMAIN f \ S \in SUBSET Packages
  BY <1>1
<1> QED BY <1>1, <1>2, <1>3 DEF Partial, Without

\* The maps of a file, by their names.
LEMMA FieldTypes ==
  ASSUME NEW j \in File
  PROVE  /\ j["direct"] \in Partial(Packages, Entry) /\ j["indirect"] \in Partial(Packages, Entry)
         /\ j["test_direct"] \in Partial(Packages, Entry) /\ j["test_indirect"] \in Partial(Packages, Entry)
BY DEF File

\* Taking packages out of all maps.
LEMMA RemoveFromAll ==
  ASSUME NEW j \in File, NEW S
  PROVE  /\ remove_from_all_maps(j, S) \in File
         /\ remove_from_all_maps(j, S).kind = j.kind /\ remove_from_all_maps(j, S).name = j.name
         /\ \A m \in MapNames : /\ DOMAIN remove_from_all_maps(j, S)[m] = DOMAIN j[m] \ S
                                /\ \A p \in DOMAIN j[m] \ S : remove_from_all_maps(j, S)[m][p] = j[m][p]
<1> DEFINE W(m) == Without(j[m], S)
           r == remove_from_all_maps(j, S)
<1>1. /\ W("direct") \in Partial(Packages, Entry) /\ W("indirect") \in Partial(Packages, Entry)
      /\ W("test_direct") \in Partial(Packages, Entry) /\ W("test_indirect") \in Partial(Packages, Entry)
  BY FieldTypes, WithoutMap
<1>2. \A m \in MapNames : /\ DOMAIN W(m) = DOMAIN j[m] \ S
                          /\ \A p \in DOMAIN j[m] \ S : W(m)[p] = j[m][p]
  BY FieldTypes, WithoutMap DEF MapNames
<1>3. r = [j EXCEPT !.direct = W("direct"), !.indirect = W("indirect"),
                    !.test_direct = W("test_direct"), !.test_indirect = W("test_indirect")]
  BY DEF remove_from_all_maps, File
<1> HIDE DEF W, r
<1>4. /\ r \in File /\ r.kind = j.kind /\ r.name = j.name
      /\ r["direct"] = W("direct") /\ r["indirect"] = W("indirect")
      /\ r["test_direct"] = W("test_direct") /\ r["test_indirect"] = W("test_indirect")
  BY <1>1, <1>3 DEF File
<1>5. \A m \in MapNames : r[m] = W(m)
  BY <1>4 DEF MapNames
<1> QED BY <1>2, <1>4, <1>5 DEF r

\* Taking packages out of one map.
LEMMA RemoveFromOne ==
  ASSUME NEW j \in File, NEW n \in MapNames, NEW S
  PROVE  /\ package_map_remove(j, n, S) \in File
         /\ package_map_remove(j, n, S).kind = j.kind /\ package_map_remove(j, n, S).name = j.name
         /\ DOMAIN package_map_remove(j, n, S)[n] = DOMAIN j[n] \ S
         /\ \A p \in DOMAIN j[n] \ S : package_map_remove(j, n, S)[n][p] = j[n][p]
         /\ \A m \in MapNames \ {n} : package_map_remove(j, n, S)[m] = j[m]
<1> DEFINE w == Without(j[n], S)
           r == package_map_remove(j, n, S)
<1>1. w \in Partial(Packages, Entry) /\ DOMAIN w = DOMAIN j[n] \ S /\ \A p \in DOMAIN j[n] \ S : w[p] = j[n][p]
  BY FieldTypes, WithoutMap DEF MapNames
<1>2. r = [j EXCEPT ![n] = w]
  BY DEF package_map_remove, File
<1> HIDE DEF w, r
<1>3. r \in File /\ r.kind = j.kind /\ r.name = j.name /\ r[n] = w /\ \A m \in MapNames \ {n} : r[m] = j[m]
  <2>1. CASE n = "direct" BY <1>1, <1>2, <2>1 DEF File, MapNames
  <2>2. CASE n = "indirect" BY <1>1, <1>2, <2>2 DEF File, MapNames
  <2>3. CASE n = "test_direct" BY <1>1, <1>2, <2>3 DEF File, MapNames
  <2>4. CASE n = "test_indirect" BY <1>1, <1>2, <2>4 DEF File, MapNames
  <2> QED BY <2>1, <2>2, <2>3, <2>4 DEF MapNames
<1> QED BY <1>1, <1>3 DEF r

\* Adding a package to a map, which keeps an entry that is there.
LEMMA AddToOne ==
  ASSUME NEW j \in File, NEW n \in MapNames, NEW p \in Packages, NEW e \in Entry
  PROVE  /\ package_map_add(j, n, p, e) \in File
         /\ package_map_add(j, n, p, e).kind = j.kind /\ package_map_add(j, n, p, e).name = j.name
         /\ DOMAIN package_map_add(j, n, p, e)[n] = DOMAIN j[n] \cup {p}
         /\ \A q \in DOMAIN j[n] : package_map_add(j, n, p, e)[n][q] = j[n][q]
         /\ p \notin DOMAIN j[n] => package_map_add(j, n, p, e)[n][p] = e
         /\ \A m \in MapNames \ {n} : /\ DOMAIN package_map_add(j, n, p, e)[m] = DOMAIN j[m]
                                      /\ \A q \in DOMAIN j[m] : package_map_add(j, n, p, e)[m][q] = j[m][q]
<1>1. CASE p \in DOMAIN j[n]
  BY <1>1 DEF package_map_add
<1>2. CASE p \notin DOMAIN j[n]
  <2> DEFINE f == [q \in {p} |-> e]
             at == {<<p, n>>}
             r == Put(j, at, f)
  <2>1. package_map_add(j, n, p, e) = r
    BY <1>2 DEF package_map_add
  <2>2. \A a \in at : f[a[1]] \in Entry
    OBVIOUS
  <2>3. f[p] = e
    OBVIOUS
  <2>4. at \in SUBSET (Packages \X MapNames) /\ \A q, m : <<q, m>> \in at <=> q = p /\ m = n
    OBVIOUS
  <2> HIDE DEF f, at
  <2>5. r \in File
    BY <2>2, <2>4, PutFile
  <2>6. ASSUME NEW m \in MapNames
        PROVE  /\ \A q : q \in DOMAIN r[m] <=> q \in DOMAIN j[m] \/ <<q, m>> \in at
               /\ \A q \in DOMAIN r[m] : r[m][q] = IF <<q, m>> \in at THEN f[q] ELSE j[m][q]
               /\ r.kind = j.kind /\ r.name = j.name
    <3>1. PutIn(j, at, f, r, m)
      BY <2>4, PutMaps
    <3> QED BY <3>1 DEF PutIn
  <2> HIDE DEF r
  <2>7. DOMAIN r[n] = DOMAIN j[n] \cup {p} /\ r[n][p] = e /\ \A q \in DOMAIN j[n] : r[n][q] = j[n][q]
    <3>1. \A q : q \in DOMAIN r[n] <=> q \in DOMAIN j[n] \/ q = p
      BY <2>4, <2>6
    <3>2. DOMAIN r[n] = DOMAIN j[n] \cup {p}
      BY <3>1
    <3> QED BY <1>2, <2>3, <2>4, <2>6, <3>2
  <2>8. ASSUME NEW m \in MapNames \ {n}
        PROVE  DOMAIN r[m] = DOMAIN j[m] /\ \A q \in DOMAIN j[m] : r[m][q] = j[m][q]
    <3>1. \A q : q \in DOMAIN r[m] <=> q \in DOMAIN j[m]
      BY <2>4, <2>6
    <3>2. DOMAIN r[m] = DOMAIN j[m]
      BY <3>1
    <3> QED BY <2>4, <2>6, <3>2
  <2> QED BY <1>2, <2>1, <2>5, <2>6, <2>7, <2>8
<1> QED BY <1>1, <1>2

\* Moving a package to a map that has not got it.
LEMMA MoveMaps ==
  ASSUME NEW j \in File, NEW from \in MapNames, NEW to \in MapNames \ {from},
         NEW p \in DOMAIN j[from], p \notin DOMAIN j[to]
  PROVE  /\ Move(j, from, to, p) \in File
         /\ Move(j, from, to, p).kind = j.kind /\ Move(j, from, to, p).name = j.name
         /\ DOMAIN Move(j, from, to, p)[to] = DOMAIN j[to] \cup {p}
         /\ DOMAIN Move(j, from, to, p)[from] = DOMAIN j[from] \ {p}
         /\ \A m \in MapNames \ {from, to} : DOMAIN Move(j, from, to, p)[m] = DOMAIN j[m]
         /\ Move(j, from, to, p)[to][p] = j[from][p]
         /\ \A m \in MapNames : \A q \in DOMAIN Move(j, from, to, p)[m] :
              q # p \/ m # to => Move(j, from, to, p)[m][q] = j[m][q]
<1> DEFINE a == package_map_add(j, to, p, j[from][p])
           r == package_map_remove(a, from, {p})
<1>1. p \in Packages /\ j[from][p] \in Entry
  BY MapTypes
<1>2. /\ a \in File /\ a.kind = j.kind /\ a.name = j.name
      /\ DOMAIN a[to] = DOMAIN j[to] \cup {p} /\ a[to][p] = j[from][p]
      /\ \A q \in DOMAIN j[to] : a[to][q] = j[to][q]
      /\ \A m \in MapNames \ {to} : DOMAIN a[m] = DOMAIN j[m] /\ \A q \in DOMAIN j[m] : a[m][q] = j[m][q]
  BY <1>1, AddToOne
<1> HIDE DEF a
<1>3. /\ r \in File /\ r.kind = a.kind /\ r.name = a.name
      /\ DOMAIN r[from] = DOMAIN a[from] \ {p}
      /\ \A q \in DOMAIN a[from] \ {p} : r[from][q] = a[from][q]
      /\ \A m \in MapNames \ {from} : r[m] = a[m]
  BY <1>2, RemoveFromOne
<1>4. Move(j, from, to, p) = r
  BY DEF Move, a
<1> HIDE DEF r
<1> QED BY <1>2, <1>3, <1>4

-----------------------------------------------------------------------------
(* Edits that keep every entry *)

\* What every file that a command reads or writes is.
Sound(j) == j \in Project /\ Separate(j)

\* The same packages, each found with the same entry.
Keeps(j, k) ==
  /\ k.kind = j.kind /\ Listed(k) = Listed(j)
  /\ \A p \in Listed(j) : find_existing_package(k, p) = find_existing_package(j, p)

\* Changing where one package is listed concerns no other one.
LEMMA OthersKeep ==
  ASSUME NEW j, NEW k, NEW q,
         \A m \in MapNames : q \in DOMAIN j[m] <=> q \in DOMAIN k[m],
         \A m \in MapNames : q \in DOMAIN j[m] => k[m][q] = j[m][q]
  PROVE  /\ q \in Listed(k) <=> q \in Listed(j)
         /\ q \in Listed(j) => find_existing_package(k, q) = find_existing_package(j, q)
BY SameHome, FirstHome DEF find_existing_package

\* A package is moved up from its first map, or within maps below that one.
LEMMA MoveKeeps ==
  ASSUME NEW j \in File, NEW from \in MapNames, NEW to \in MapNames,
         NEW p \in DOMAIN j[from], p \notin DOMAIN j[to], Rank[to] < Rank[from],
         from = find_package_map(j, p) \/ Rank[find_package_map(j, p)] < Rank[to]
  PROVE  Keeps(j, Move(j, from, to, p))
<1> DEFINE k == Move(j, from, to, p)
<1>1. to # from
  OBVIOUS
<1>2. \A m \in MapNames : Rank[m] \in Nat
  BY DEF MapNames, Rank
<1>3. /\ k.kind = j.kind
      /\ DOMAIN k[to] = DOMAIN j[to] \cup {p}
      /\ DOMAIN k[from] = DOMAIN j[from] \ {p}
      /\ \A m \in MapNames \ {from, to} : DOMAIN k[m] = DOMAIN j[m]
      /\ k[to][p] = j[from][p]
      /\ \A m \in MapNames : \A q \in DOMAIN k[m] : q # p \/ m # to => k[m][q] = j[m][q]
  BY <1>1, MoveMaps
<1> HIDE DEF k
<1>4. ASSUME NEW q, q # p
      PROVE  /\ q \in Listed(k) <=> q \in Listed(j)
             /\ q \in Listed(j) => find_existing_package(k, q) = find_existing_package(j, q)
  <2>1. \A m \in MapNames : q \in DOMAIN j[m] <=> q \in DOMAIN k[m]
    BY <1>3, <1>4
  <2>2. \A m \in MapNames : q \in DOMAIN j[m] => k[m][q] = j[m][q]
    BY <1>3, <1>4, <2>1
  <2> QED BY <2>1, <2>2, OthersKeep
<1>5. p \in Listed(j) /\ p \in Listed(k)
  BY <1>3 DEF Listed
<1>6. find_existing_package(k, p) = find_existing_package(j, p)
  <2> DEFINE n == find_package_map(j, p)
  <2>1. n \in MapNames /\ p \in DOMAIN j[n] /\ \A m \in MapNames : p \in DOMAIN j[m] => Rank[n] <= Rank[m]
    BY <1>5, FirstHome
  <2>2. CASE from = n
    <3>1. \A m \in MapNames : p \in DOMAIN k[m] => Rank[to] <= Rank[m]
      <4> TAKE m \in MapNames
      <4>1. CASE m = to BY <1>2, <4>1
      <4>2. CASE m = from BY <1>3, <4>2
      <4>3. CASE m \notin {from, to} BY <1>2, <1>3, <2>1, <2>2, <4>3
      <4> QED BY <4>1, <4>2, <4>3
    <3>2. find_package_map(k, p) = to
      BY <1>3, <3>1, HomeIs
    <3> QED BY <1>3, <2>2, <3>2 DEF find_existing_package
  <2>3. CASE from # n /\ Rank[n] < Rank[to]
    <3>1. n \notin {from, to} /\ p \in DOMAIN k[n]
      BY <1>2, <1>3, <2>1, <2>3
    <3>2. \A m \in MapNames : p \in DOMAIN k[m] => Rank[n] <= Rank[m]
      <4> TAKE m \in MapNames
      <4>1. CASE m = to BY <1>2, <2>1, <2>3, <4>1
      <4>2. CASE m = from BY <1>3, <4>2
      <4>3. CASE m \notin {from, to} BY <1>3, <2>1, <4>3
      <4> QED BY <4>1, <4>2, <4>3
    <3>3. find_package_map(k, p) = n
      BY <2>1, <3>1, <3>2, HomeIs
    <3>4. k[n][p] = j[n][p]
      BY <1>3, <2>1, <3>1
    <3> QED BY <3>3, <3>4 DEF find_existing_package
  <2> QED BY <2>2, <2>3
<1>7. Listed(k) = Listed(j)
  BY <1>4, <1>5
<1> QED BY <1>3, <1>4, <1>5, <1>6, <1>7 DEF Keeps, k

\* A package gets a second entry, in a map below its first one.
LEMMA AddKeeps ==
  ASSUME NEW j \in File, NEW n \in MapNames, NEW p \in Packages, NEW e \in Entry,
         p \in Listed(j), Rank[find_package_map(j, p)] < Rank[n]
  PROVE  Keeps(j, package_map_add(j, n, p, e))
<1> DEFINE k == package_map_add(j, n, p, e)
           h == find_package_map(j, p)
<1>1. /\ k.kind = j.kind
      /\ DOMAIN k[n] = DOMAIN j[n] \cup {p}
      /\ \A q \in DOMAIN j[n] : k[n][q] = j[n][q]
      /\ \A m \in MapNames \ {n} : DOMAIN k[m] = DOMAIN j[m] /\ \A q \in DOMAIN j[m] : k[m][q] = j[m][q]
  BY AddToOne
<1> HIDE DEF k
<1>2. \A m \in MapNames : Rank[m] \in Nat
  BY DEF MapNames, Rank
<1>3. ASSUME NEW q, q # p
      PROVE  /\ q \in Listed(k) <=> q \in Listed(j)
             /\ q \in Listed(j) => find_existing_package(k, q) = find_existing_package(j, q)
  <2>1. \A m \in MapNames : q \in DOMAIN j[m] <=> q \in DOMAIN k[m]
    BY <1>1, <1>3
  <2>2. \A m \in MapNames : q \in DOMAIN j[m] => k[m][q] = j[m][q]
    BY <1>1, <1>3, <2>1
  <2> QED BY <2>1, <2>2, OthersKeep
<1>4. h \in MapNames /\ p \in DOMAIN j[h] /\ \A m \in MapNames : p \in DOMAIN j[m] => Rank[h] <= Rank[m]
  BY FirstHome
<1>5. h # n /\ p \in DOMAIN k[h] /\ k[h][p] = j[h][p]
  BY <1>1, <1>2, <1>4
<1>6. \A m \in MapNames : p \in DOMAIN k[m] => Rank[h] <= Rank[m]
  <2> TAKE m \in MapNames
  <2>1. CASE m = n BY <1>2, <1>4, <2>1
  <2>2. CASE m # n BY <1>1, <1>4, <2>2
  <2> QED BY <2>1, <2>2
<1>7. find_package_map(k, p) = h
  BY <1>4, <1>5, <1>6, HomeIs
<1>8. find_existing_package(k, p) = find_existing_package(j, p) /\ p \in Listed(k)
  BY <1>4, <1>5, <1>7 DEF find_existing_package, Listed
<1>9. Listed(k) = Listed(j)
  BY <1>3, <1>8
<1> QED BY <1>1, <1>3, <1>8, <1>9 DEF Keeps, k

-----------------------------------------------------------------------------
(* Promotion, and the second entry for tests *)

\* What makes an edited file a sound one.
LEMMA SoundFile ==
  ASSUME NEW j, Sound(j), NEW k \in File, k.kind = j.kind,
         \A m \in MapNames : \A p \in DOMAIN k[m] : IsApp(j) => ~k[m][p].caret,
         ~IsApp(j) => DOMAIN k["indirect"] = {} /\ DOMAIN k["test_indirect"] = {},
         \A p \in Packages : /\ ~(p \in DOMAIN k["direct"] /\ p \in DOMAIN k["indirect"])
                             /\ ~(p \in DOMAIN k["test_direct"] /\ p \in DOMAIN k["test_indirect"])
  PROVE  Sound(k)
BY DEF Sound, Project, WellFormed, IsApp, Separate

\* What a sound file is.
LEMMA SoundMaps ==
  ASSUME NEW j, Sound(j)
  PROVE  /\ j \in File
         /\ IsApp(j) => \A m \in MapNames : \A p \in DOMAIN j[m] : ~j[m][p].caret
         /\ ~IsApp(j) => DOMAIN j["indirect"] = {} /\ DOMAIN j["test_indirect"] = {}
         /\ \A p : /\ ~(p \in DOMAIN j["direct"] /\ p \in DOMAIN j["indirect"])
                   /\ ~(p \in DOMAIN j["test_direct"] /\ p \in DOMAIN j["test_indirect"])
         /\ \A m \in MapNames : DOMAIN j[m] \subseteq Packages
         /\ \A m \in MapNames : \A p \in DOMAIN j[m] : j[m][p] \in Entry
<1>1. j \in File
  BY DEF Sound, Project
<1>2. /\ \A m \in MapNames : DOMAIN j[m] \subseteq Packages
      /\ \A m \in MapNames : \A p \in DOMAIN j[m] : j[m][p] \in Entry
  BY <1>1, MapTypes
<1>3. DOMAIN j["direct"] \subseteq Packages /\ DOMAIN j["test_direct"] \subseteq Packages
  BY <1>2 DEF MapNames
<1> QED BY <1>1, <1>2, <1>3 DEF Sound, Project, WellFormed, Separate

\* A move to a map of direct dependencies.
LEMMA MoveSound ==
  ASSUME NEW j, Sound(j), NEW from \in MapNames, NEW to \in DirectMaps,
         NEW p \in DOMAIN j[from], p \notin DOMAIN j[to], from # to,
         to = "direct" => from = "indirect" \/ p \notin DOMAIN j["indirect"],
         to = "test_direct" => from = "test_indirect" \/ p \notin DOMAIN j["test_indirect"]
  PROVE  /\ Sound(Move(j, from, to, p))
         /\ ListedOnce(j) => ListedOnce(Move(j, from, to, p))
<1> DEFINE k == Move(j, from, to, p)
<1>1. to \in MapNames
  BY DEF DirectMaps, MapNames
<1>2. /\ j \in File
      /\ IsApp(j) => \A m \in MapNames : \A q \in DOMAIN j[m] : ~j[m][q].caret
      /\ ~IsApp(j) => DOMAIN j["indirect"] = {} /\ DOMAIN j["test_indirect"] = {}
      /\ \A q : /\ ~(q \in DOMAIN j["direct"] /\ q \in DOMAIN j["indirect"])
                /\ ~(q \in DOMAIN j["test_direct"] /\ q \in DOMAIN j["test_indirect"])
  BY SoundMaps
<1>3. /\ k \in File /\ k.kind = j.kind
      /\ DOMAIN k[to] = DOMAIN j[to] \cup {p}
      /\ DOMAIN k[from] = DOMAIN j[from] \ {p}
      /\ \A m \in MapNames \ {from, to} : DOMAIN k[m] = DOMAIN j[m]
      /\ k[to][p] = j[from][p]
      /\ \A m \in MapNames : \A q \in DOMAIN k[m] : q # p \/ m # to => k[m][q] = j[m][q]
  BY <1>1, <1>2, MoveMaps
<1> HIDE DEF k
<1>4. \A m \in MapNames : \A q \in DOMAIN k[m] : IsApp(j) => ~k[m][q].caret
  <2> SUFFICES ASSUME NEW m \in MapNames, NEW q \in DOMAIN k[m], IsApp(j) PROVE ~k[m][q].caret
    OBVIOUS
  <2>1. CASE q = p /\ m = to BY <1>2, <1>3, <2>1
  <2>2. CASE q # p \/ m # to
    <3>1. q \in DOMAIN j[m]
      BY <1>3, <2>2
    <3> QED BY <1>2, <1>3, <2>2, <3>1
  <2> QED BY <2>1, <2>2
<1>5. \A m \in MapNames \ DirectMaps : DOMAIN k[m] \subseteq DOMAIN j[m]
  BY <1>3
<1>6. {"indirect", "test_indirect"} \subseteq MapNames \ DirectMaps /\ DirectMaps = {"direct", "test_direct"}
  BY DEF MapNames, DirectMaps
<1>7. \A q : /\ ~(q \in DOMAIN k["direct"] /\ q \in DOMAIN k["indirect"])
             /\ ~(q \in DOMAIN k["test_direct"] /\ q \in DOMAIN k["test_indirect"])
  <2>1. CASE to = "direct"
    <3>1. DOMAIN k["test_direct"] \subseteq DOMAIN j["test_direct"]
      BY <1>3, <2>1 DEF MapNames
    <3> QED BY <1>2, <1>3, <1>5, <1>6, <2>1, <3>1
  <2>2. CASE to = "test_direct"
    <3>1. DOMAIN k["direct"] \subseteq DOMAIN j["direct"]
      BY <1>3, <2>2 DEF MapNames
    <3> QED BY <1>2, <1>3, <1>5, <1>6, <2>2, <3>1
  <2> QED BY <1>6, <2>1, <2>2
<1>8. Sound(k)
  BY <1>2, <1>3, <1>4, <1>5, <1>6, <1>7, SoundFile
<1>9. ASSUME ListedOnce(j), NEW q \in Listed(k) PROVE \E m \in MapNames : Homes(k, q) = {m}
  <2>1. CASE q = p
    <3>1. p \in Listed(j)
      BY DEF Listed
    <3>2. Homes(j, p) = {from}
      BY <1>9, <3>1 DEF ListedOnce, Homes
    <3>3. Homes(k, p) = {to}
      BY <1>1, <1>3, <3>2 DEF Homes
    <3> QED BY <1>1, <2>1, <3>3
  <2>2. CASE q # p
    <3>1. \A m \in MapNames : q \in DOMAIN k[m] <=> q \in DOMAIN j[m]
      BY <1>3, <2>2
    <3>2. q \in Listed(j) /\ Homes(k, q) = Homes(j, q)
      BY <3>1 DEF Listed, Homes
    <3> QED BY <1>9, <3>2 DEF ListedOnce
  <2> QED BY <2>1, <2>2
<1> QED BY <1>8, <1>9 DEF ListedOnce, k

\* Where a listed package can be promoted to.
LEMMA PromotionMaps ==
  ASSUME NEW j, NEW p \in Listed(j), elm_json_find_package(j, p) # "none"
  PROVE  LET from == find_package_map(j, p)
             to == elm_json_find_package(j, p)
         IN  /\ to \in DirectMaps /\ from \in MapNames /\ Rank[to] < Rank[from]
             /\ to = "direct" => from \in {"indirect", "test_direct"}
             /\ to = "test_direct" => from = "test_indirect"
<1> DEFINE from == find_package_map(j, p)
<1>1. from \in DOMAIN Promotions(j) /\ elm_json_find_package(j, p) = Promotions(j)[from]
  BY DEF elm_json_find_package
<1> HIDE DEF from
<1>2. CASE IsApp(j)
  <2>1. Promotions(j) = [indirect |-> "direct", test_direct |-> "direct", test_indirect |-> "test_direct"]
    BY <1>2 DEF Promotions
  <2>2. from \in {"indirect", "test_direct", "test_indirect"}
    BY <1>1, <2>1
  <2> QED BY <1>1, <2>1, <2>2 DEF DirectMaps, MapNames, Rank, from
<1>3. CASE ~IsApp(j)
  <2>1. Promotions(j) = [test_direct |-> "direct"]
    BY <1>3 DEF Promotions
  <2>2. from = "test_direct"
    BY <1>1, <2>1
  <2> QED BY <1>1, <2>1, <2>2 DEF DirectMaps, MapNames, Rank, from
<1> QED BY <1>2, <1>3

\* Promoting a listed package.
LEMMA PromoteKeeps ==
  ASSUME NEW j, Sound(j), NEW p \in Listed(j), elm_json_find_package(j, p) # "none"
  PROVE  /\ Sound(elm_json_promote_package(j, p))
         /\ Keeps(j, elm_json_promote_package(j, p))
         /\ ListedOnce(j) => ListedOnce(elm_json_promote_package(j, p))
<1> DEFINE from == find_package_map(j, p)
           to == elm_json_find_package(j, p)
<1>1. /\ to \in DirectMaps /\ from \in MapNames /\ Rank[to] < Rank[from]
      /\ to = "direct" => from \in {"indirect", "test_direct"}
      /\ to = "test_direct" => from = "test_indirect"
  BY PromotionMaps
<1>2. p \in DOMAIN j[from] /\ \A m \in MapNames : p \in DOMAIN j[m] => Rank[from] <= Rank[m]
  BY FirstHome
<1>3. elm_json_promote_package(j, p) = Move(j, from, to, p)
  BY DEF elm_json_promote_package
<1>4. to \in MapNames /\ \A m \in MapNames : Rank[m] \in Nat
  BY <1>1 DEF MapNames, DirectMaps, Rank
<1>5. p \notin DOMAIN j[to]
  BY <1>1, <1>2, <1>4
<1>6. from = "test_direct" => p \notin DOMAIN j["indirect"]
  BY <1>2 DEF Rank, MapNames
<1>7. j \in File
  BY SoundMaps
<1>8. Keeps(j, Move(j, from, to, p))
  BY <1>1, <1>2, <1>4, <1>5, <1>7, MoveKeeps
<1> HIDE DEF from, to
<1>9. from # to
  BY <1>2, <1>5
<1>10. /\ Sound(Move(j, from, to, p))
       /\ ListedOnce(j) => ListedOnce(Move(j, from, to, p))
  BY <1>1, <1>2, <1>5, <1>6, <1>9, MoveSound
<1> QED BY <1>3, <1>8, <1>10

\* A test entry for a package that is listed elsewhere; production stays.
LEMMA AddToTestsKeeps ==
  ASSUME Sound(mem), NEW p \in Listed(mem), p \notin DOMAIN mem["test_direct"]
  PROVE  /\ Sound(AddToTests(p)) /\ Keeps(mem, AddToTests(p))
         /\ Production(mem) \subseteq Production(AddToTests(p))
<1> DEFINE h == find_package_map(mem, p)
           k == AddToTests(p)
<1>1. h \in MapNames /\ p \in DOMAIN mem[h] /\ \A m \in MapNames : p \in DOMAIN mem[m] => Rank[h] <= Rank[m]
  BY FirstHome
<1>2. /\ mem \in File
      /\ IsApp(mem) => \A m \in MapNames : \A q \in DOMAIN mem[m] : ~mem[m][q].caret
      /\ ~IsApp(mem) => DOMAIN mem["indirect"] = {} /\ DOMAIN mem["test_indirect"] = {}
      /\ \A q : /\ ~(q \in DOMAIN mem["direct"] /\ q \in DOMAIN mem["indirect"])
                /\ ~(q \in DOMAIN mem["test_direct"] /\ q \in DOMAIN mem["test_indirect"])
      /\ \A m \in MapNames : DOMAIN mem[m] \subseteq Packages
      /\ \A m \in MapNames : \A q \in DOMAIN mem[m] : mem[m][q] \in Entry
  BY SoundMaps
<1>3. /\ "test_direct" \in MapNames /\ "test_indirect" \in MapNames /\ "test_direct" \in DirectMaps
      /\ "direct" \in MapNames /\ "indirect" \in MapNames
      /\ Rank["test_direct"] < Rank["test_indirect"]
      /\ \A m \in MapNames \ {"test_direct", "test_indirect"} : Rank[m] < Rank["test_direct"]
      /\ "test_direct" # "test_indirect"
  BY DEF MapNames, DirectMaps, Rank
<1>4. h # "test_direct"
  BY <1>1
<1>5. CASE p \in DOMAIN mem["test_indirect"]
  <2> DEFINE from == "test_indirect"
             to == "test_direct"
  <2>1. k = Move(mem, from, to, p)
    BY <1>5 DEF AddToTests
  <2>2. Sound(k)
    BY <1>3, <1>5, <2>1, MoveSound
  <2>3. from = h \/ Rank[h] < Rank[to]
    BY <1>1, <1>3, <1>4
  <2>4. Keeps(mem, k)
    BY <1>2, <1>3, <1>5, <2>1, <2>3, MoveKeeps
  <2>5. \A m \in MapNames \ {from, to} : DOMAIN k[m] = DOMAIN mem[m]
    BY <1>2, <1>3, <1>5, <2>1, MoveMaps
  <2>6. "direct" \notin {from, to} /\ "indirect" \notin {from, to}
    OBVIOUS
  <2> QED BY <1>3, <2>2, <2>4, <2>5, <2>6 DEF Production
<1>6. CASE p \notin DOMAIN mem["test_indirect"]
  <2> DEFINE e == find_existing_package(mem, p)
             n == "test_direct"
  <2>1. k = package_map_add(mem, n, p, e)
    BY <1>6 DEF AddToTests
  <2>2. e = mem[h][p] /\ e \in Entry /\ p \in Packages
    BY <1>1, <1>2 DEF find_existing_package
  <2>3. Rank[h] < Rank[n]
    BY <1>1, <1>3, <1>4, <1>6
  <2> HIDE DEF e
  <2>4. n \in MapNames /\ p \notin DOMAIN mem[n]
    BY <1>3
  <2> HIDE DEF n, k
  <2>9. Keeps(mem, k)
    BY <1>2, <2>1, <2>2, <2>3, <2>4, AddKeeps
  <2>5. /\ k \in File /\ k.kind = mem.kind
        /\ DOMAIN k[n] = DOMAIN mem[n] \cup {p}
        /\ \A q \in DOMAIN mem[n] : k[n][q] = mem[n][q]
        /\ k[n][p] = e
        /\ \A m \in MapNames \ {n} : DOMAIN k[m] = DOMAIN mem[m] /\ \A q \in DOMAIN mem[m] : k[m][q] = mem[m][q]
    BY <1>2, <2>1, <2>2, <2>4, AddToOne
  <2>6. \A m \in MapNames : \A q \in DOMAIN k[m] : IsApp(mem) => ~k[m][q].caret
    <3> SUFFICES ASSUME NEW m \in MapNames, NEW q \in DOMAIN k[m], IsApp(mem) PROVE ~k[m][q].caret
      OBVIOUS
    <3>1. CASE q = p /\ m = n BY <1>1, <1>2, <2>2, <2>5, <3>1
    <3>2. CASE q # p /\ m = n
      <4>1. q \in DOMAIN mem[n] BY <2>5, <3>2
      <4> QED BY <1>2, <2>5, <3>2, <4>1
    <3>3. CASE m # n BY <1>2, <2>5, <3>3
    <3> QED BY <3>1, <3>2, <3>3
  <2>7. /\ DOMAIN k["direct"] = DOMAIN mem["direct"] /\ DOMAIN k["indirect"] = DOMAIN mem["indirect"]
        /\ DOMAIN k["test_indirect"] = DOMAIN mem["test_indirect"]
        /\ DOMAIN k["test_direct"] = DOMAIN mem["test_direct"] \cup {p}
    BY <1>3, <2>5 DEF MapNames, n
  <2>8. Sound(k)
    BY <1>2, <1>6, <2>5, <2>6, <2>7, SoundFile
  <2> QED BY <2>7, <2>8, <2>9 DEF Production, k
<1> QED BY <1>5, <1>6

\* Promoting several packages that are found among the indirect ones.
LEMMA PromoteIndirectKeeps ==
  ASSUME NEW j, Sound(j), NEW S, S \subseteq Listed(j), S # {} => IsApp(j),
         \A p \in S : find_package_map(j, p) = "indirect"
  PROVE  /\ Sound(PromoteIndirect(j, S)) /\ Keeps(j, PromoteIndirect(j, S))
         /\ Production(PromoteIndirect(j, S)) = Production(j)
         /\ ListedOnce(j) => ListedOnce(PromoteIndirect(j, S))
<1> DEFINE at == S \X {"direct"}
           e == j["indirect"]
           a == Put(j, at, e)
           k == package_map_remove(a, "indirect", S)
<1>1. PromoteIndirect(j, S) = k
  BY DEF PromoteIndirect, package_map_remove
<1>2. /\ j \in File
      /\ IsApp(j) => \A m \in MapNames : \A p \in DOMAIN j[m] : ~j[m][p].caret
      /\ ~IsApp(j) => DOMAIN j["indirect"] = {} /\ DOMAIN j["test_indirect"] = {}
      /\ \A p : /\ ~(p \in DOMAIN j["direct"] /\ p \in DOMAIN j["indirect"])
                /\ ~(p \in DOMAIN j["test_direct"] /\ p \in DOMAIN j["test_indirect"])
      /\ \A m \in MapNames : DOMAIN j[m] \subseteq Packages
      /\ \A m \in MapNames : \A p \in DOMAIN j[m] : j[m][p] \in Entry
  BY SoundMaps
<1>3. /\ "direct" \in MapNames /\ "indirect" \in MapNames
      /\ "test_direct" \in MapNames /\ "test_indirect" \in MapNames
      /\ \A m \in MapNames : Rank["direct"] <= Rank[m]
      /\ Rank["direct"] < Rank["indirect"]
  BY DEF MapNames, Rank
<1>4. \A p \in S : p \in DOMAIN j["indirect"] /\ p \notin DOMAIN j["direct"]
  BY <1>2, FirstHome
<1>5. at \in SUBSET (Packages \X MapNames) /\ \A b \in at : e[b[1]] \in Entry
  BY <1>2, <1>3, <1>4
<1>6. a \in File
  BY <1>2, <1>5, PutFile
<1>7. \A p, m : <<p, m>> \in at <=> p \in S /\ m = "direct"
  OBVIOUS
<1> HIDE DEF at, e
<1>8. \A m \in MapNames : /\ \A p : p \in DOMAIN a[m] <=> p \in DOMAIN j[m] \/ <<p, m>> \in at
                          /\ \A p \in DOMAIN a[m] : a[m][p] = IF <<p, m>> \in at THEN e[p] ELSE j[m][p]
                          /\ a.kind = j.kind
  <2>1. \A m \in MapNames : PutIn(j, at, e, a, m)
    BY <1>2, <1>5, PutMaps
  <2> QED BY <2>1 DEF PutIn
<1> HIDE DEF a
<1>9. /\ k \in File /\ k.kind = a.kind
      /\ DOMAIN k["indirect"] = DOMAIN a["indirect"] \ S
      /\ \A p \in DOMAIN a["indirect"] \ S : k["indirect"][p] = a["indirect"][p]
      /\ \A m \in MapNames \ {"indirect"} : k[m] = a[m]
  BY <1>3, <1>6, RemoveFromOne
<1> HIDE DEF k
<1>10. \A p : /\ p \in DOMAIN k["direct"] <=> p \in DOMAIN j["direct"] \/ p \in S
              /\ p \in DOMAIN k["indirect"] <=> p \in DOMAIN j["indirect"] /\ p \notin S
              /\ p \in DOMAIN k["test_direct"] <=> p \in DOMAIN j["test_direct"]
              /\ p \in DOMAIN k["test_indirect"] <=> p \in DOMAIN j["test_indirect"]
  BY <1>3, <1>7, <1>8, <1>9
<1>11. \A p : p \notin S => \A m \in MapNames : p \in DOMAIN k[m] <=> p \in DOMAIN j[m]
  BY <1>10 DEF MapNames
<1>12. \A m \in MapNames : \A p \in DOMAIN k[m] : k[m][p] = IF p \in S /\ m = "direct" THEN e[p] ELSE j[m][p]
  <2> TAKE m \in MapNames
  <2> TAKE p \in DOMAIN k[m]
  <2>1. CASE m = "indirect"
    <3>1. p \in DOMAIN a["indirect"] \ S
      BY <1>9, <2>1
    <3>2. k[m][p] = a[m][p] /\ <<p, m>> \notin at
      BY <1>7, <1>9, <2>1, <3>1
    <3> QED BY <1>3, <1>8, <2>1, <3>1, <3>2
  <2>2. CASE m # "indirect"
    <3>1. k[m] = a[m]
      BY <1>9, <2>2
    <3> QED BY <1>7, <1>8, <3>1
  <2> QED BY <2>1, <2>2
<1>13. Sound(k)
  <2>1. \A m \in MapNames : \A p \in DOMAIN k[m] : IsApp(j) => ~k[m][p].caret
    <3> SUFFICES ASSUME NEW m \in MapNames, NEW p \in DOMAIN k[m], IsApp(j) PROVE ~k[m][p].caret
      OBVIOUS
    <3>1. CASE p \in S /\ m = "direct"
      BY <1>2, <1>3, <1>4, <1>12, <3>1 DEF e
    <3>2. CASE p \in S /\ m # "direct"
      <4>1. p \in DOMAIN j[m]
        BY <1>10, <3>2 DEF MapNames
      <4> QED BY <1>2, <1>12, <3>2, <4>1
    <3>3. CASE p \notin S
      BY <1>2, <1>11, <1>12, <3>3
    <3> QED BY <3>1, <3>2, <3>3
  <2>2. ~IsApp(j) => DOMAIN k["indirect"] = {} /\ DOMAIN k["test_indirect"] = {}
    BY <1>2, <1>10
  <2>3. \A p \in Packages : /\ ~(p \in DOMAIN k["direct"] /\ p \in DOMAIN k["indirect"])
                            /\ ~(p \in DOMAIN k["test_direct"] /\ p \in DOMAIN k["test_indirect"])
    BY <1>2, <1>10
  <2>4. k.kind = j.kind
    BY <1>3, <1>8, <1>9
  <2> QED BY <1>9, <2>1, <2>2, <2>3, <2>4, SoundFile
<1>14. ASSUME NEW p, p \notin S
       PROVE  /\ p \in Listed(k) <=> p \in Listed(j)
              /\ p \in Listed(j) => find_existing_package(k, p) = find_existing_package(j, p)
  <2>1. \A m \in MapNames : p \in DOMAIN j[m] <=> p \in DOMAIN k[m]
    BY <1>11, <1>14
  <2>2. \A m \in MapNames : p \in DOMAIN j[m] => k[m][p] = j[m][p]
    BY <1>12, <1>14, <2>1
  <2> QED BY <2>1, <2>2, OthersKeep
<1>15. ASSUME NEW p \in S
       PROVE  p \in Listed(k) /\ find_existing_package(k, p) = find_existing_package(j, p)
  <2>1. p \in DOMAIN k["direct"] /\ k["direct"][p] = e[p]
    BY <1>3, <1>10, <1>12
  <2>2. find_package_map(k, p) = "direct"
    BY <1>3, <2>1, HomeIs
  <2> QED BY <1>3, <2>1, <2>2 DEF Listed, find_existing_package, e
<1>16. Keeps(j, k)
  <2>1. Listed(k) = Listed(j)
    BY <1>14, <1>15
  <2> QED BY <1>3, <1>8, <1>9, <1>14, <1>15, <2>1 DEF Keeps
<1>17. Production(k) = Production(j)
  BY <1>4, <1>10 DEF Production
<1>18. ASSUME ListedOnce(j), NEW p \in Listed(k) PROVE \E m \in MapNames : Homes(k, p) = {m}
  <2>1. p \in Listed(j)
    BY <1>16 DEF Keeps
  <2>2. CASE p \in S
    <3>1. Homes(j, p) = {"indirect"}
      BY <1>3, <1>4, <1>18, <2>1, <2>2 DEF ListedOnce, Homes
    <3>2. p \notin DOMAIN j["test_direct"] /\ p \notin DOMAIN j["test_indirect"]
      BY <1>3, <3>1 DEF Homes
    <3>3. Homes(k, p) = {"direct"}
      BY <1>10, <2>2, <3>2 DEF Homes, MapNames
    <3> QED BY <1>3, <3>3
  <2>3. CASE p \notin S
    <3>1. Homes(k, p) = Homes(j, p)
      BY <1>11, <2>3 DEF Homes
    <3> QED BY <1>18, <2>1, <3>1 DEF ListedOnce
  <2> QED BY <2>2, <2>3
<1> QED BY <1>1, <1>13, <1>16, <1>17, <1>18 DEF ListedOnce

-----------------------------------------------------------------------------
(* Writing a plan *)

\* The changes are in the file, in the first map that lists their package;
\* everything else is as it was.
Wrote(j, k, changes) ==
  /\ k.kind = j.kind /\ Listed(k) = Listed(j) \cup DOMAIN changes
  /\ \A p \in Listed(j) \ DOMAIN changes : find_existing_package(k, p) = find_existing_package(j, p)
  /\ \A p \in DOMAIN changes : VersionIn(k, p) = changes[p]
  /\ \A p \in Listed(j) : \A m \in MapNames : p \in DOMAIN k[m] <=> p \in DOMAIN j[m]
  /\ \A p \in DOMAIN changes \ Listed(j) : \E m \in MapNames : Homes(k, p) = {m}

\* The places are maps that list the package, the first of them among them,
\* or one map for a package that is new.
LEMMA PutWrites ==
  ASSUME NEW j, Sound(j), NEW changes, NEW at \in SUBSET (Packages \X MapNames), NEW e,
         \A a \in at : a[1] \in DOMAIN changes,
         \A p \in DOMAIN changes : e[p] \in Entry /\ e[p].from = changes[p],
         IsApp(j) => \A p \in DOMAIN changes : ~e[p].caret,
         \A p \in DOMAIN changes \cap Listed(j) :
           /\ <<p, find_package_map(j, p)>> \in at
           /\ \A m \in MapNames : <<p, m>> \in at => p \in DOMAIN j[m],
         \A p \in DOMAIN changes \ Listed(j) :
           \E m \in MapNames : /\ \A n \in MapNames : <<p, n>> \in at <=> n = m
                               /\ ~IsApp(j) => m \in DirectMaps
  PROVE  Sound(Put(j, at, e)) /\ Wrote(j, Put(j, at, e), changes)
<1> DEFINE k == Put(j, at, e)
<1>1. /\ j \in File
      /\ IsApp(j) => \A m \in MapNames : \A p \in DOMAIN j[m] : ~j[m][p].caret
      /\ ~IsApp(j) => DOMAIN j["indirect"] = {} /\ DOMAIN j["test_indirect"] = {}
      /\ \A p : /\ ~(p \in DOMAIN j["direct"] /\ p \in DOMAIN j["indirect"])
                /\ ~(p \in DOMAIN j["test_direct"] /\ p \in DOMAIN j["test_indirect"])
  BY SoundMaps
<1>2. \A a \in at : e[a[1]] \in Entry
  OBVIOUS
<1>3. k \in File
  BY <1>1, <1>2, PutFile
<1>4. ASSUME NEW m \in MapNames
      PROVE  /\ \A p : p \in DOMAIN k[m] <=> p \in DOMAIN j[m] \/ <<p, m>> \in at
             /\ \A p \in DOMAIN k[m] : k[m][p] = IF <<p, m>> \in at THEN e[p] ELSE j[m][p]
             /\ k.kind = j.kind
  <2>1. j \in File
    BY <1>1
  <2>2. PutIn(j, at, e, k, m)
    BY <2>1, PutMaps
  <2> HIDE DEF k
  <2> QED BY <2>2 DEF PutIn
<1> HIDE DEF k
<1>5. \A p, m : <<p, m>> \in at => p \in DOMAIN changes /\ m \in MapNames
  <2> SUFFICES ASSUME NEW p, NEW m, <<p, m>> \in at PROVE p \in DOMAIN changes /\ m \in MapNames
    OBVIOUS
  <2>1. <<p, m>>[1] \in DOMAIN changes
    OBVIOUS
  <2> QED BY <2>1
<1>6. k.kind = j.kind
  BY <1>4 DEF MapNames
<1>7. \A p \in Listed(j) : \A m \in MapNames : p \in DOMAIN k[m] <=> p \in DOMAIN j[m]
  BY <1>4, <1>5
<1>8. Listed(k) = Listed(j) \cup DOMAIN changes
  <2>1. ASSUME NEW p \in Listed(k) PROVE p \in Listed(j) \cup DOMAIN changes
    <3>1. PICK m \in MapNames : p \in DOMAIN k[m]
      BY DEF Listed
    <3>2. CASE p \in DOMAIN j[m] BY <3>2 DEF Listed
    <3>3. CASE <<p, m>> \in at BY <1>5, <3>3
    <3> QED BY <1>4, <3>1, <3>2, <3>3
  <2>2. ASSUME NEW p \in Listed(j) PROVE p \in Listed(k)
    BY <1>7 DEF Listed
  <2>3. ASSUME NEW p \in DOMAIN changes \ Listed(j) PROVE p \in Listed(k)
    <3>1. PICK m \in MapNames : <<p, m>> \in at
      OBVIOUS
    <3>2. p \in DOMAIN k[m]
      BY <1>4, <3>1
    <3> QED BY <3>2 DEF Listed
  <2> QED BY <2>1, <2>2, <2>3
<1>9. ASSUME NEW p \in Listed(j)
      PROVE  /\ find_package_map(k, p) = find_package_map(j, p)
             /\ p \notin DOMAIN changes => find_existing_package(k, p) = find_existing_package(j, p)
             /\ p \in DOMAIN changes => VersionIn(k, p) = changes[p]
  <2> DEFINE h == find_package_map(j, p)
  <2>1. find_package_map(k, p) = h
    BY <1>7, SameHome
  <2>2. h \in MapNames /\ p \in DOMAIN j[h] /\ p \in DOMAIN k[h]
    BY <1>7, FirstHome
  <2>4. p \notin DOMAIN changes => k[h][p] = j[h][p]
    BY <1>4, <1>5, <2>2
  <2>5. p \in DOMAIN changes => k[h][p] = e[p]
    BY <1>4, <2>2
  <2> HIDE DEF h
  <2> QED BY <2>1, <2>4, <2>5 DEF find_existing_package, VersionIn, h
<1>10. ASSUME NEW p \in DOMAIN changes \ Listed(j)
       PROVE  /\ \E m \in MapNames : Homes(k, p) = {m} /\ (~IsApp(j) => m \in DirectMaps)
              /\ VersionIn(k, p) = changes[p]
  <2>1. PICK m \in MapNames : /\ \A n \in MapNames : <<p, n>> \in at <=> n = m
                              /\ ~IsApp(j) => m \in DirectMaps
    OBVIOUS
  <2>2. \A n \in MapNames : p \notin DOMAIN j[n]
    BY DEF Listed
  <2>3. \A n \in MapNames : p \in DOMAIN k[n] <=> n = m
    BY <1>4, <2>1, <2>2
  <2>4. Homes(k, p) = {m}
    BY <2>3 DEF Homes
  <2>5. p \in Listed(k)
    BY <1>8
  <2>6. find_package_map(k, p) = m
    BY <2>3, <2>5, FirstHome
  <2>7. k[m][p] = e[p]
    BY <1>4, <2>1, <2>3
  <2> QED BY <2>1, <2>4, <2>6, <2>7 DEF VersionIn, find_existing_package
<1>11. Wrote(j, k, changes)
  BY <1>6, <1>7, <1>8, <1>9, <1>10 DEF Wrote
<1>12. \A m \in MapNames : \A p \in DOMAIN k[m] : IsApp(j) => ~k[m][p].caret
  BY <1>1, <1>4, <1>5
<1>13. \A m \in MapNames : \A p \in DOMAIN k[m] : p \notin DOMAIN j[m] => p \in DOMAIN changes \ Listed(j)
  BY <1>4, <1>5, <1>7 
<1>14. {"direct", "indirect", "test_direct", "test_indirect"} = MapNames /\ DirectMaps = {"direct", "test_direct"}
  BY DEF MapNames, DirectMaps
<1>15. ~IsApp(j) => DOMAIN k["indirect"] = {} /\ DOMAIN k["test_indirect"] = {}
  <2> SUFFICES ASSUME ~IsApp(j), NEW m \in {"indirect", "test_indirect"}, NEW p \in DOMAIN k[m] PROVE FALSE
    OBVIOUS
  <2>1. m \in MapNames /\ p \notin DOMAIN j[m] /\ m \notin DirectMaps
    BY <1>1, <1>14
  <2>2. p \in DOMAIN changes \ Listed(j) /\ m \in Homes(k, p)
    BY <1>13, <2>1 DEF Homes
  <2> QED BY <1>10, <2>1, <2>2
<1>16. ASSUME NEW p \in Packages, NEW m \in MapNames, NEW n \in MapNames \ {m},
              p \in DOMAIN k[m], p \in DOMAIN k[n]
       PROVE  p \in DOMAIN j[m] /\ p \in DOMAIN j[n]
  <2>1. p \in Listed(j)
    <3> SUFFICES ASSUME p \notin Listed(j) PROVE FALSE
      OBVIOUS
    <3>1. p \notin DOMAIN j[m]
      BY DEF Listed
    <3>2. p \in DOMAIN changes \ Listed(j)
      BY <1>13, <1>16, <3>1
    <3>3. m \in Homes(k, p) /\ n \in Homes(k, p)
      BY <1>16 DEF Homes
    <3> QED BY <1>10, <3>2, <3>3
  <2> QED BY <1>7, <1>16, <2>1
<1>17. \A p \in Packages : /\ ~(p \in DOMAIN k["direct"] /\ p \in DOMAIN k["indirect"])
                           /\ ~(p \in DOMAIN k["test_direct"] /\ p \in DOMAIN k["test_indirect"])
  BY <1>1, <1>14, <1>16
<1>18. Sound(k)
  BY <1>3, <1>6, <1>12, <1>15, <1>17, SoundFile
<1> QED BY <1>11, <1>18 DEF k

\* What is written for a version.
LEMMA NewEntries ==
  ASSUME NEW j, NEW v \in AllVersions
  PROVE  /\ NewEntry(j, v) \in Entry /\ NewEntry(j, v).from = v /\ (IsApp(j) => ~NewEntry(j, v).caret)
         /\ Bare(v) \in Entry /\ Bare(v).from = v /\ ~Bare(v).caret
BY DEF NewEntry, Entry, Bare, version_to_constraint

\* A plan gives its packages versions that exist.
LEMMA PlanTypes ==
  ASSUME NEW changes \in Partial(Packages, AllVersions)
  PROVE  DOMAIN changes \subseteq Packages /\ \A p \in DOMAIN changes : changes[p] \in AllVersions
BY DEF Partial

\* Where a change is written: the first map that lists its package, or the map
\* for packages that are new.
PlaceOf(j, t, requested, p) ==
  IF p \in Listed(j) THEN find_package_map(j, p) ELSE DefaultMap(j, t, p \in requested)

\* The place of a change is the map that lists the package, or a new one.
LEMMA PlaceIs ==
  ASSUME NEW j, NEW t, NEW requested, NEW p
  PROVE  /\ PlaceOf(j, t, requested, p) \in MapNames
         /\ p \in Listed(j) => /\ PlaceOf(j, t, requested, p) = find_package_map(j, p)
                               /\ p \in DOMAIN j[PlaceOf(j, t, requested, p)]
         /\ p \notin Listed(j) /\ ~IsApp(j) => PlaceOf(j, t, requested, p) \in DirectMaps
<1>1. CASE p \in Listed(j)
  BY <1>1, FirstHome DEF PlaceOf
<1>2. CASE p \notin Listed(j)
  <2>1. PlaceOf(j, t, requested, p) = DefaultMap(j, t, p \in requested)
    BY <1>2 DEF PlaceOf
  <2> DEFINE d == p \in requested
  <2>2. DefaultMap(j, t, d) \in MapNames /\ (~IsApp(j) => DefaultMap(j, t, d) \in DirectMaps)
    BY DEF DefaultMap, MapNames, DirectMaps
  <2> QED BY <1>2, <2>1, <2>2
<1> QED BY <1>1, <1>2

\* Changes written at their one place each.
LEMMA WriteAtPlaces ==
  ASSUME NEW j, Sound(j), NEW changes \in Partial(Packages, AllVersions), NEW t, NEW requested, NEW e,
         \A p \in DOMAIN changes : e[p] \in Entry /\ e[p].from = changes[p],
         IsApp(j) => \A p \in DOMAIN changes : ~e[p].caret
  PROVE  LET k == Put(j, {<<p, PlaceOf(j, t, requested, p)>> : p \in DOMAIN changes}, e) IN
           Sound(k) /\ Wrote(j, k, changes)
<1> DEFINE at == {<<p, PlaceOf(j, t, requested, p)>> : p \in DOMAIN changes}
<1>1. DOMAIN changes \subseteq Packages
  BY PlanTypes
<1>2. at \in SUBSET (Packages \X MapNames) /\ \A a \in at : a[1] \in DOMAIN changes
  BY <1>1, PlaceIs
<1>3. \A p, m : <<p, m>> \in at <=> p \in DOMAIN changes /\ m = PlaceOf(j, t, requested, p)
  OBVIOUS
<1> HIDE DEF at
<1>4. \A p \in DOMAIN changes \cap Listed(j) :
        /\ <<p, find_package_map(j, p)>> \in at
        /\ \A m \in MapNames : <<p, m>> \in at => p \in DOMAIN j[m]
  BY <1>3, PlaceIs
<1>5. ASSUME NEW p \in DOMAIN changes \ Listed(j)
      PROVE  \E m \in MapNames : /\ \A n \in MapNames : <<p, n>> \in at <=> n = m
                                 /\ ~IsApp(j) => m \in DirectMaps
  <2> DEFINE m == PlaceOf(j, t, requested, p)
  <2>1. m \in MapNames /\ (~IsApp(j) => m \in DirectMaps)
    BY PlaceIs
  <2>2. \A n : <<p, n>> \in at <=> n = m
    BY <1>3
  <2> HIDE DEF m
  <2> QED BY <2>1, <2>2
<1>6. Sound(Put(j, at, e)) /\ Wrote(j, Put(j, at, e), changes)
  BY <1>2, <1>4, <1>5, PutWrites
<1> QED BY <1>6 DEF at

\* What install writes.
LEMMA AddOrUpdateWrites ==
  ASSUME NEW j, Sound(j), NEW changes \in Partial(Packages, AllVersions), NEW requested, NEW t
  PROVE  /\ Sound(add_or_update(j, changes, requested, t))
         /\ Wrote(j, add_or_update(j, changes, requested, t), changes)
<1> DEFINE e == [p \in DOMAIN changes |-> NewEntry(j, changes[p])]
<1>1. \A p \in DOMAIN changes : e[p] = NewEntry(j, changes[p])
  OBVIOUS
<1> HIDE DEF e
<1>2. /\ \A p \in DOMAIN changes : e[p] \in Entry /\ e[p].from = changes[p]
      /\ IsApp(j) => \A p \in DOMAIN changes : ~e[p].caret
  BY <1>1, NewEntries, PlanTypes
<1>3. add_or_update(j, changes, requested, t)
        = Put(j, {<<p, PlaceOf(j, t, requested, p)>> : p \in DOMAIN changes}, e)
  BY DEF add_or_update, PlaceOf, e
<1> QED BY <1>2, <1>3, WriteAtPlaces

\* What an upgrade through a V2 registry writes.
LEMMA ApplyBareWrites ==
  ASSUME NEW j, Sound(j), NEW changes \in Partial(Packages, AllVersions), NEW requested, NEW t
  PROVE  /\ Sound(apply_bare(j, changes, requested, t))
         /\ Wrote(j, apply_bare(j, changes, requested, t), changes)
<1> DEFINE e == [p \in DOMAIN changes |-> Bare(changes[p])]
<1>1. \A p \in DOMAIN changes : e[p] = Bare(changes[p])
  OBVIOUS
<1> HIDE DEF e
<1>2. /\ \A p \in DOMAIN changes : e[p] \in Entry /\ e[p].from = changes[p]
      /\ IsApp(j) => \A p \in DOMAIN changes : ~e[p].caret
  BY <1>1, NewEntries, PlanTypes
<1>3. apply_bare(j, changes, requested, t)
        = Put(j, {<<p, PlaceOf(j, t, requested, p)>> : p \in DOMAIN changes}, e)
  BY DEF apply_bare, PlaceOf, e
<1> QED BY <1>2, <1>3, WriteAtPlaces

\* What an upgrade through a V1 registry writes.
LEMMA ApplyPreservingWrites ==
  ASSUME NEW j, Sound(j), NEW changes \in Partial(Packages, AllVersions), NEW requested, NEW t
  PROVE  /\ Sound(apply_preserving_location(j, changes, requested, t))
         /\ Wrote(j, apply_preserving_location(j, changes, requested, t), changes)
<1> DEFINE e == [p \in DOMAIN changes |-> NewEntry(j, changes[p])]
           at == Everywhere(j, changes)
                   \cup {<<p, DefaultMap(j, t, p \in requested)>> : p \in DOMAIN changes \ Listed(j)}
<1>1. \A p \in DOMAIN changes : e[p] = NewEntry(j, changes[p])
  OBVIOUS
<1>2. apply_preserving_location(j, changes, requested, t) = Put(j, at, e)
  BY DEF apply_preserving_location
<1> HIDE DEF e
<1>3. /\ \A p \in DOMAIN changes : e[p] \in Entry /\ e[p].from = changes[p]
      /\ IsApp(j) => \A p \in DOMAIN changes : ~e[p].caret
  BY <1>1, NewEntries, PlanTypes
<1>4. DOMAIN changes \subseteq Packages
  BY PlanTypes
<1>5. \A p \in DOMAIN changes \ Listed(j) :
        DefaultMap(j, t, p \in requested) = PlaceOf(j, t, requested, p)
  BY DEF PlaceOf
<1>6. at = Everywhere(j, changes) \cup {<<p, PlaceOf(j, t, requested, p)>> : p \in DOMAIN changes \ Listed(j)}
  BY <1>5
<1> HIDE DEF at
<1>7. \A p, m : <<p, m>> \in Everywhere(j, changes) <=>
                  p \in DOMAIN changes /\ m \in MapNames /\ p \in DOMAIN j[m]
  BY DEF Everywhere
<1>8. \A p, m : <<p, m>> \in at <=>
                  \/ p \in DOMAIN changes /\ m \in MapNames /\ p \in DOMAIN j[m]
                  \/ p \in DOMAIN changes \ Listed(j) /\ m = PlaceOf(j, t, requested, p)
  BY <1>6, <1>7
<1>9. at \in SUBSET (Packages \X MapNames) /\ \A a \in at : a[1] \in DOMAIN changes
  <2>1. \A a \in Everywhere(j, changes) : a \in (DOMAIN changes) \X MapNames
    BY DEF Everywhere
  <2>2. \A p \in DOMAIN changes : PlaceOf(j, t, requested, p) \in MapNames
    BY PlaceIs
  <2>3. \A a \in at : a \in (DOMAIN changes) \X MapNames
    BY <1>6, <2>1, <2>2
  <2> QED BY <1>4, <2>3
<1>10. \A p \in DOMAIN changes \cap Listed(j) :
        /\ <<p, find_package_map(j, p)>> \in at
        /\ \A m \in MapNames : <<p, m>> \in at => p \in DOMAIN j[m]
  BY <1>8, FirstHome
<1>11. ASSUME NEW p \in DOMAIN changes \ Listed(j)
       PROVE  \E m \in MapNames : /\ \A n \in MapNames : <<p, n>> \in at <=> n = m
                                  /\ ~IsApp(j) => m \in DirectMaps
  <2> DEFINE m == PlaceOf(j, t, requested, p)
  <2>1. m \in MapNames /\ (~IsApp(j) => m \in DirectMaps)
    BY PlaceIs
  <2>2. \A n \in MapNames : p \notin DOMAIN j[n]
    BY DEF Listed
  <2>3. \A n \in MapNames : <<p, n>> \in at <=> n = m
    BY <1>8, <2>2
  <2> HIDE DEF m
  <2> QED BY <2>1, <2>3
<1>12. Sound(Put(j, at, e)) /\ Wrote(j, Put(j, at, e), changes)
  BY <1>3, <1>9, <1>10, <1>11, PutWrites
<1> QED BY <1>2, <1>12

-----------------------------------------------------------------------------
(* Removal *)

\* The map that a direct dependency is demoted to does not list it.
LEMMA CounterpartFree ==
  ASSUME NEW j, Sound(j), NEW p \in Listed(j), find_package_map(j, p) \in DirectMaps
  PROVE  LET h == find_package_map(j, p) IN
           /\ Counterpart(h) \in MapNames \ DirectMaps /\ p \notin DOMAIN j[Counterpart(h)]
           /\ h = "direct" => Counterpart(h) = "indirect"
           /\ h = "test_direct" => /\ Counterpart(h) = "test_indirect"
                                   /\ p \notin DOMAIN j["direct"] /\ p \notin DOMAIN j["indirect"]
<1> DEFINE h == find_package_map(j, p)
<1>1. h \in DirectMaps /\ p \in DOMAIN j[h] /\ \A m \in MapNames : p \in DOMAIN j[m] => Rank[h] <= Rank[m]
  BY FirstHome
<1> HIDE DEF h
<1>2. \A q : /\ ~(q \in DOMAIN j["direct"] /\ q \in DOMAIN j["indirect"])
             /\ ~(q \in DOMAIN j["test_direct"] /\ q \in DOMAIN j["test_indirect"])
  BY SoundMaps
<1>3. h = "direct" => Counterpart(h) = "indirect" /\ p \notin DOMAIN j["indirect"]
  BY <1>1, <1>2 DEF Counterpart
<1>4. h = "test_direct" => /\ Counterpart(h) = "test_indirect" /\ p \notin DOMAIN j["test_indirect"]
                           /\ p \notin DOMAIN j["direct"] /\ p \notin DOMAIN j["indirect"]
  BY <1>1, <1>2 DEF Counterpart, Rank, MapNames
<1>5. h \in {"direct", "test_direct"} /\ {"indirect", "test_indirect"} \subseteq MapNames \ DirectMaps
  BY <1>1 DEF DirectMaps, MapNames
<1> QED BY <1>3, <1>4, <1>5 DEF h

\* Which map a package is listed in after demotion.
DemotedTo(j, S, p, m) ==
  IF p \in S THEN \/ m = Counterpart(find_package_map(j, p))
                  \/ p \in DOMAIN j[m] /\ m # find_package_map(j, p)
  ELSE p \in DOMAIN j[m]

\* Demotion moves each package from its first map to the counterpart.
DemotedIs(j, S, k) ==
  /\ k \in File /\ k.kind = j.kind
  /\ \A m \in MapNames :
       /\ \A p : p \in DOMAIN k[m] <=> DemotedTo(j, S, p, m)
       /\ \A p \in DOMAIN k[m] :
            k[m][p] = IF p \in S /\ m = Counterpart(find_package_map(j, p))
                      THEN find_existing_package(j, p) ELSE j[m][p]

\* Demotion is what DemotedIs says.
LEMMA DemotedMaps ==
  ASSUME NEW j, Sound(j), NEW S \in SUBSET Listed(j), \A p \in S : find_package_map(j, p) \in DirectMaps
  PROVE  DemotedIs(j, S, Demoted(j, S))
<1> DEFINE c(p) == Counterpart(find_package_map(j, p))
           all == {<<p, c(p)>> : p \in S}
           at == {a \in all : a[1] \notin DOMAIN j[a[2]]}
           e == [p \in S |-> find_existing_package(j, p)]
           In(m) == {p \in S : find_package_map(j, p) = m}
           a == Put(j, at, e)
           b == package_map_remove(a, "direct", In("direct"))
           k == package_map_remove(b, "test_direct", In("test_direct"))
<1>1. /\ j \in File
      /\ \A m \in MapNames : DOMAIN j[m] \subseteq Packages
      /\ \A m \in MapNames : \A p \in DOMAIN j[m] : j[m][p] \in Entry
  BY SoundMaps
<1>2. \A p \in S : c(p) \in MapNames \ DirectMaps /\ p \notin DOMAIN j[c(p)]
  BY CounterpartFree
<1>3. \A p \in S : /\ find_package_map(j, p) \in MapNames /\ p \in DOMAIN j[find_package_map(j, p)]
                   /\ find_existing_package(j, p) \in Entry /\ p \in Packages
  BY <1>1, FirstHome DEF find_existing_package
<1>4. \A p, m : <<p, m>> \in at <=> p \in S /\ m = c(p)
  <2> TAKE p, m
  <2>1. <<p, m>> \in all <=> p \in S /\ m = c(p)
    OBVIOUS
  <2>2. <<p, m>> \in at <=> <<p, m>> \in all /\ p \notin DOMAIN j[m]
    OBVIOUS
  <2> HIDE DEF at, all
  <2> QED BY <1>2, <2>1, <2>2
<1>5. at \in SUBSET (Packages \X MapNames) /\ \A x \in at : e[x[1]] \in Entry
  <2>1. \A x \in all : x \in Packages \X MapNames /\ x[1] \in S
    BY <1>2, <1>3
  <2>2. \A p \in S : e[p] \in Entry
    BY <1>3
  <2> HIDE DEF e, all
  <2> QED BY <2>1, <2>2
<1>6. \A p \in S : e[p] = find_existing_package(j, p)
  OBVIOUS
<1>7. Demoted(j, S) = [a EXCEPT !.direct = Without(@, In("direct")), !.test_direct = Without(@, In("test_direct"))]
  BY DEF Demoted
<1> HIDE DEF at, e, In
<1>8. a \in File
  BY <1>1, <1>5, PutFile
<1>9. /\ a.kind = j.kind
      /\ \A m \in MapNames :
           /\ \A p : p \in DOMAIN a[m] <=> p \in DOMAIN j[m] \/ <<p, m>> \in at
           /\ \A p \in DOMAIN a[m] : a[m][p] = IF <<p, m>> \in at THEN e[p] ELSE j[m][p]
  <2>1. \A m \in MapNames : PutIn(j, at, e, a, m)
    BY <1>1, <1>5, PutMaps
  <2> HIDE DEF a
  <2> QED BY <2>1 DEF PutIn, MapNames
<1> HIDE DEF a
<1>10. Demoted(j, S) = k
  BY <1>7, <1>8 DEF package_map_remove, File
<1>11. "direct" \in MapNames /\ "test_direct" \in MapNames /\ DirectMaps = {"direct", "test_direct"}
  BY DEF MapNames, DirectMaps
<1>12. /\ b \in File /\ b.kind = a.kind
       /\ DOMAIN b["direct"] = DOMAIN a["direct"] \ In("direct")
       /\ \A p \in DOMAIN a["direct"] \ In("direct") : b["direct"][p] = a["direct"][p]
       /\ \A m \in MapNames \ {"direct"} : b[m] = a[m]
  BY <1>8, <1>11, RemoveFromOne
<1> HIDE DEF b
<1>13. /\ k \in File /\ k.kind = b.kind
       /\ DOMAIN k["test_direct"] = DOMAIN b["test_direct"] \ In("test_direct")
       /\ \A p \in DOMAIN b["test_direct"] \ In("test_direct") : k["test_direct"][p] = b["test_direct"][p]
       /\ \A m \in MapNames \ {"test_direct"} : k[m] = b[m]
  BY <1>11, <1>12, RemoveFromOne
<1> HIDE DEF k
<1>14. ASSUME NEW m \in MapNames
       PROVE  /\ \A p : p \in DOMAIN k[m] <=> p \in DOMAIN a[m] /\ ~(p \in S /\ m = find_package_map(j, p))
              /\ \A p \in DOMAIN k[m] : k[m][p] = a[m][p]
  <2>1. \A p : p \in In(m) <=> p \in S /\ m = find_package_map(j, p)
    BY DEF In
  <2>2. CASE m = "direct"
    <3>1. k["direct"] = b["direct"]
      BY <1>11, <1>13
    <3> QED BY <1>12, <2>1, <2>2, <3>1
  <2>3. CASE m = "test_direct"
    <3>1. b["test_direct"] = a["test_direct"]
      BY <1>11, <1>12
    <3> QED BY <1>13, <2>1, <2>3, <3>1
  <2>4. CASE m \notin {"direct", "test_direct"}
    <3>1. k[m] = a[m]
      BY <1>12, <1>13, <2>4
    <3> QED BY <1>11, <2>4, <3>1
  <2> QED BY <2>2, <2>3, <2>4
<1>15. ASSUME NEW m \in MapNames, NEW p PROVE p \in DOMAIN k[m] <=> DemotedTo(j, S, p, m)
  <2>1. CASE p \in S
    <3>1. m = c(p) => m # find_package_map(j, p) /\ p \notin DOMAIN j[m]
      BY <1>2, <2>1
    <3>2. p \in DOMAIN k[m] <=> (p \in DOMAIN j[m] \/ m = c(p)) /\ m # find_package_map(j, p)
      BY <1>4, <1>9, <1>14, <2>1
    <3> QED BY <2>1, <3>1, <3>2 DEF DemotedTo
  <2>2. CASE p \notin S
    <3>1. p \in DOMAIN k[m] <=> p \in DOMAIN j[m]
      BY <1>4, <1>9, <1>14, <2>2
    <3> QED BY <2>2, <3>1 DEF DemotedTo
  <2> QED BY <2>1, <2>2
<1>16. ASSUME NEW m \in MapNames, NEW p \in DOMAIN k[m]
       PROVE  k[m][p] = IF p \in S /\ m = c(p) THEN find_existing_package(j, p) ELSE j[m][p]
  <2>1. k[m][p] = a[m][p] /\ p \in DOMAIN a[m]
    BY <1>14
  <2>2. a[m][p] = IF <<p, m>> \in at THEN e[p] ELSE j[m][p]
    BY <1>9, <2>1
  <2> QED BY <1>4, <1>6, <2>1, <2>2
<1> QED BY <1>9, <1>10, <1>12, <1>13, <1>15, <1>16 DEF DemotedIs

\* Demotion keeps every package and its entry.
LEMMA DemotedKeeps ==
  ASSUME NEW j, Sound(j), IsApp(j),
         NEW S \in SUBSET Listed(j), \A p \in S : find_package_map(j, p) \in DirectMaps,
         NEW k, DemotedIs(j, S, k)
  PROVE  Sound(k) /\ Keeps(j, k) /\ (ListedOnce(j) => ListedOnce(k))
<1>1. /\ j \in File
      /\ \A m \in MapNames : \A p \in DOMAIN j[m] : ~j[m][p].caret
      /\ \A p : /\ ~(p \in DOMAIN j["direct"] /\ p \in DOMAIN j["indirect"])
                /\ ~(p \in DOMAIN j["test_direct"] /\ p \in DOMAIN j["test_indirect"])
  BY SoundMaps
<1>2. /\ k \in File /\ k.kind = j.kind
      /\ \A m \in MapNames :
           /\ \A p : p \in DOMAIN k[m] <=> DemotedTo(j, S, p, m)
           /\ \A p \in DOMAIN k[m] :
                k[m][p] = IF p \in S /\ m = Counterpart(find_package_map(j, p))
                          THEN find_existing_package(j, p) ELSE j[m][p]
  BY DEF DemotedIs
<1>3. /\ MapNames = {"direct", "indirect", "test_direct", "test_indirect"}
      /\ DirectMaps = {"direct", "test_direct"}
      /\ Rank["direct"] = 1 /\ Rank["indirect"] = 2 /\ Rank["test_direct"] = 3 /\ Rank["test_indirect"] = 4
  BY DEF MapNames, DirectMaps, Rank
<1>4. ASSUME NEW p \in S
      PROVE  LET h == find_package_map(j, p) IN
               /\ p \in DOMAIN j[h] /\ h \in {"direct", "test_direct"}
               /\ h = "direct" => /\ Counterpart(h) = "indirect" /\ p \notin DOMAIN j["indirect"]
               /\ h = "test_direct" => /\ Counterpart(h) = "test_indirect" /\ p \notin DOMAIN j["test_indirect"]
                                       /\ p \notin DOMAIN j["direct"] /\ p \notin DOMAIN j["indirect"]
  BY <1>3, FirstHome, CounterpartFree
<1>5. ASSUME NEW p, p \notin S
      PROVE  /\ \A m \in MapNames : p \in DOMAIN k[m] <=> p \in DOMAIN j[m]
             /\ \A m \in MapNames : p \in DOMAIN j[m] => k[m][p] = j[m][p]
  BY <1>2, <1>5 DEF DemotedTo
<1>6. ASSUME NEW p \in S
      PROVE  \A m \in MapNames : p \in DOMAIN k[m] <=> \/ m = Counterpart(find_package_map(j, p))
                                                       \/ p \in DOMAIN j[m] /\ m # find_package_map(j, p)
  BY <1>2 DEF DemotedTo
<1>7. ASSUME NEW p \in S
      PROVE  find_package_map(k, p) = Counterpart(find_package_map(j, p)) /\ p \in Listed(k)
  <2> DEFINE h == find_package_map(j, p)
             c == Counterpart(h)
  <2>1. c \in MapNames /\ p \in DOMAIN k[c]
    BY <1>3, <1>4, <1>6
  <2>2. \A m \in MapNames : p \in DOMAIN k[m] => Rank[c] <= Rank[m]
    <3>1. CASE h = "direct"
      <4>1. c = "indirect" /\ p \notin DOMAIN k["direct"]
        BY <1>3, <1>4, <1>6, <3>1
      <4> HIDE DEF c
      <4> QED BY <1>3, <4>1
    <3>2. CASE h = "test_direct"
      <4>1. /\ c = "test_indirect" /\ p \notin DOMAIN k["direct"] /\ p \notin DOMAIN k["indirect"]
            /\ p \notin DOMAIN k["test_direct"]
        BY <1>3, <1>4, <1>6, <3>2
      <4> HIDE DEF c
      <4> QED BY <1>3, <4>1
    <3> QED BY <1>4, <3>1, <3>2
  <2> HIDE DEF c
  <2>3. find_package_map(k, p) = c
    BY <2>1, <2>2, HomeIs
  <2> QED BY <2>1, <2>3 DEF Listed, c
<1>8. ASSUME NEW p \in S
      PROVE  find_existing_package(k, p) = find_existing_package(j, p)
  <2> DEFINE c == Counterpart(find_package_map(j, p))
  <2>1. c \in MapNames /\ p \in DOMAIN k[c]
    BY <1>3, <1>4, <1>6
  <2>2. k[c][p] = find_existing_package(j, p)
    BY <1>2, <2>1
  <2> HIDE DEF c
  <2>3. find_package_map(k, p) = c
    BY <1>7 DEF c
  <2>4. find_existing_package(k, p) = k[c][p]
    BY <2>3 DEF find_existing_package
  <2> QED BY <2>2, <2>4
<1>9. ASSUME NEW p, p \notin S
      PROVE  /\ p \in Listed(k) <=> p \in Listed(j)
             /\ p \in Listed(j) => find_existing_package(k, p) = find_existing_package(j, p)
  <2>1. /\ \A m \in MapNames : p \in DOMAIN j[m] <=> p \in DOMAIN k[m]
        /\ \A m \in MapNames : p \in DOMAIN j[m] => k[m][p] = j[m][p]
    BY <1>5, <1>9
  <2> QED BY <2>1, OthersKeep
<1>10. Keeps(j, k)
  <2>1. Listed(k) = Listed(j)
    BY <1>7, <1>9
  <2> QED BY <1>2, <1>8, <1>9, <2>1 DEF Keeps
<1>11. ASSUME NEW p
       PROVE  /\ ~(p \in DOMAIN k["direct"] /\ p \in DOMAIN k["indirect"])
              /\ ~(p \in DOMAIN k["test_direct"] /\ p \in DOMAIN k["test_indirect"])
  <2>1. CASE p \in S
    <3> DEFINE h == find_package_map(j, p)
    <3>1. CASE h = "direct" BY <1>1, <1>3, <1>4, <1>6, <2>1, <3>1
    <3>2. CASE h = "test_direct" BY <1>1, <1>3, <1>4, <1>6, <2>1, <3>2
    <3> QED BY <1>4, <2>1, <3>1, <3>2
  <2>2. CASE p \notin S
    BY <1>1, <1>3, <1>5, <2>2
  <2> QED BY <2>1, <2>2
<1>12. ASSUME NEW m \in MapNames, NEW p \in DOMAIN k[m]
       PROVE  ~k[m][p].caret
  <2>1. CASE p \in S /\ m = Counterpart(find_package_map(j, p))
    <3>1. k[m][p] = find_existing_package(j, p)
      BY <1>2, <2>1
    <3>2. p \in Listed(j)
      BY <2>1
    <3>3. find_package_map(j, p) \in MapNames /\ p \in DOMAIN j[find_package_map(j, p)]
      BY <3>2, FirstHome
    <3> QED BY <1>1, <3>1, <3>3 DEF find_existing_package
  <2>2. CASE ~(p \in S /\ m = Counterpart(find_package_map(j, p)))
    <3>1. k[m][p] = j[m][p]
      BY <1>2, <2>2
    <3>2. p \in DOMAIN j[m]
      BY <1>5, <1>6, <2>2
    <3> QED BY <1>1, <3>1, <3>2
  <2> QED BY <2>1, <2>2
<1>13. Sound(k)
  <2>1. \A m \in MapNames : \A p \in DOMAIN k[m] : IsApp(j) => ~k[m][p].caret
    BY <1>12
  <2>2. \A p \in Packages : /\ ~(p \in DOMAIN k["direct"] /\ p \in DOMAIN k["indirect"])
                            /\ ~(p \in DOMAIN k["test_direct"] /\ p \in DOMAIN k["test_indirect"])
    BY <1>11
  <2>3. k \in File /\ k.kind = j.kind
    BY <1>2
  <2> QED BY <2>1, <2>2, <2>3, SoundFile
<1>14. ASSUME ListedOnce(j), NEW p \in Listed(k) PROVE \E m \in MapNames : Homes(k, p) = {m}
  <2>1. p \in Listed(j)
    BY <1>10 DEF Keeps
  <2>2. CASE p \in S
    <3> DEFINE h == find_package_map(j, p)
               c == Counterpart(h)
    <3>1. h \in MapNames /\ p \in DOMAIN j[h] /\ c \in MapNames /\ c # h
      BY <1>3, <1>4, <2>2
    <3>2. Homes(j, p) = {h}
      BY <1>14, <2>1, <3>1 DEF ListedOnce, Homes
    <3>3. \A m \in MapNames : p \in DOMAIN k[m] <=> m = c
      BY <1>6, <2>2, <3>2 DEF Homes
    <3> HIDE DEF c
    <3>4. Homes(k, p) = {c}
      BY <3>1, <3>3 DEF Homes
    <3> QED BY <3>1, <3>4
  <2>3. CASE p \notin S
    <3>1. Homes(k, p) = Homes(j, p)
      BY <1>5, <2>3 DEF Homes
    <3> QED BY <1>14, <2>1, <3>1 DEF ListedOnce
  <2> QED BY <2>2, <2>3
<1> QED BY <1>10, <1>13, <1>14 DEF ListedOnce

\* In a sound file there is nothing to restore before the packages that are
\* kept are demoted.
LEMMA RestoredSame ==
  ASSUME NEW j, Sound(j), NEW S \in SUBSET Listed(j), \A p \in S : find_package_map(j, p) \in DirectMaps
  PROVE  Restored(j, S) = j
<1> DEFINE In(m) == {p \in S : Counterpart(find_package_map(j, p)) = m}
<1>1. ASSUME NEW m PROVE \A p \in In(m) : p \notin DOMAIN j[m]
  BY CounterpartFree
<1>2. j \in File
  BY SoundMaps
<1>3. j["indirect"] \in Partial(Packages, Entry) /\ j["test_indirect"] \in Partial(Packages, Entry)
  BY <1>2 DEF File
<1>4. \A f \in Partial(Packages, Entry) : f = [q \in DOMAIN f |-> f[q]]
  BY DEF Partial
<1>5. ASSUME NEW m, j[m] \in Partial(Packages, Entry) PROVE Without(j[m], In(m)) = j[m]
  <2>1. DOMAIN j[m] \ In(m) = DOMAIN j[m]
    BY <1>1
  <2> HIDE DEF In
  <2>2. Without(j[m], In(m)) = [q \in DOMAIN j[m] |-> j[m][q]]
    BY <2>1 DEF Without
  <2> QED BY <1>4, <1>5, <2>2
<1>6. Without(j["indirect"], In("indirect")) = j["indirect"]
  BY <1>3, <1>5
<1>7. Without(j["test_indirect"], In("test_indirect")) = j["test_indirect"]
  BY <1>3, <1>5
<1>8. Restored(j, S) = [j EXCEPT !.indirect = Without(j["indirect"], In("indirect")),
                                 !.test_indirect = Without(j["test_indirect"], In("test_indirect"))]
  BY <1>2 DEF Restored, File
<1> HIDE DEF In
<1>9. Restored(j, S) = [j EXCEPT !.indirect = j["indirect"], !.test_indirect = j["test_indirect"]]
  BY <1>6, <1>7, <1>8
<1> QED BY <1>2, <1>9 DEF File

\* Taking packages away concerns no other ones.
LEMMA RemovedKeeps ==
  ASSUME NEW j, Sound(j), NEW S
  PROVE  LET k == remove_from_all_maps(j, S) IN
           /\ Sound(k) /\ k.kind = j.kind
           /\ ListedOnce(j) => ListedOnce(k)
           /\ Listed(k) = Listed(j) \ S
           /\ \A m \in MapNames : DOMAIN k[m] = DOMAIN j[m] \ S
           /\ \A p \in Listed(k) : find_existing_package(k, p) = find_existing_package(j, p)
<1> DEFINE k == remove_from_all_maps(j, S)
<1>1. /\ j \in File
      /\ IsApp(j) => \A m \in MapNames : \A p \in DOMAIN j[m] : ~j[m][p].caret
      /\ ~IsApp(j) => DOMAIN j["indirect"] = {} /\ DOMAIN j["test_indirect"] = {}
      /\ \A p : /\ ~(p \in DOMAIN j["direct"] /\ p \in DOMAIN j["indirect"])
                /\ ~(p \in DOMAIN j["test_direct"] /\ p \in DOMAIN j["test_indirect"])
  BY SoundMaps
<1>2. /\ k \in File /\ k.kind = j.kind
      /\ \A m \in MapNames : DOMAIN k[m] = DOMAIN j[m] \ S /\ \A p \in DOMAIN j[m] \ S : k[m][p] = j[m][p]
  BY <1>1, RemoveFromAll
<1> HIDE DEF k
<1>3. Listed(k) = Listed(j) \ S
  BY <1>2 DEF Listed
<1>4. ASSUME NEW p \in Listed(k)
      PROVE  find_existing_package(k, p) = find_existing_package(j, p) /\ Homes(k, p) = Homes(j, p)
  <2>1. p \notin S /\ p \in Listed(j)
    BY <1>3
  <2>2. \A m \in MapNames : p \in DOMAIN j[m] <=> p \in DOMAIN k[m]
    BY <1>2, <2>1
  <2>3. \A m \in MapNames : p \in DOMAIN j[m] => k[m][p] = j[m][p]
    BY <1>2, <2>1
  <2> QED BY <2>1, <2>2, <2>3, OthersKeep DEF Homes
<1>5. {"direct", "indirect", "test_direct", "test_indirect"} = MapNames
  BY DEF MapNames
<1>6. Sound(k)
  <2>1. \A m \in MapNames : \A p \in DOMAIN k[m] : IsApp(j) => ~k[m][p].caret
    BY <1>1, <1>2
  <2>2. ~IsApp(j) => DOMAIN k["indirect"] = {} /\ DOMAIN k["test_indirect"] = {}
    BY <1>1, <1>2, <1>5
  <2>3. \A p \in Packages : /\ ~(p \in DOMAIN k["direct"] /\ p \in DOMAIN k["indirect"])
                            /\ ~(p \in DOMAIN k["test_direct"] /\ p \in DOMAIN k["test_indirect"])
    BY <1>1, <1>2, <1>5
  <2> QED BY <1>2, <2>1, <2>2, <2>3, SoundFile
<1>7. ListedOnce(j) => ListedOnce(k)
  BY <1>3, <1>4 DEF ListedOnce
<1> QED BY <1>2, <1>3, <1>4, <1>6, <1>7 DEF k

\* What is reachable contains where the search starts, is closed, and is
\* contained in every closed set with the start.
LEMMA ReachableIs ==
  ASSUME NEW from \in SUBSET Packages, NEW edges
  PROVE  /\ from \subseteq Reachable(from, edges) /\ Reachable(from, edges) \subseteq Packages
         /\ \A a, b : a \in Reachable(from, edges) /\ <<a, b>> \in edges /\ b \in Packages
                        => b \in Reachable(from, edges)
<1>1. ASSUME NEW a, NEW b, a \in Reachable(from, edges), <<a, b>> \in edges, b \in Packages
      PROVE  b \in Reachable(from, edges)
  <2> SUFFICES ASSUME NEW S \in SUBSET Packages, from \subseteq S, Closed(S, edges) PROVE b \in S
    BY <1>1 DEF Reachable
  <2>1. a \in S
    BY <1>1 DEF Reachable
  <2>2. <<a, b>>[1] \in S => <<a, b>>[2] \in S
    BY <1>1 DEF Closed
  <2> QED BY <2>1, <2>2
<1> QED BY <1>1 DEF Reachable

\* Which package leads to which.
LEMMA EdgeIs ==
  ASSUME NEW j, NEW readable, NEW a, NEW b
  PROVE  <<a, b>> \in Edges(j, readable) <=> a \in Listed(j) /\ b \in DOMAIN NeedsOf(readable, a, VersionIn(j, a))
BY DEF Edges

\* What can be read of a release is what it needs, and these are packages.
LEMMA NeedsAre ==
  ASSUME NEW readable \in SUBSET AllReleases, NEW p, NEW v, NEW d \in DOMAIN NeedsOf(readable, p, v)
  PROVE  /\ d \in Packages /\ d \in DOMAIN NeedsOf(AllReleases, p, v)
         /\ NeedsOf(AllReleases, p, v) = NeedsOf(readable, p, v)
         /\ 0 \notin NeedsOf(readable, p, v)[d]
<1>1. <<p, v>> \in readable
  <2> SUFFICES ASSUME <<p, v>> \notin readable PROVE FALSE
    OBVIOUS
  <2>1. NeedsOf(readable, p, v) = <<>>
    BY DEF NeedsOf, Known
  <2>2. d \in DOMAIN <<>>
    BY <2>1
  <2> QED BY <2>2
<1>2. <<p, v>> \in AllReleases
  BY <1>1
<1>3. p \in Packages /\ v \in Versions(p)
  BY <1>2 DEF AllReleases
<1>4. NeedsOf(readable, p, v) = Needs[p][v] /\ NeedsOf(AllReleases, p, v) = Needs[p][v]
  BY <1>1, <1>2 DEF NeedsOf, Known
<1> QED BY <1>3, <1>4, NeedsArePackages

\* Removal keeps the file sound.
LEMMA RemoveFromAppKeeps ==
  ASSUME NEW j, Sound(j), IsApp(j), NEW T \in SUBSET Listed(j), NEW readable
  PROVE  LET k == RemoveFromApp(j, T, readable) IN
           Sound(k) /\ k.kind = j.kind /\ (ListedOnce(j) => ListedOnce(k))
<1> DEFINE C == DirectTargets(j, T)
           O == find_orphaned_packages(Demoted(j, C), readable)
           D == Demoted(j, C \ O)
           X == (T \ (C \ O)) \cup (O \ T)
<1>1. /\ C \in SUBSET Listed(j) /\ \A p \in C : find_package_map(j, p) \in DirectMaps
  BY DEF DirectTargets
<1>2. Restored(j, C) = j
  BY <1>1, RestoredSame
<1>3. RemoveFromApp(j, T, readable) = remove_from_all_maps(D, X)
  BY <1>2 DEF RemoveFromApp
<1> HIDE DEF C, O
<1>4. (C \ O) \in SUBSET Listed(j) /\ \A p \in C \ O : find_package_map(j, p) \in DirectMaps
  BY <1>1
<1>5. DemotedIs(j, C \ O, D)
  BY <1>4, DemotedMaps
<1>6. Sound(D) /\ Keeps(j, D) /\ (ListedOnce(j) => ListedOnce(D))
  BY <1>4, <1>5, DemotedKeeps
<1> HIDE DEF D, X
<1> QED BY <1>3, <1>6, RemovedKeeps DEF Keeps

\* Removing direct dependencies takes exactly the orphans, as they are once all
\* of them are demoted.
LEMMA RemoveDirect ==
  ASSUME NEW j, Sound(j), IsApp(j), NEW T \in SUBSET Listed(j),
         \A p \in T : find_package_map(j, p) \in DirectMaps, NEW readable,
         NEW D, D = Demoted(j, T), NEW O, O = find_orphaned_packages(D, readable),
         NEW k, k = RemoveFromApp(j, T, readable)
  PROVE  /\ Sound(D) /\ Keeps(j, D)
         /\ Listed(k) = Listed(D) \ O
         /\ \A m \in MapNames : DOMAIN k[m] = DOMAIN D[m] \ O
         /\ \A p \in Listed(k) : VersionIn(k, p) = VersionIn(j, p)
         /\ \A m \in DirectMaps : DOMAIN j[m] \ T \subseteq DOMAIN D[m]
<1> DEFINE K == Demoted(j, T \ O)
           X == (T \ (T \ O)) \cup (O \ T)
<1>1. DirectTargets(j, T) = T
  BY DEF DirectTargets
<1>2. Restored(j, T) = j
  BY RestoredSame
<1>3. k = remove_from_all_maps(K, X)
  BY <1>1, <1>2 DEF RemoveFromApp
<1>4. X = O
  OBVIOUS
<1>5. DemotedIs(j, T, D)
  BY DemotedMaps
<1>6. (T \ O) \in SUBSET Listed(j) /\ \A p \in T \ O : find_package_map(j, p) \in DirectMaps
  OBVIOUS
<1>7. DemotedIs(j, T \ O, K)
  BY <1>6, DemotedMaps
<1>8. Sound(D) /\ Keeps(j, D)
  BY <1>5, DemotedKeeps
<1>9. Sound(K) /\ Keeps(j, K)
  BY <1>6, <1>7, DemotedKeeps
<1> HIDE DEF K, X
<1>10. \A m \in MapNames : DOMAIN k[m] = DOMAIN K[m] \ O
  BY <1>3, <1>4, <1>9, RemovedKeeps
<1>11. \A p \in Listed(k) : find_existing_package(k, p) = find_existing_package(K, p)
  BY <1>3, <1>4, <1>9, RemovedKeeps
<1>12. Listed(k) = Listed(K) \ O
  BY <1>3, <1>4, <1>9, RemovedKeeps
<1>13. ASSUME NEW m \in MapNames PROVE DOMAIN K[m] \ O = DOMAIN D[m] \ O
  <2> SUFFICES ASSUME NEW p, p \notin O PROVE p \in DOMAIN K[m] <=> p \in DOMAIN D[m]
    OBVIOUS
  <2>1. DemotedTo(j, T \ O, p, m) <=> DemotedTo(j, T, p, m)
    BY DEF DemotedTo
  <2> QED BY <1>5, <1>7, <2>1 DEF DemotedIs
<1>14. Listed(k) = Listed(D) \ O
  BY <1>8, <1>9, <1>12 DEF Keeps
<1>15. \A p \in Listed(k) : VersionIn(k, p) = VersionIn(j, p)
  BY <1>9, <1>11, <1>12 DEF VersionIn, Keeps
<1>16. \A m \in DirectMaps : DOMAIN j[m] \ T \subseteq DOMAIN D[m]
  <2>1. \A m \in DirectMaps : m \in MapNames
    BY DEF DirectMaps, MapNames
  <2> QED BY <1>5, <2>1 DEF DemotedIs, DemotedTo
<1> QED BY <1>8, <1>10, <1>13, <1>14, <1>15, <1>16

\* What the direct dependencies reach, as far as can be read.
ReachedIn(D, readable) == Reachable(DOMAIN D["direct"] \cup DOMAIN D["test_direct"], Edges(D, readable))

\* No orphan is reachable from the direct dependencies, and whatever is listed
\* is reachable or an orphan.
OrphansApart(D, readable, O, Y) ==
  /\ Y \subseteq Packages /\ O \cap Y = {} /\ Listed(D) \ O \subseteq Y
  /\ DOMAIN D["direct"] \cup DOMAIN D["test_direct"] \subseteq Y
  /\ \A a, b : a \in Y /\ <<a, b>> \in Edges(D, readable) /\ b \in Packages => b \in Y

\* find_orphaned_packages finds what the direct packages do not reach.
LEMMA OrphansAre ==
  ASSUME NEW D, Sound(D), NEW readable
  PROVE  OrphansApart(D, readable, find_orphaned_packages(D, readable), ReachedIn(D, readable))
<1> DEFINE O == find_orphaned_packages(D, readable)
           Y == ReachedIn(D, readable)
           from == DOMAIN D["direct"] \cup DOMAIN D["test_direct"]
<1>1. {"direct", "indirect", "test_direct", "test_indirect"} = MapNames
  BY DEF MapNames
<1>2. from \in SUBSET Packages
  BY <1>1, SoundMaps
<1>3. O = (DOMAIN D["indirect"] \cup DOMAIN D["test_indirect"]) \ Y
  BY DEF find_orphaned_packages, ReachedIn
<1>4. Listed(D) = from \cup DOMAIN D["indirect"] \cup DOMAIN D["test_indirect"]
  BY <1>1 DEF Listed
<1>5. /\ from \subseteq Y /\ Y \subseteq Packages
      /\ \A a, b : a \in Y /\ <<a, b>> \in Edges(D, readable) /\ b \in Packages => b \in Y
  BY <1>2, ReachableIs DEF ReachedIn
<1> HIDE DEF from, Y, O
<1>6. O \cap Y = {} /\ Listed(D) \ O \subseteq Y
  BY <1>3, <1>4, <1>5
<1> QED BY <1>5, <1>6 DEF from, Y, O, OrphansApart

\* Everything that is left is wanted, and named packages alone leave the maps
\* of direct dependencies.
LEMMA RemovalCleansUp ==
  ASSUME NEW j, Sound(j), IsApp(j), NEW T \in SUBSET Listed(j),
         \A p \in T : find_package_map(j, p) \in DirectMaps, NEW readable \in SUBSET AllReleases
  PROVE  /\ Listed(RemoveFromApp(j, T, readable)) \subseteq Wanted(RemoveFromApp(j, T, readable))
         /\ \A m \in DirectMaps : DOMAIN j[m] \ T \subseteq DOMAIN RemoveFromApp(j, T, readable)[m]
<1> DEFINE D == Demoted(j, T)
           O == find_orphaned_packages(D, readable)
           k == RemoveFromApp(j, T, readable)
           Y == ReachedIn(D, readable)
<1>1. /\ Sound(D) /\ Keeps(j, D)
      /\ Listed(k) = Listed(D) \ O
      /\ \A m \in MapNames : DOMAIN k[m] = DOMAIN D[m] \ O
      /\ \A p \in Listed(k) : VersionIn(k, p) = VersionIn(j, p)
      /\ \A m \in DirectMaps : DOMAIN j[m] \ T \subseteq DOMAIN D[m]
  BY RemoveDirect
<1>2. /\ Y \subseteq Packages /\ O \cap Y = {} /\ Listed(D) \ O \subseteq Y
      /\ DOMAIN D["direct"] \cup DOMAIN D["test_direct"] \subseteq Y
      /\ \A a, b : a \in Y /\ <<a, b>> \in Edges(D, readable) /\ b \in Packages => b \in Y
  <2>1. OrphansApart(D, readable, O, Y)
    BY <1>1, OrphansAre
  <2> HIDE DEF D, O, Y
  <2> QED BY <2>1 DEF OrphansApart
<1> HIDE DEF D, O, k, Y
<1>3. DirectMaps = {"direct", "test_direct"} /\ DirectMaps \subseteq MapNames
  BY DEF DirectMaps, MapNames
<1>4. \A m \in DirectMaps : DOMAIN k[m] = DOMAIN D[m]
  BY <1>1, <1>2, <1>3
<1>5. \A p \in Listed(k) : VersionIn(D, p) = VersionIn(k, p)
  BY <1>1 DEF Keeps, VersionIn
<1>6. ASSUME NEW p \in Listed(k), NEW S \in SUBSET Packages,
             UNION {DOMAIN k[m] : m \in DirectMaps} \subseteq S, Closed(S, Edges(k, AllReleases))
      PROVE  p \in S
  <2> DEFINE from == DOMAIN D["direct"] \cup DOMAIN D["test_direct"]
  <2>1. from \subseteq S \cap Y
    <3>1. \A m \in DirectMaps : DOMAIN D[m] \subseteq S
      BY <1>4, <1>6
    <3> QED BY <1>2, <1>3, <3>1
  <2>2. ASSUME NEW e \in Edges(D, readable), e[1] \in S \cap Y PROVE e[2] \in S \cap Y
    <3>1. PICK a \in Listed(D) : e \in {a} \X (DOMAIN NeedsOf(readable, a, VersionIn(D, a)))
      BY DEF Edges
    <3>2. e = <<a, e[2]>> /\ e[2] \in DOMAIN NeedsOf(readable, a, VersionIn(D, a)) /\ a \in S \cap Y
      BY <2>2, <3>1
    <3>3. a \in Listed(k) /\ VersionIn(D, a) = VersionIn(k, a)
      BY <1>1, <1>2, <1>5, <3>2
    <3>4. e[2] \in Packages /\ e[2] \in DOMAIN NeedsOf(AllReleases, a, VersionIn(k, a))
      BY <3>2, <3>3, NeedsAre
    <3>5. <<a, e[2]>> \in Edges(k, AllReleases)
      BY <3>3, <3>4, EdgeIs
    <3>6. e[2] \in Y
      BY <1>2, <3>2, <3>4
    <3>7. <<a, e[2]>>[2] \in S
      BY <1>6, <3>2, <3>5 DEF Closed
    <3> QED BY <3>6, <3>7
  <2>3. (S \cap Y) \in SUBSET Packages /\ Closed(S \cap Y, Edges(D, readable))
    BY <2>2 DEF Closed
  <2>4. \A q \in Y : q \in S \cap Y
    <3>1. Y = Reachable(from, Edges(D, readable))
      BY DEF Y, ReachedIn
    <3> HIDE DEF from
    <3>2. \A q \in Reachable(from, Edges(D, readable)) : q \in S \cap Y
      BY <2>1, <2>3 DEF Reachable
    <3> QED BY <3>1, <3>2
  <2> QED BY <1>1, <1>2, <2>4
<1>7. Listed(k) \subseteq Packages
  BY <1>1, <1>2
<1>8. Listed(k) \subseteq Wanted(k)
  BY <1>6, <1>7 DEF Wanted, Reachable
<1> QED BY <1>1, <1>3, <1>4, <1>8 DEF k

\* What is left has what it needs, when everything listed can be read.
LEMMA RemovalKeepsSolved ==
  ASSUME NEW j, Sound(j), IsApp(j), NEW T \in SUBSET Listed(j),
         \A p \in T : find_package_map(j, p) \in DirectMaps, NEW readable \in SUBSET AllReleases,
         ListedReleases(j) \subseteq readable, Solved(j, Listed(j)),
         NEW k, k = RemoveFromApp(j, T, readable)
  PROVE  Solved(k, Listed(k))
<1> DEFINE D == Demoted(j, T)
           O == find_orphaned_packages(D, readable)
           Y == ReachedIn(D, readable)
<1>1. /\ Sound(D) /\ Keeps(j, D)
      /\ Listed(k) = Listed(D) \ O
      /\ \A p \in Listed(k) : VersionIn(k, p) = VersionIn(j, p)
  BY RemoveDirect
<1>2. /\ Y \subseteq Packages /\ O \cap Y = {} /\ Listed(D) \ O \subseteq Y
      /\ \A a, b : a \in Y /\ <<a, b>> \in Edges(D, readable) /\ b \in Packages => b \in Y
  <2>1. OrphansApart(D, readable, O, Y)
    BY <1>1, OrphansAre
  <2> HIDE DEF D, O, Y
  <2> QED BY <2>1 DEF OrphansApart
<1> HIDE DEF D, O, Y
<1> SUFFICES ASSUME NEW p \in Listed(k), NEW d \in DOMAIN NeedsOf(AllReleases, p, VersionIn(k, p))
             PROVE  d \in Listed(k) /\ VersionIn(k, d) \in NeedsOf(AllReleases, p, VersionIn(k, p))[d]
  BY DEF Solved
<1>3. p \in Listed(j) /\ p \in Listed(D) /\ VersionIn(D, p) = VersionIn(j, p) /\ VersionIn(k, p) = VersionIn(j, p)
  BY <1>1 DEF Keeps, VersionIn
<1>4. d \in Listed(j) /\ VersionIn(j, d) \in NeedsOf(AllReleases, p, VersionIn(j, p))[d]
  BY <1>3 DEF Solved
<1>5. <<p, VersionIn(j, p)>> \in readable
  BY <1>3 DEF ListedReleases
<1>6. NeedsOf(readable, p, VersionIn(D, p)) = NeedsOf(AllReleases, p, VersionIn(k, p))
  BY <1>3, <1>5 DEF NeedsOf, Known
<1>7. <<p, d>> \in Edges(D, readable) /\ d \in Packages
  BY <1>3, <1>6, EdgeIs, NeedsAre
<1>8. d \in Listed(k)
  BY <1>1, <1>2, <1>4, <1>7 DEF Keeps
<1> QED BY <1>1, <1>3, <1>4, <1>8

-----------------------------------------------------------------------------
(* Requirements and selections *)

\* No version is zero, which stands for none.
LEMMA VersionsAre ==
  /\ AllVersions \subseteq Nat \ {0}
  /\ \A p \in Packages : Versions(p) \subseteq AllVersions
  /\ \A v \in AllVersions : Exact(v) \subseteq AllVersions
  /\ \A v, w : w \in UntilNextMajor(v) => w \in AllVersions /\ Major(w) = Major(v)
<1>1. ASSUME NEW p \in Packages, NEW v \in Versions(p) PROVE v \in Nat \ {0}
  <2>1. Published[p] \in Seq(Nat \ {0})
    BY NewestFirst
  <2> QED BY <2>1 DEF Versions
<1> QED BY <1>1 DEF AllVersions, Exact, UntilNextMajor

\* A listed entry accepts versions of its own major version.
LEMMA EntryAccepts ==
  ASSUME NEW e \in Entry, NEW w, w \in Accepts(e)
  PROVE  w \in AllVersions /\ Major(w) = Major(e.from)
BY VersionsAre DEF Entry, Accepts, Exact

\* What the maps require.
LEMMA Requires ==
  ASSUME NEW j, NEW maps, NEW m \in maps, NEW p \in DOMAIN j[m]
  PROVE  /\ <<p, Exact(j[m][p].from)>> \in RequireExact(j, maps)
         /\ <<p, UntilNextMajor(j[m][p].from)>> \in RequireUpgradable(j, maps)
         /\ <<p, Accepts(j[m][p])>> \in RequireAsWritten(j, maps)
BY DEF RequireExact, RequireUpgradable, RequireAsWritten

Gentle == {"exact_all", "exact_direct", "upgradable"}

\* Every strategy but the one that crosses major versions requires the packages
\* of production, and pins them when it has to.
LEMMA ProductionRequired ==
  ASSUME NEW j, Sound(j), NEW strategy \in Gentle, NEW a, NEW p \in Production(j)
  PROVE  \E V : /\ <<p, V>> \in Roots(j, strategy, a)
                /\ \A w \in V : w \in AllVersions /\ Major(w) = Major(VersionIn(j, p))
                /\ IsApp(j) /\ PinProduction(a) => V = Exact(VersionIn(j, p))
<1> DEFINE h == find_package_map(j, p)
           v == VersionIn(j, p)
<1>1. h \in {"direct", "indirect"} /\ p \in DOMAIN j[h]
  BY ProductionFirst
<1>2. v = j[h][p].from
  BY DEF VersionIn, find_existing_package
<1>3. "direct" \in MapNames /\ "indirect" \in MapNames
  BY DEF MapNames
<1>4. j[h][p] \in Entry /\ v \in AllVersions
  BY <1>1, <1>2, <1>3, SoundMaps DEF Entry
<1> HIDE DEF h, v
<1>5. /\ \A w \in Exact(v) : w \in AllVersions /\ Major(w) = Major(v)
      /\ \A w \in UntilNextMajor(v) : w \in AllVersions /\ Major(w) = Major(v)
  BY <1>4, VersionsAre DEF Exact
<1>6. ASSUME NEW maps, h \in maps
      PROVE  <<p, Exact(v)>> \in RequireExact(j, maps) /\ <<p, UntilNextMajor(v)>> \in RequireUpgradable(j, maps)
  BY <1>1, <1>2, <1>6, Requires
<1>7. CASE IsApp(j)
  <2>1. <<p, Exact(v)>> \in exact_app(j, a)
    BY <1>1, <1>6 DEF exact_app, ProductionMaps
  <2>2. \/ <<p, Exact(v)>> \in exact_direct_app(j, a)
        \/ ~PinProduction(a) /\ <<p, UntilNextMajor(v)>> \in exact_direct_app(j, a)
    BY <1>1, <1>6 DEF exact_direct_app
  <2>3. \/ <<p, Exact(v)>> \in upgradable_app(j, a)
        \/ ~PinProduction(a) /\ <<p, UntilNextMajor(v)>> \in upgradable_app(j, a)
    BY <1>1, <1>6 DEF upgradable_app, ProductionMaps
  <2>4. Roots(j, strategy, a) \in {exact_app(j, a), exact_direct_app(j, a), upgradable_app(j, a)}
    <3>1. CASE strategy = "exact_all" BY <1>7, <3>1 DEF Roots
    <3>2. CASE strategy = "exact_direct" BY <1>7, <3>2 DEF Roots
    <3>3. CASE strategy = "upgradable" BY <1>7, <3>3 DEF Roots
    <3> QED BY <3>1, <3>2, <3>3 DEF Gentle
  <2>5. \/ <<p, Exact(v)>> \in Roots(j, strategy, a)
        \/ ~PinProduction(a) /\ <<p, UntilNextMajor(v)>> \in Roots(j, strategy, a)
    BY <2>1, <2>2, <2>3, <2>4
  <2> QED BY <1>5, <2>5 DEF v
<1>8. CASE ~IsApp(j)
  <2>1. h = "direct"
    BY <1>1, <1>8, SoundMaps
  <2> DEFINE maps == (IF strategy = "cross_major" THEN {} ELSE {"direct"})
                     \cup (IF a.is_test THEN {"test_direct"} ELSE {})
  <2>2. h \in maps
    BY <2>1 DEF Gentle
  <2>3. Roots(j, strategy, a) = RequireAsWritten(j, maps)
    BY <1>8 DEF Roots, constraints_package
  <2> HIDE DEF maps
  <2>4. <<p, Accepts(j[h][p])>> \in Roots(j, strategy, a)
    BY <1>1, <2>2, <2>3, Requires
  <2>5. \A w \in Accepts(j[h][p]) : w \in AllVersions /\ Major(w) = Major(v)
    BY <1>2, <1>4, EntryAccepts
  <2> QED BY <1>8, <2>4, <2>5 DEF v
<1> QED BY <1>7, <1>8

\* Upgrading everything within major versions requires them, too.
LEMMA ProductionUpgradable ==
  ASSUME NEW j, Sound(j), NEW p \in Production(j)
  PROVE  \E V : /\ <<p, V>> \in UpgradeAllRoots(j, FALSE)
                /\ \A w \in V : w \in AllVersions /\ Major(w) = Major(VersionIn(j, p))
<1> DEFINE h == find_package_map(j, p)
           v == VersionIn(j, p)
<1>1. h \in {"direct", "indirect"} /\ p \in DOMAIN j[h]
  BY ProductionFirst
<1>2. v = j[h][p].from
  BY DEF VersionIn, find_existing_package
<1>3. "direct" \in MapNames /\ "indirect" \in MapNames
  BY DEF MapNames
<1>4. j[h][p] \in Entry /\ v \in AllVersions
  BY <1>1, <1>2, <1>3, SoundMaps DEF Entry
<1> HIDE DEF h, v
<1>5. CASE IsApp(j)
  <2>1. <<p, UntilNextMajor(v)>> \in UpgradeAllRoots(j, FALSE)
    BY <1>1, <1>2, <1>3, <1>5, Requires DEF UpgradeAllRoots
  <2> QED BY <2>1, VersionsAre DEF v
<1>6. CASE ~IsApp(j)
  <2>1. h = "direct"
    BY <1>1, <1>6, SoundMaps
  <2>2. <<p, Accepts(j[h][p])>> \in UpgradeAllRoots(j, FALSE)
    BY <1>1, <1>6, <2>1, Requires DEF UpgradeAllRoots
  <2>3. \A w \in Accepts(j[h][p]) : w \in AllVersions /\ Major(w) = Major(v)
    BY <1>2, <1>4, EntryAccepts
  <2> QED BY <2>2, <2>3 DEF v
<1> QED BY <1>5, <1>6

\* What a solution selects.
LEMMA SolutionIs ==
  ASSUME NEW roots, NEW readable, NEW s \in Solutions(roots, readable)
  PROVE  /\ s \in Selections /\ Satisfies(s, {}, readable)
         /\ \A p, V : <<p, V>> \in roots => s[p] \in V
         /\ Selected(s) \subseteq Packages
         /\ \A p \in Selected(s) : s[p] \in Versions(p) /\ s[p] \in AllVersions
         /\ \A p \in Packages : s[p] \in AllVersions => p \in Selected(s)
<1>1. s \in Selections /\ Satisfies(s, roots, readable)
  BY DEF Solutions
<1>2. \A p, V : <<p, V>> \in roots => s[p] \in V
  <2> SUFFICES ASSUME NEW p, NEW V, <<p, V>> \in roots PROVE s[p] \in V
    OBVIOUS
  <2>1. s[<<p, V>>[1]] \in <<p, V>>[2]
    BY <1>1 DEF Satisfies
  <2> QED BY <2>1
<1>3. \A p \in Packages : s[p] \in Versions(p) \cup {NotSelected}
  BY <1>1 DEF Selections
<1>4. /\ Selected(s) \subseteq Packages
      /\ \A p \in Selected(s) : s[p] \in Versions(p) /\ s[p] \in AllVersions
      /\ \A p \in Packages : s[p] \in AllVersions => p \in Selected(s)
  BY <1>3, VersionsAre DEF Selected, NotSelected
<1> QED BY <1>1, <1>2, <1>4 DEF Satisfies

-----------------------------------------------------------------------------
(* Plans *)

\* What a selection changes.
LEMMA PlanOfSelection ==
  ASSUME NEW j, NEW roots, NEW readable, NEW s \in Solutions(roots, readable)
  PROVE  /\ InstallPlanOf(j, s) \in Partial(Packages, AllVersions)
         /\ UpgradeAllPlanOf(j, s) \in Partial(Packages, AllVersions)
         /\ DOMAIN InstallPlanOf(j, s) = Changed(j, s)
         /\ \A p \in DOMAIN InstallPlanOf(j, s) : InstallPlanOf(j, s)[p] = s[p] /\ p \in Selected(s)
         /\ \A p \in DOMAIN UpgradeAllPlanOf(j, s) : UpgradeAllPlanOf(j, s)[p] = s[p]
<1>1. Changed(j, s) \subseteq Selected(s)
  BY DEF Changed
<1>2. Selected(s) \subseteq Packages /\ \A p \in Selected(s) : s[p] \in AllVersions
  BY SolutionIs
<1>3. \A D \in SUBSET Changed(j, s) : [p \in D |-> s[p]] \in Partial(Packages, AllVersions)
  BY <1>1, <1>2 DEF Partial
<1> QED BY <1>1, <1>3 DEF InstallPlanOf, UpgradeAllPlanOf

\* Merging keeps what both plans have to say, where the first comes first.
LEMMA MergeIs ==
  ASSUME NEW a \in Partial(Packages, AllVersions), NEW b \in Partial(Packages, AllVersions)
  PROVE  /\ install_plan_merge(a, b) \in Partial(Packages, AllVersions)
         /\ DOMAIN install_plan_merge(a, b) = DOMAIN a \cup DOMAIN b
         /\ \A p \in DOMAIN install_plan_merge(a, b) :
              install_plan_merge(a, b)[p] = IF p \in DOMAIN a THEN a[p] ELSE b[p]
         /\ DOMAIN a = {} => install_plan_merge(a, b) = b
<1>1. /\ DOMAIN a \subseteq Packages /\ \A p \in DOMAIN a : a[p] \in AllVersions
      /\ DOMAIN b \subseteq Packages /\ \A p \in DOMAIN b : b[p] \in AllVersions
  BY PlanTypes
<1>2. install_plan_merge(a, b) \in Partial(Packages, AllVersions)
  <2> DEFINE D == DOMAIN a \cup DOMAIN b
             f == [p \in D |-> IF p \in DOMAIN a THEN a[p] ELSE b[p]]
  <2>1. f \in [D -> AllVersions] /\ D \in SUBSET Packages
    BY <1>1
  <2>2. install_plan_merge(a, b) = f
    BY DEF install_plan_merge
  <2> HIDE DEF f, D
  <2> QED BY <2>1, <2>2 DEF Partial
<1>3. b = [p \in DOMAIN b |-> b[p]]
  BY DEF Partial
<1>4. ASSUME DOMAIN a = {} PROVE install_plan_merge(a, b) = [p \in DOMAIN b |-> b[p]]
  <2>1. DOMAIN a \cup DOMAIN b = DOMAIN b
    BY <1>4
  <2>2. \A p \in DOMAIN b : (IF p \in DOMAIN a THEN a[p] ELSE b[p]) = b[p]
    BY <1>4
  <2> QED BY <2>1, <2>2 DEF install_plan_merge
<1> QED BY <1>2, <1>3, <1>4 DEF install_plan_merge

\* A plan that takes no package of production across a major version.
InMajor(j, changes) ==
  \A p \in DOMAIN changes \cap Production(j) : Major(changes[p]) = Major(VersionIn(j, p))

\* A plan that changes no package of production.
Pins(j, changes) == DOMAIN changes \cap Production(j) = {}

\* Merging plans keeps both restrictions.
LEMMA MergeKeeps ==
  ASSUME NEW j, NEW a \in Partial(Packages, AllVersions), NEW b \in Partial(Packages, AllVersions)
  PROVE  /\ InMajor(j, a) /\ InMajor(j, b) => InMajor(j, install_plan_merge(a, b))
         /\ Pins(j, a) /\ Pins(j, b) => Pins(j, install_plan_merge(a, b))
<1> DEFINE c == install_plan_merge(a, b)
<1>1. /\ DOMAIN c = DOMAIN a \cup DOMAIN b
      /\ \A p \in DOMAIN c : c[p] = IF p \in DOMAIN a THEN a[p] ELSE b[p]
  BY MergeIs
<1> HIDE DEF c
<1>2. ASSUME InMajor(j, a), InMajor(j, b), NEW p \in DOMAIN c, p \in Production(j)
      PROVE  Major(c[p]) = Major(VersionIn(j, p))
  <2>1. CASE p \in DOMAIN a BY <1>1, <1>2, <2>1 DEF InMajor
  <2>2. CASE p \notin DOMAIN a BY <1>1, <1>2, <2>2 DEF InMajor
  <2> QED BY <2>1, <2>2
<1>3. Pins(j, a) /\ Pins(j, b) => Pins(j, c)
  BY <1>1 DEF Pins
<1> QED BY <1>2, <1>3 DEF InMajor, c

\* What a gentle strategy finds: production is selected, within its major
\* versions, and as it is where it is pinned.
LEMMA GentlePlans ==
  ASSUME NEW j, Sound(j), NEW strategy \in Gentle, NEW a, NEW more, NEW readable,
         NEW s \in Solutions(Roots(j, strategy, a) \cup more, readable)
  PROVE  /\ Production(j) \subseteq Selected(s)
         /\ InMajor(j, InstallPlanOf(j, s))
         /\ IsApp(j) /\ PinProduction(a) => Pins(j, InstallPlanOf(j, s))
<1>1. ASSUME NEW p \in Production(j)
      PROVE  /\ p \in Selected(s) /\ Major(s[p]) = Major(VersionIn(j, p))
             /\ IsApp(j) /\ PinProduction(a) => s[p] = VersionIn(j, p)
  <2>1. PICK V : /\ <<p, V>> \in Roots(j, strategy, a)
                 /\ \A w \in V : w \in AllVersions /\ Major(w) = Major(VersionIn(j, p))
                 /\ IsApp(j) /\ PinProduction(a) => V = Exact(VersionIn(j, p))
    BY ProductionRequired
  <2>2. s[p] \in V
    BY <2>1, SolutionIs
  <2>3. p \in Packages
    BY SoundMaps DEF Production, MapNames
  <2> QED BY <2>1, <2>2, <2>3, SolutionIs DEF Exact
<1>2. InMajor(j, InstallPlanOf(j, s))
  BY <1>1, PlanOfSelection DEF InMajor
<1>3. ASSUME IsApp(j), PinProduction(a), NEW p \in DOMAIN InstallPlanOf(j, s), p \in Production(j)
      PROVE  FALSE
  <2>1. s[p] = VersionIn(j, p) /\ p \in Listed(j)
    BY <1>1, <1>3, ProductionFirst
  <2>2. find_existing_package(j, p) # Bare(s[p])
    <3>1. p \in Changed(j, s)
      BY <1>3, PlanOfSelection
    <3> QED BY <2>1, <3>1 DEF Changed
  <2>3. find_package_map(j, p) \in MapNames /\ p \in DOMAIN j[find_package_map(j, p)]
    BY <2>1, FirstHome
  <2>4. find_existing_package(j, p) \in Entry /\ ~find_existing_package(j, p).caret
    BY <1>3, <2>3, SoundMaps DEF find_existing_package
  <2>5. \A e \in Entry : ~e.caret => e = Bare(e.from)
    BY DEF Entry, Bare
  <2> QED BY <2>1, <2>2, <2>4, <2>5 DEF VersionIn
<1> QED BY <1>1, <1>2, <1>3 DEF Pins

\* Upgrading everything without --major.
LEMMA UpgradeAllPlans ==
  ASSUME NEW j, Sound(j), NEW readable, NEW s \in Solutions(UpgradeAllRoots(j, FALSE), readable)
  PROVE  InMajor(j, UpgradeAllPlanOf(j, s))
<1>1. ASSUME NEW p \in Production(j) PROVE Major(s[p]) = Major(VersionIn(j, p))
  <2>1. PICK V : /\ <<p, V>> \in UpgradeAllRoots(j, FALSE)
                 /\ \A w \in V : w \in AllVersions /\ Major(w) = Major(VersionIn(j, p))
    BY ProductionUpgradable
  <2> QED BY <2>1, SolutionIs
<1>2. \A p \in DOMAIN UpgradeAllPlanOf(j, s) : UpgradeAllPlanOf(j, s)[p] = s[p]
  BY DEF UpgradeAllPlanOf
<1> QED BY <1>1, <1>2 DEF InMajor

\* Writing a plan that stays in its major versions.
LEMMA WroteInMajor ==
  ASSUME NEW j, NEW k, NEW changes, Wrote(j, k, changes), InMajor(j, changes)
  PROVE  \A p \in Production(j) \cap Listed(k) : Major(VersionIn(k, p)) = Major(VersionIn(j, p))
<1> SUFFICES ASSUME NEW p \in Production(j) PROVE Major(VersionIn(k, p)) = Major(VersionIn(j, p))
  OBVIOUS
<1>1. p \in Listed(j)
  BY ProductionFirst
<1>2. CASE p \in DOMAIN changes BY <1>2 DEF Wrote, InMajor
<1>3. CASE p \notin DOMAIN changes BY <1>1, <1>3 DEF Wrote, VersionIn
<1> QED BY <1>2, <1>3

\* What is production stays production.
LEMMA WroteProduction ==
  ASSUME NEW j, NEW k, NEW changes, Wrote(j, k, changes)
  PROVE  Production(j) = Production(k) \cap Listed(j)
<1>1. "direct" \in MapNames /\ "indirect" \in MapNames
  BY DEF MapNames
<1> QED BY <1>1, ProductionFirst DEF Wrote, Production

\* Writing a plan lists no package twice.
LEMMA WroteOnce ==
  ASSUME NEW j, NEW k, NEW changes, Wrote(j, k, changes), ListedOnce(j)
  PROVE  ListedOnce(k)
<1> SUFFICES ASSUME NEW p \in Listed(k) PROVE \E m \in MapNames : Homes(k, p) = {m}
  BY DEF ListedOnce
<1>1. CASE p \in Listed(j)
  <2>1. Homes(k, p) = Homes(j, p)
    BY <1>1 DEF Wrote, Homes
  <2> QED BY <1>1, <2>1 DEF ListedOnce
<1>2. CASE p \notin Listed(j)
  BY <1>2 DEF Wrote
<1> QED BY <1>1, <1>2

\* A selection with all of production, written down, is complete.
SelectsFor(j, s) == s \in Selections /\ Satisfies(s, {}, AllReleases) /\ Production(j) \subseteq Selected(s)

\* What such a selection writes is complete.
LEMMA WroteSolved ==
  ASSUME NEW j, NEW s, SelectsFor(j, s), NEW k, Wrote(j, k, InstallPlanOf(j, s))
  PROVE  Solved(k, Production(k))
<1> DEFINE changes == InstallPlanOf(j, s)
<1>1. DOMAIN changes = Changed(j, s) /\ \A p \in DOMAIN changes : changes[p] = s[p]
  BY DEF InstallPlanOf
<1>2. ASSUME NEW p \in Selected(s) PROVE p \in Listed(k) /\ VersionIn(k, p) = s[p]
  <2>1. CASE p \in Changed(j, s)
    BY <1>1, <2>1 DEF Wrote
  <2>2. CASE p \notin Changed(j, s)
    <3>1. p \in Listed(j) /\ find_existing_package(j, p) = Bare(s[p])
      BY <2>2 DEF Changed
    <3>2. p \in Listed(k) /\ find_existing_package(k, p) = find_existing_package(j, p)
      BY <1>1, <2>2, <3>1 DEF Wrote
    <3> QED BY <3>1, <3>2 DEF VersionIn, Bare
  <2> QED BY <2>1, <2>2
<1>3. ASSUME NEW p \in Production(k) PROVE p \in Selected(s)
  <2>1. CASE p \in Listed(j)
    BY <2>1, WroteProduction DEF SelectsFor
  <2>2. CASE p \notin Listed(j)
    <3>1. p \in Listed(k)
      BY ProductionFirst
    <3>2. p \in Changed(j, s)
      BY <1>1, <2>2, <3>1 DEF Wrote
    <3> QED BY <3>2 DEF Changed
  <2> QED BY <2>1, <2>2
<1> SUFFICES ASSUME NEW p \in Production(k), NEW d \in DOMAIN NeedsOf(AllReleases, p, VersionIn(k, p))
             PROVE  d \in Listed(k) /\ VersionIn(k, d) \in NeedsOf(AllReleases, p, VersionIn(k, p))[d]
  BY DEF Solved
<1>4. p \in Selected(s) /\ VersionIn(k, p) = s[p]
  BY <1>2, <1>3
<1>5. s[d] \in NeedsOf(AllReleases, p, s[p])[d]
  BY <1>4 DEF SelectsFor, Satisfies
<1>6. d \in Packages /\ 0 \notin NeedsOf(AllReleases, p, s[p])[d]
  BY <1>4, NeedsAre
<1>7. d \in Selected(s)
  BY <1>5, <1>6 DEF Selected, NotSelected
<1> QED BY <1>2, <1>4, <1>5, <1>7

-----------------------------------------------------------------------------
(* What a command has in memory when it writes *)

AskedBy(a) == {a.packages[i] : i \in DOMAIN a.packages}
First(a) == a.packages[1]
DirectOnly(j, a) == \A p \in AskedBy(a) : find_package_map(j, p) \in DirectMaps

LeavesOnce(j, k, a) ==
  ListedOnce(j) /\ ~(a.kind = "install" /\ a.is_test) => ListedOnce(k)

LeavesSolved(j, k, a, readable, read) ==
  /\ IsApp(j)
  /\ Solved(j, Listed(j)) \/ (a.kind = "install" /\ First(a) \notin Listed(j))
  /\ \/ a.kind = "install" /\ ~a.major /\ Len(a.packages) = 1 /\ readable = AllReleases
     \/ a.kind = "upgrade" /\ ~a.major /\ readable = AllReleases
     \/ a.kind = "remove" /\ DirectOnly(j, a) /\ ListedReleases(j) \subseteq read
  => Solved(k, Production(k))

LeavesPins(j, k, a) ==
  a.kind = "install" /\ a.is_test /\ ~a.upgrade_all /\ ~a.major =>
    \A p \in Production(j) : p \in Production(k) /\ find_existing_package(k, p) = find_existing_package(j, p)

LeavesMajor(j, k, a) ==
  a.kind \in {"install", "upgrade", "upgrade_all"} /\ ~a.major =>
    \A p \in Production(j) \cap Listed(k) : Major(VersionIn(k, p)) = Major(VersionIn(j, p))

LeavesConstraints(j, k, a) ==
  a.kind = "install" /\ ~IsApp(j) =>
    /\ Listed(k) \subseteq Listed(j) \cup AskedBy(a)
    /\ \A p \in Listed(j) : p \in Listed(k) /\ find_existing_package(k, p) = find_existing_package(j, p)

LeavesClean(j, k, a) ==
  a.kind = "remove" /\ IsApp(j) /\ DirectOnly(j, a) =>
    /\ Listed(k) \subseteq Wanted(k)
    /\ \A m \in DirectMaps : DOMAIN j[m] \ AskedBy(a) \subseteq DOMAIN k[m]

\* What the properties promise of elm.json k, when the command a has found j,
\* the solver could read "readable" and the cache holds "read".
Leaves(j, k, a, readable, read) ==
  /\ LeavesOnce(j, k, a) /\ LeavesSolved(j, k, a, readable, read) /\ LeavesPins(j, k, a)
  /\ LeavesMajor(j, k, a) /\ LeavesConstraints(j, k, a) /\ LeavesClean(j, k, a)

\* While elm.json is written, memory holds what is promised.
Promised == pc \in {"write", "fill", "rename"} => Leaves(elm, mem, ask, reach, cached)

\* The only step with pc = "rename" that ends well and leaves a project.
LEMMA WrittenIs ==
  ASSUME Next, Written
  PROVE  elm' = mem /\ pc = "rename"
<1> USE DEF Written
<1>1. \A c \in Commands, lost \in Outages : ~Start(c, lost)
  BY DEF Start
<1>2. ~Crash /\ ~StartTorn
  BY DEF Crash, StartTorn
<1>3. Step
  BY <1>1, <1>2 DEF Next
<1>4. Rename
  BY <1>3 DEF Step, InstallItself, InstallKeeps, InstallMovesToTests, InstallPromotes, Installing, InstallingMany,
    InstallUnknown, InstallSolves, InstallManyUnknown, InstallMany, InstallFile, CopyFails,
    UpgradeUnknown, UpgradeCurrent, UpgradeBlocked, UpgradeSolves, Upgrading, Upgradable,
    UpgradeAll, UpgradeAllCurrent, UpgradeAllFails, SolverFinds, SolverFindsNone, SolverGivesUp, DownloadFails,
    RemoveUnknown, RemovePlans, NothingToDo, DeclineInstall, DeclineInstallMany, DeclineFile, Confirming,
    DeclineUpgrade, DeclineUpgradeAll, DeclineRemove, Accept, OpenTmp, FillTmp, RenameTorn, WriteFails
<1> QED BY <1>4 DEF Rename

\* The promises are kept when the file is replaced.
LEMMA PromisesKept ==
  ASSUME Promised, Next, Written
  PROVE  elm' = mem /\ Leaves(elm, elm', ask, reach, cached)
<1>1. elm' = mem /\ pc = "rename"
  BY WrittenIs
<1> QED BY <1>1 DEF Promised

\* Edits that only move entries keep the promises of install.
LEMMA MovesLeave ==
  ASSUME NEW j, NEW k, NEW a, NEW readable, NEW read, Keeps(j, k), a.kind = "install", First(a) \in Listed(j),
         a.is_test => Production(j) \subseteq Production(k),
         ~a.is_test => (ListedOnce(j) => ListedOnce(k))
  PROVE  Leaves(j, k, a, readable, read)
<1>1. Listed(k) = Listed(j) /\ \A p \in Listed(j) : /\ find_existing_package(k, p) = find_existing_package(j, p)
                                                    /\ VersionIn(k, p) = VersionIn(j, p)
  BY DEF Keeps, VersionIn
<1>2. Production(j) \subseteq Listed(j) /\ Production(k) \subseteq Listed(k)
  BY ProductionFirst
<1>3. LeavesOnce(j, k, a)
  BY DEF LeavesOnce
<1>4. LeavesSolved(j, k, a, readable, read)
  <2>1. Solved(j, Listed(j)) => Solved(k, Production(k))
    BY <1>1, <1>2 DEF Solved
  <2> QED BY <2>1 DEF LeavesSolved
<1>5. LeavesPins(j, k, a)
  BY <1>1, <1>2 DEF LeavesPins
<1>6. LeavesMajor(j, k, a)
  BY <1>1, <1>2 DEF LeavesMajor
<1>7. LeavesConstraints(j, k, a)
  BY <1>1 DEF LeavesConstraints
<1>8. LeavesClean(j, k, a)
  BY DEF LeavesClean
<1> QED BY <1>3, <1>4, <1>5, <1>6, <1>7, <1>8 DEF Leaves

\* A single install, or upgrade, of an application within major versions.
Alone(j, a) == IsApp(j) /\ ~a.major /\ (a.kind = "upgrade" \/ (a.kind = "install" /\ Len(a.packages) = 1))

\* What the plan of the command a, which found j, may be once it is complete.
PlanFor(j, a, changes) ==
  /\ a.kind \in {"install", "upgrade", "upgrade_all"} /\ ~a.major => InMajor(j, changes)
  /\ a.kind = "install" /\ a.is_test /\ ~a.upgrade_all /\ ~a.major /\ IsApp(j) => Pins(j, changes)

Planned(j, a, changes, readable) ==
  Alone(j, a) /\ readable = AllReleases => \E s \in Selections : SelectsFor(j, s) /\ changes = InstallPlanOf(j, s)

\* The packages that become direct without being solved.
PromotedFor(j, a, S) ==
  /\ S \subseteq Listed(j) /\ \A p \in S : find_package_map(j, p) = "indirect"
  /\ S # {} => IsApp(j)

\* The same plan is read off a selection when entries have only moved.
LEMMA PlanOfMoved ==
  ASSUME NEW j, NEW k, Keeps(j, k), Production(k) = Production(j), NEW s
  PROVE  /\ InstallPlanOf(k, s) = InstallPlanOf(j, s)
         /\ SelectsFor(j, s) => SelectsFor(k, s)
<1>1. Changed(k, s) = Changed(j, s)
  BY DEF Changed, Keeps
<1> QED BY <1>1 DEF InstallPlanOf, SelectsFor

\* Confirmed installation of solved packages.
LEMMA InstallLeaves ==
  ASSUME NEW j, Sound(j), NEW a, a.kind = "install", NEW changes \in Partial(Packages, AllVersions),
         NEW S, PromotedFor(j, a, S), PlanFor(j, a, changes),
         NEW readable, Planned(j, a, changes, readable), NEW read,
         NEW k, k = add_or_update(PromoteIndirect(j, S), InstallChanges(PromoteIndirect(j, S), changes, AskedBy(a)),
                                  AskedBy(a), a.is_test)
  PROVE  Sound(k) /\ Leaves(j, k, a, readable, read)
<1> DEFINE i == PromoteIndirect(j, S)
           new == InstallChanges(i, changes, AskedBy(a))
<1>1. /\ Sound(i) /\ Keeps(j, i) /\ Production(i) = Production(j)
      /\ ListedOnce(j) => ListedOnce(i)
  BY PromoteIndirectKeeps DEF PromotedFor
<1>2. /\ i.kind = j.kind /\ Listed(i) = Listed(j) /\ (IsApp(i) <=> IsApp(j))
      /\ \A p \in Listed(j) : /\ find_existing_package(i, p) = find_existing_package(j, p)
                              /\ VersionIn(i, p) = VersionIn(j, p)
  BY <1>1 DEF Keeps, VersionIn, IsApp
<1> HIDE DEF i
<1>3. /\ IsApp(j) => new = changes
      /\ ~IsApp(j) => /\ new = [p \in (DOMAIN changes \cap AskedBy(a)) \ Listed(i) |-> changes[p]]
                      /\ DOMAIN new = (DOMAIN changes \cap AskedBy(a)) \ Listed(j)
  BY <1>2 DEF InstallChanges
<1>4. new \in Partial(Packages, AllVersions)
  <2>1. DOMAIN changes \subseteq Packages /\ \A p \in DOMAIN changes : changes[p] \in AllVersions
    BY PlanTypes
  <2>2. CASE ~IsApp(j)
    <3> DEFINE D == (DOMAIN changes \cap AskedBy(a)) \ Listed(i)
    <3>1. [p \in D |-> changes[p]] \in [D -> AllVersions] /\ D \in SUBSET Packages
      BY <2>1
    <3> QED BY <1>3, <2>2, <3>1 DEF Partial
  <2> QED BY <1>3, <2>2
<1> HIDE DEF new
<1>5. Sound(k) /\ Wrote(i, k, new)
  BY <1>1, <1>4, AddOrUpdateWrites DEF i, new
<1>6. /\ k.kind = j.kind /\ Listed(k) = Listed(j) \cup DOMAIN new
      /\ \A p \in Listed(j) \ DOMAIN new : find_existing_package(k, p) = find_existing_package(j, p)
  BY <1>2, <1>5 DEF Wrote
<1>7. Production(j) = Production(k) \cap Listed(j) /\ Production(j) \subseteq Listed(j)
  BY <1>1, <1>2, <1>5, WroteProduction, ProductionFirst
<1>8. LeavesOnce(j, k, a)
  BY <1>1, <1>5, WroteOnce DEF LeavesOnce
<1>9. LeavesSolved(j, k, a, readable, read)
  <2> SUFFICES ASSUME IsApp(j), ~a.major, Len(a.packages) = 1, readable = AllReleases
               PROVE  Solved(k, Production(k))
    BY DEF LeavesSolved
  <2>1. PICK s : SelectsFor(j, s) /\ changes = InstallPlanOf(j, s)
    BY DEF Planned, Alone
  <2>2. SelectsFor(i, s) /\ new = InstallPlanOf(i, s)
    BY <1>1, <1>3, <2>1, PlanOfMoved
  <2> QED BY <1>5, <2>2, WroteSolved
<1>10. LeavesPins(j, k, a)
  <2> SUFFICES ASSUME a.is_test, ~a.upgrade_all, ~a.major, NEW p \in Production(j)
               PROVE  p \in Production(k) /\ find_existing_package(k, p) = find_existing_package(j, p)
    BY DEF LeavesPins
  <2>1. p \notin DOMAIN new
    BY <1>3, <1>7 DEF PlanFor, Pins
  <2> QED BY <1>6, <1>7, <2>1
<1>11. LeavesMajor(j, k, a)
  <2> SUFFICES ASSUME ~a.major, NEW p \in Production(j), p \in Listed(k)
               PROVE  Major(VersionIn(k, p)) = Major(VersionIn(j, p))
    BY DEF LeavesMajor
  <2>1. InMajor(j, new)
    BY <1>3, <1>7 DEF PlanFor, InMajor
  <2>2. InMajor(i, new)
    BY <1>1, <1>2, <1>7, <2>1 DEF InMajor
  <2>3. Major(VersionIn(k, p)) = Major(VersionIn(i, p))
    BY <1>1, <1>5, <2>2, WroteInMajor
  <2> QED BY <1>2, <1>7, <2>3
<1>12. LeavesConstraints(j, k, a)
  BY <1>3, <1>6 DEF LeavesConstraints
<1>13. LeavesClean(j, k, a)
  BY DEF LeavesClean
<1> QED BY <1>5, <1>8, <1>9, <1>10, <1>11, <1>12, <1>13 DEF Leaves

\* A package from a file.
LEMMA FileLeaves ==
  ASSUME NEW j, Sound(j), NEW a, a.kind = "file", NEW changes \in Partial(Packages, AllVersions),
         NEW readable, NEW read, NEW k, k = add_or_update(j, changes, AskedBy(a), a.is_test)
  PROVE  Sound(k) /\ Leaves(j, k, a, readable, read)
<1>1. Sound(k) /\ Wrote(j, k, changes)
  BY AddOrUpdateWrites
<1>2. LeavesOnce(j, k, a)
  BY <1>1, WroteOnce DEF LeavesOnce
<1> QED BY <1>1, <1>2 DEF Leaves, LeavesSolved, LeavesPins, LeavesMajor, LeavesConstraints, LeavesClean

\* A confirmed upgrade, whichever way it is written.
LEMMA UpgradeLeaves ==
  ASSUME NEW j, NEW k, NEW a, NEW changes, NEW taken, NEW readable, NEW read,
         Sound(j), a.kind \in {"upgrade", "upgrade_all"}, Wrote(j, k, taken),
         PlanFor(j, a, changes), Planned(j, a, changes, readable),
         IsApp(j) => taken = changes, InMajor(j, changes) => InMajor(j, taken)
  PROVE  Leaves(j, k, a, readable, read)
<1>1. LeavesOnce(j, k, a)
  BY WroteOnce DEF LeavesOnce
<1>2. LeavesSolved(j, k, a, readable, read)
  <2> SUFFICES ASSUME IsApp(j), ~a.major, a.kind = "upgrade", readable = AllReleases
               PROVE  Solved(k, Production(k))
    BY DEF LeavesSolved
  <2>1. PICK s : SelectsFor(j, s) /\ changes = InstallPlanOf(j, s)
    BY DEF Planned, Alone
  <2> QED BY <2>1, WroteSolved
<1>3. LeavesMajor(j, k, a)
  <2>1. ~a.major => InMajor(j, taken)
    BY DEF PlanFor
  <2> QED BY <2>1, WroteInMajor DEF LeavesMajor
<1> QED BY <1>1, <1>2, <1>3 DEF Leaves, LeavesPins, LeavesConstraints, LeavesClean

\* A confirmed removal.
LEMMA RemovalLeaves ==
  ASSUME NEW j, Sound(j), NEW a, a.kind = "remove", AskedBy(a) \subseteq Listed(j),
         NEW readable, NEW read \in SUBSET AllReleases, NEW k,
         k = IF IsApp(j) THEN RemoveFromApp(j, AskedBy(a), read) ELSE RemoveFromPackage(j, AskedBy(a))
  PROVE  Sound(k) /\ Leaves(j, k, a, readable, read)
<1>1. LeavesPins(j, k, a) /\ LeavesMajor(j, k, a) /\ LeavesConstraints(j, k, a)
  BY DEF LeavesPins, LeavesMajor, LeavesConstraints
<1>2. Sound(k) /\ (ListedOnce(j) => ListedOnce(k))
  BY RemoveFromAppKeeps, RemovedKeeps DEF RemoveFromPackage
<1>3. LeavesOnce(j, k, a)
  BY <1>2 DEF LeavesOnce
<1>4. LeavesSolved(j, k, a, readable, read)
  <2> SUFFICES ASSUME IsApp(j), Solved(j, Listed(j)), DirectOnly(j, a), ListedReleases(j) \subseteq read
               PROVE  Solved(k, Production(k))
    BY DEF LeavesSolved
  <2>1. Solved(k, Listed(k))
    BY RemovalKeepsSolved DEF DirectOnly
  <2>2. Production(k) \subseteq Listed(k)
    BY ProductionFirst
  <2> QED BY <2>1, <2>2 DEF Solved
<1>5. LeavesClean(j, k, a)
  <2> SUFFICES ASSUME IsApp(j), DirectOnly(j, a)
               PROVE  /\ Listed(k) \subseteq Wanted(k)
                      /\ \A m \in DirectMaps : DOMAIN j[m] \ AskedBy(a) \subseteq DOMAIN k[m]
    BY DEF LeavesClean
  <2> QED BY RemovalCleansUp DEF DirectOnly
<1> QED BY <1>1, <1>2, <1>3, <1>4, <1>5 DEF Leaves

-----------------------------------------------------------------------------
(* The inductive invariant *)

\* What the running command knows while it stands at "where".
Working(j, a, where, t, r, changes, S, readable) ==
  /\ where \in {"idle", "begin"} => t = {} /\ r = 1 /\ changes = <<>> /\ S = {}
  /\ where = "solve" => a.kind \in {"install", "upgrade"}
  /\ where = "confirm" => a.kind # "none"
  /\ where \in {"solve", "confirm"} => PromotedFor(j, a, S) /\ PlanFor(j, a, changes)
  /\ where = "solve" /\ Alone(j, a) => DOMAIN changes = {} /\ t = {1}
  /\ where = "confirm" => Planned(j, a, changes, readable)
  /\ where = "confirm" /\ a.kind = "remove" => AskedBy(a) \subseteq Listed(j)

AskIs(a) ==
  /\ a \in Command
  /\ a.kind \in Single => Len(a.packages) = 1
  /\ a.kind = "file" => a.version[First(a)] \in Versions(First(a))

\* While elm.json is whole.
Typed == WorkOK /\ elm \in Project /\ mem \in Project

IInv ==
  /\ Typed /\ AskIs(ask) /\ Sound(elm) /\ Sound(mem)
  /\ pc \in {"idle", "begin", "solve", "confirm"} => mem = elm
  /\ Working(elm, ask, pc, todo, rung, plan, promoted, reach)
  /\ Promised

\* Once elm.json is torn.
Lost == WorkOK /\ elm = Torn /\ mem = Torn /\ pc = "idle"

Held == IInv \/ Lost

\* A torn file is no project.
LEMMA TornIsNone == Torn \notin Project
BY DEF Torn, Project, File

\* No change at all is a plan.
LEMMA EmptyPlan == <<>> \in Partial(Packages, AllVersions) /\ DOMAIN <<>> = {}
<1>1. <<>> \in [{} -> AllVersions] /\ DOMAIN <<>> = {}
  OBVIOUS
<1>2. [{} -> AllVersions] \in {[D -> AllVersions] : D \in SUBSET Packages}
  OBVIOUS
<1> QED BY <1>1, <1>2 DEF Partial

\* No command is one that nothing is asked of.
LEMMA NoAsk == AskIs(NoCommand)
<1>1. NoCommand.version \in [Packages -> Nat]
  BY DEF NoCommand, NotSelected
<1>2. NoCommand \in Command
  BY <1>1 DEF NoCommand, Command, NotSelected
<1> QED BY <1>2 DEF AskIs, NoCommand, Single

\* Where nothing has been planned.
LEMMA NoWorking ==
  ASSUME NEW j, NEW a, NEW readable
  PROVE  /\ Working(j, a, "idle", {}, 1, <<>>, {}, readable)
         /\ Working(j, a, "begin", {}, 1, <<>>, {}, readable)
BY DEF Working

\* The invariant holds in the beginning.
LEMMA InitHolds == Init => IInv
<1> SUFFICES ASSUME Init PROVE IInv
  OBVIOUS
<1> USE DEF Init, NoWork
<1>1. Sound(elm) /\ mem = elm /\ elm \in Project
  BY WorldIsSuch DEF Sound
<1>2. AskIs(ask) /\ ask \in Command
  BY NoAsk DEF AskIs
<1>3. plan \in Partial(Packages, AllVersions)
  BY EmptyPlan
<1>4. issued \in 0..MaxCommands /\ cached \in SUBSET AllReleases
  BY WorldIsSuch
<1>5. Typed
  BY <1>1, <1>2, <1>3, <1>4 DEF Typed, WorkOK
<1>6. Working(elm, ask, pc, todo, rung, plan, promoted, reach)
  BY NoWorking
<1>7. Promised
  BY DEF Promised
<1> QED BY <1>1, <1>2, <1>5, <1>6, <1>7 DEF IInv

\* A process that ends leaves elm.json as it was, or as it had it in memory.
LEMMA EndKeeps ==
  ASSUME IInv, Finish, elm' \in {elm, mem}, tmp' \in {"none", "torn", "whole"},
         cached' \subseteq AllReleases, issued' \in 0..MaxCommands,
         result' \in {"none", "running", "ok", "failed", "declined", "current", "crashed"}
  PROVE  IInv'
<1> USE DEF Finish
<1>1. Sound(elm') /\ mem' = elm' /\ elm' \in Project
  BY DEF IInv, Sound
<1>2. AskIs(ask') /\ ask' \in Command
  BY NoAsk DEF AskIs
<1>3. plan' \in Partial(Packages, AllVersions)
  BY EmptyPlan
<1>4. Typed'
  BY <1>1, <1>2, <1>3 DEF Typed, WorkOK
<1>5. Working(elm', ask', pc', todo', rung', plan', promoted', reach')
  BY NoWorking
<1>6. Promised'
  BY DEF Promised
<1> QED BY <1>1, <1>2, <1>4, <1>5, <1>6 DEF IInv

\* A command that starts knows elm.json and nothing else.
LEMMA StartKeeps ==
  ASSUME IInv, NEW c \in Commands, NEW lost \in Outages, Start(c, lost)
  PROVE  IInv'
<1> USE DEF Start
<1>1. AskIs(ask') /\ ask' \in Command
  BY CommandsAreSuch DEF AskIs, First
<1>2. plan' \in Partial(Packages, AllVersions)
  BY EmptyPlan
<1>3. reach' \subseteq AllReleases
  BY WorldIsSuch DEF IInv, Typed, WorkOK
<1>4. issued' \in 0..MaxCommands
  BY WorldIsSuch DEF IInv, Typed, WorkOK
<1>5. Typed'
  BY <1>1, <1>2, <1>3, <1>4 DEF Typed, WorkOK, IInv
<1>6. Sound(elm') /\ Sound(mem') /\ mem' = elm'
  BY DEF IInv
<1>7. Working(elm', ask', pc', todo', rung', plan', promoted', reach')
  BY NoWorking
<1>8. Promised'
  BY DEF Promised
<1> QED BY <1>1, <1>5, <1>6, <1>7, <1>8 DEF IInv

\* The steps that end a command: nothing, or the renamed file, is left.
Ending ==
  \/ InstallItself \/ InstallKeeps \/ InstallUnknown \/ InstallManyUnknown \/ CopyFails
  \/ UpgradeUnknown \/ UpgradeCurrent \/ UpgradeBlocked \/ UpgradeAllCurrent \/ UpgradeAllFails
  \/ SolverGivesUp \/ DownloadFails \/ RemoveUnknown
  \/ NothingToDo \/ DeclineInstall \/ DeclineInstallMany \/ DeclineFile
  \/ DeclineUpgrade \/ DeclineUpgradeAll \/ DeclineRemove
  \/ Rename \/ WriteFails \/ Crash

\* Whatever is downloaded is a release.
LEMMA LearnTypes ==
  ASSUME IInv, NEW s \in Selections, Learn(s), todo = {} \/ <<Current, s[Current]>> \in reach
  PROVE  cached' \subseteq AllReleases
BY DEF Learn, IInv, Typed, WorkOK

\* What an upgrade looks into is a release, too.
LEMMA InspectTypes ==
  ASSUME IInv, InspectsDependents
  PROVE  cached' \subseteq AllReleases
BY DEF InspectsDependents, IInv, Typed, WorkOK

\* However a command ends, the invariant holds for the next one.
LEMMA EndingKeeps ==
  ASSUME IInv, Ending, UNCHANGED issued
  PROVE  IInv'
<1>1. tmp \in {"none", "torn", "whole"} /\ cached \subseteq AllReleases /\ issued \in 0..MaxCommands
  BY DEF IInv, Typed, WorkOK
<1>2. CASE \E how \in {"ok", "failed", "declined", "current"} : End(how)
  BY <1>1, <1>2, EndKeeps DEF End
<1>3. CASE CopyFails
  BY <1>1, <1>3, EndKeeps DEF CopyFails
<1>4. CASE UpgradeBlocked
  BY <1>1, <1>4, EndKeeps, InspectTypes DEF UpgradeBlocked
<1>5. CASE UpgradeAllCurrent
  <2>1. PICK s \in Solutions(UpgradeAllRootsNow, reach) : Learn(s)
    BY <1>5 DEF UpgradeAllCurrent
  <2>2. s \in Selections
    BY DEF Solutions
  <2>3. todo = {}
    BY <1>5 DEF UpgradeAllCurrent, IInv, Working
  <2> QED BY <1>1, <1>5, <2>1, <2>2, <2>3, EndKeeps, LearnTypes DEF UpgradeAllCurrent
<1>6. CASE Rename
  BY <1>1, <1>6, EndKeeps DEF Rename
<1>7. CASE WriteFails
  BY <1>1, <1>7, EndKeeps DEF WriteFails
<1>8. CASE Crash
  BY <1>1, <1>8, EndKeeps DEF Crash
<1> QED BY <1>2, <1>3, <1>4, <1>5, <1>6, <1>7, <1>8
  DEF Ending, InstallItself, InstallKeeps, InstallUnknown, InstallManyUnknown, UpgradeUnknown, UpgradeCurrent,
    UpgradeAllFails, SolverGivesUp, DownloadFails, RemoveUnknown, NothingToDo, DeclineInstall, DeclineInstallMany,
    DeclineFile, DeclineUpgrade, DeclineUpgradeAll, DeclineRemove, NotConfirmed

\* A step that gets on with the plan.
LEMMA PlanGoesOn ==
  ASSUME IInv, pc \in {"begin", "solve", "confirm"}, pc' \in {"solve", "confirm"},
         UNCHANGED <<elm, mem, tmp, reach, result, issued>>,
         AskIs(ask'), todo' \subseteq DOMAIN ask'.packages, rung' \in 1..3,
         plan' \in Partial(Packages, AllVersions), promoted' \subseteq Packages, cached' \subseteq AllReleases,
         Working(elm, ask', pc', todo', rung', plan', promoted', reach)
  PROVE  IInv'
<1>1. Typed'
  BY DEF IInv, Typed, WorkOK, AskIs
<1>2. mem' = elm' /\ Sound(elm') /\ Sound(mem')
  BY DEF IInv
<1>3. Promised'
  BY DEF Promised
<1> QED BY <1>1, <1>2, <1>3 DEF IInv

\* The edited project is about to be written.
LEMMA WriteBegins ==
  ASSUME IInv, pc \in {"begin", "confirm"}, pc' = "write",
         UNCHANGED <<elm, tmp, ask, todo, rung, plan, promoted, reach, result, issued>>,
         cached' \subseteq AllReleases, Sound(mem'), Leaves(elm, mem', ask, reach, cached')
  PROVE  IInv'
<1>1. mem' \in Project
  BY DEF Sound
<1>2. Typed'
  BY <1>1 DEF IInv, Typed, WorkOK
<1>3. Working(elm', ask', pc', todo', rung', plan', promoted', reach')
  BY DEF Working
<1>4. Promised'
  BY DEF Promised
<1> QED BY <1>2, <1>3, <1>4 DEF IInv

\* Writing the file: what is promised stays promised.
LEMMA WritingKeeps ==
  ASSUME IInv, OpenTmp \/ FillTmp, UNCHANGED issued
  PROVE  IInv'
<1>1. /\ pc \in {"write", "fill"} /\ pc' \in {"fill", "rename"} /\ tmp' \in {"torn", "whole"}
      /\ UNCHANGED <<elm, cached, result, mem, ask, todo, rung, plan, promoted, reach>>
  BY DEF OpenTmp, FillTmp, work
<1>2. Typed'
  BY <1>1 DEF IInv, Typed, WorkOK
<1>3. Working(elm', ask', pc', todo', rung', plan', promoted', reach')
  BY <1>1 DEF Working
<1>4. Promised'
  BY <1>1 DEF IInv, Promised
<1> QED BY <1>1, <1>2, <1>3, <1>4 DEF IInv

\* Installing one package that is listed needs no solver.
LEMMA MovingKeeps ==
  ASSUME IInv, InstallMovesToTests \/ InstallPromotes, UNCHANGED issued
  PROVE  IInv'
<1>1. /\ pc = "begin" /\ pc' = "write" /\ ask.kind = "install" /\ Only \in Listed(mem)
      /\ UNCHANGED <<elm, tmp, ask, todo, rung, plan, promoted, reach, result, cached>>
  BY DEF InstallMovesToTests, InstallPromotes, Installing, Present, Goto
<1>2. Sound(mem) /\ mem = elm /\ cached \subseteq AllReleases
  BY <1>1 DEF IInv, Typed, WorkOK
<1>3. Only = First(ask)
  BY DEF Only, First
<1>4. CASE InstallMovesToTests
  <2>1. mem' = AddToTests(Only) /\ ask.is_test /\ Only \notin DOMAIN mem["test_direct"]
    BY <1>4 DEF InstallMovesToTests
  <2>2. Sound(mem') /\ Keeps(mem, mem') /\ Production(mem) \subseteq Production(mem')
    BY <1>1, <1>2, <2>1, AddToTestsKeeps
  <2>3. Leaves(elm, mem', ask, reach, cached')
    BY <1>1, <1>2, <1>3, <2>1, <2>2, MovesLeave
  <2> QED BY <1>1, <1>2, <2>2, <2>3, WriteBegins
<1>5. CASE InstallPromotes
  <2>1. mem' = elm_json_promote_package(mem, Only) /\ ~ask.is_test /\ elm_json_find_package(mem, Only) # "none"
    BY <1>5 DEF InstallPromotes
  <2>2. Sound(mem') /\ Keeps(mem, mem') /\ (ListedOnce(mem) => ListedOnce(mem'))
    BY <1>1, <1>2, <2>1, PromoteKeeps
  <2>3. Leaves(elm, mem', ask, reach, cached')
    BY <1>1, <1>2, <1>3, <2>1, <2>2, MovesLeave
  <2> QED BY <1>1, <1>2, <2>2, <2>3, WriteBegins
<1> QED BY <1>4, <1>5

\* Before anything is solved, the plan is empty.
LEMMA NoPlan ==
  ASSUME NEW j, NEW a
  PROVE  PlanFor(j, a, <<>>) /\ PromotedFor(j, a, {})
BY EmptyPlan DEF PlanFor, PromotedFor, InMajor, Pins

\* The steps from a command to its plan, or to the solver.
LEMMA BeginningKeeps ==
  ASSUME IInv, InstallSolves \/ InstallMany \/ InstallFile \/ UpgradeSolves \/ UpgradeAll \/ RemovePlans,
         UNCHANGED issued
  PROVE  IInv'
<1>1. pc = "begin" /\ mem = elm /\ Sound(elm) /\ AskIs(ask) /\ Typed
  BY DEF IInv, InstallSolves, Installing, InstallMany, InstallingMany, InstallFile, UpgradeSolves, Upgradable,
    Upgrading, UpgradeAll, RemovePlans
<1>2. todo = {} /\ rung = 1 /\ plan = <<>> /\ promoted = {}
  BY <1>1 DEF IInv, Working
<1>3. cached \subseteq AllReleases /\ rung \in 1..3 /\ ask.packages \in Seq(Packages) /\ promoted \subseteq Packages
  BY <1>1 DEF Typed, WorkOK, Command
<1>4. plan \in Partial(Packages, AllVersions)
  BY <1>1 DEF Typed, WorkOK
<1>5. AskedBy(ask) \subseteq Packages /\ Asked = AskedBy(ask)
  BY <1>3 DEF AskedBy, Asked
<1>6. CASE InstallSolves
  <2>1. /\ UNCHANGED <<elm, tmp, cached, result, mem, ask, rung, plan, promoted, reach>>
        /\ todo' = {1} /\ pc' = "solve" /\ Len(ask.packages) = 1 /\ ask.kind = "install"
    BY <1>6 DEF InstallSolves, Installing, Solve, Goto
  <2>2. 1 \in DOMAIN ask.packages
    BY <1>3, <2>1
  <2>3. Working(elm, ask', pc', todo', rung', plan', promoted', reach)
    BY <1>2, <2>1, NoPlan, EmptyPlan DEF Working
  <2> QED BY <1>1, <1>3, <1>4, <2>1, <2>2, <2>3, PlanGoesOn
<1>7. CASE InstallMany
  <2>1. /\ UNCHANGED <<elm, tmp, cached, result, mem, ask, rung, plan, reach>>
        /\ todo' \subseteq DOMAIN ask.packages /\ pc' \in {"solve", "confirm"}
        /\ ask.kind = "install" /\ Len(ask.packages) # 1
        /\ promoted' = {p \in Asked : Indirect(p)}
    BY <1>3, <1>7 DEF InstallMany, InstallingMany, Solve, Goto
  <2>2. PromotedFor(elm, ask, promoted')
    <3> SUFFICES ASSUME NEW p \in promoted'
                 PROVE  p \in Listed(elm) /\ find_package_map(elm, p) = "indirect" /\ IsApp(elm)
      BY DEF PromotedFor
    <3>1. elm_json_find_package(elm, p) = "direct" /\ find_package_map(elm, p) = "indirect"
      BY <1>1, <2>1 DEF Indirect
    <3> QED BY <3>1 DEF elm_json_find_package, Promotions
  <2>3. Working(elm, ask', pc', todo', rung', plan', promoted', reach)
    BY <1>2, <2>1, <2>2, NoPlan DEF Working, Alone, Planned
  <2> QED BY <1>1, <1>3, <1>4, <1>5, <2>1, <2>3, PlanGoesOn
<1>8. CASE InstallFile
  <2>1. /\ UNCHANGED <<elm, tmp, cached, result, mem, ask, todo, rung, promoted, reach>>
        /\ plan' = [p \in {Only} |-> AskedVersion(p)] /\ pc' = "confirm" /\ ask.kind = "file"
    BY <1>8 DEF InstallFile, Goto
  <2>2. Only \in Packages /\ AskedVersion(Only) \in AllVersions
    <3>1. Len(ask.packages) = 1 /\ ask.version[Only] \in Versions(Only)
      BY <1>1, <2>1 DEF AskIs, Single, Only, First
    <3>2. Only \in Packages
      BY <1>3, <3>1 DEF Only
    <3> QED BY <3>1, <3>2 DEF AllVersions, AskedVersion
  <2>3. plan' \in Partial(Packages, AllVersions)
    <3>1. plan' \in [{Only} -> AllVersions] /\ {Only} \in SUBSET Packages
      BY <2>1, <2>2
    <3> QED BY <3>1 DEF Partial
  <2>4. Working(elm, ask', pc', todo', rung', plan', promoted', reach)
    BY <1>2, <2>1, NoPlan DEF Working, PlanFor, Alone, Planned
  <2> QED BY <1>1, <1>2, <1>3, <2>1, <2>3, <2>4, PlanGoesOn
<1>9. CASE UpgradeSolves
  <2>1. /\ UNCHANGED <<elm, tmp, mem, rung, plan, promoted, reach, result>>
        /\ ask' = [ask EXCEPT !.is_test = InTest(mem, Only)] /\ ask.kind = "upgrade"
        /\ todo' = {1} /\ pc' = "solve" /\ InspectsDependents
    BY <1>9 DEF UpgradeSolves, Upgradable, Upgrading
  <2>2. InTest(mem, Only) \in BOOLEAN
    BY DEF InTest
  <2>3. AskIs(ask') /\ ask'.packages = ask.packages
    BY <1>1, <2>1, <2>2 DEF AskIs, Command, First
  <2>4. 1 \in DOMAIN ask.packages
    BY <1>1, <1>3, <2>1 DEF AskIs, Single
  <2>5. Working(elm, ask', pc', todo', rung', plan', promoted', reach)
    BY <1>2, <2>1, NoPlan, EmptyPlan DEF Working
  <2>6. cached' \subseteq AllReleases
    BY <2>1, InspectTypes
  <2> QED BY <1>1, <1>3, <1>4, <2>1, <2>3, <2>4, <2>5, <2>6, PlanGoesOn
<1>10. CASE UpgradeAll
  <2>1. /\ UNCHANGED <<elm, tmp, mem, ask, todo, rung, promoted, reach, result>>
        /\ ask.kind = "upgrade_all" /\ pc' = "confirm"
    BY <1>10 DEF UpgradeAll
  <2>2. PICK s \in Solutions(UpgradeAllRoots(elm, ask.major), reach) : plan' = UpgradeAllPlanOf(elm, s) /\ Learn(s)
    BY <1>1, <1>10 DEF UpgradeAll, UpgradeAllRootsNow
  <2>3. s \in Selections /\ plan' \in Partial(Packages, AllVersions)
    BY <2>2, SolutionIs, PlanOfSelection
  <2>4. cached' \subseteq AllReleases
    BY <1>2, <2>2, <2>3, LearnTypes
  <2>5. ~ask.major => InMajor(elm, plan')
    <3>1. ask.major \in BOOLEAN
      BY <1>1 DEF AskIs, Command
    <3>2. CASE ask.major = FALSE
      BY <1>1, <2>2, <3>2, UpgradeAllPlans
    <3> QED BY <3>1, <3>2
  <2>6. Working(elm, ask', pc', todo', rung', plan', promoted', reach)
    BY <1>2, <2>1, <2>5, NoPlan DEF Working, PlanFor, Alone, Planned
  <2> QED BY <1>1, <1>2, <1>3, <2>1, <2>3, <2>4, <2>6, PlanGoesOn
<1>11. CASE RemovePlans
  <2>1. /\ UNCHANGED <<elm, tmp, cached, result, mem, ask, todo, rung, plan, promoted, reach>>
        /\ ask.kind = "remove" /\ pc' = "confirm" /\ AskedBy(ask) \subseteq Listed(elm)
    BY <1>1, <1>5, <1>11 DEF RemovePlans, Goto, work
  <2>2. Working(elm, ask', pc', todo', rung', plan', promoted', reach)
    BY <1>2, <2>1, NoPlan DEF Working, Alone, Planned
  <2> QED BY <1>1, <1>2, <1>3, <1>4, <2>1, <2>2, PlanGoesOn
<1> QED BY <1>6, <1>7, <1>8, <1>9, <1>10, <1>11

\* Without --major the ladder has three rungs, and none of them lets go of
\* production.
LEMMA LadderIs ==
  ASSUME NEW a, NEW version
  PROVE  /\ Len(strategies(a, version)) = 1 \/ Len(strategies(a, version)) = 3
         /\ ~a.major => /\ Len(strategies(a, version)) = 3
                        /\ \A r \in 1..3 : strategies(a, version)[r] \in Gentle
BY DEF strategies, Gentle

\* Every rung that answers adds a plan that keeps to the restrictions.
LEMMA SolvingKeeps ==
  ASSUME IInv, SolverFinds \/ SolverFindsNone, UNCHANGED issued
  PROVE  IInv'
<1>1. pc = "solve" /\ mem = elm /\ Sound(elm) /\ AskIs(ask) /\ Typed
  BY DEF IInv, SolverFinds, SolverFindsNone
<1>2. /\ PromotedFor(elm, ask, promoted) /\ PlanFor(elm, ask, plan) /\ ask.kind \in {"install", "upgrade"}
      /\ Alone(elm, ask) => DOMAIN plan = {} /\ todo = {1}
  BY <1>1 DEF IInv, Working
<1>3. /\ plan \in Partial(Packages, AllVersions) /\ promoted \subseteq Packages /\ cached \subseteq AllReleases
      /\ todo \subseteq DOMAIN ask.packages /\ rung \in 1..3
  BY <1>1 DEF Typed, WorkOK
<1>4. CASE SolverFindsNone
  <2>1. /\ UNCHANGED <<elm, tmp, mem, ask, todo, plan, promoted, reach, cached, result>>
        /\ rung' = rung + 1 /\ rung < Len(Ladder) /\ pc' = "solve"
    BY <1>4 DEF SolverFindsNone, Goto
  <2>2. Len(Ladder) = 1 \/ Len(Ladder) = 3
    BY LadderIs DEF Ladder
  <2>3. rung' \in 1..3
    <3> SUFFICES rung < 1 \/ rung < 3
      BY <1>3, <2>1
    <3> QED BY <2>1, <2>2
  <2>4. Working(elm, ask', pc', todo', rung', plan', promoted', reach)
    BY <1>2, <2>1 DEF Working
  <2> QED BY <1>1, <1>3, <2>1, <2>3, <2>4, PlanGoesOn
<1>5. CASE SolverFinds
  <2>1. /\ UNCHANGED <<elm, tmp, mem, ask, promoted, reach, result>>
        /\ todo' = todo \ {Min(todo)} /\ rung' = 1 /\ pc' = IF todo' = {} THEN "confirm" ELSE "solve"
    BY <1>5 DEF SolverFinds
  <2> DEFINE strategy == Ladder[rung]
             more == Target(Current, IF strategy = "cross_major" THEN NotSelected ELSE AskedVersion(Current))
  <2>2. PICK s \in Solutions(Roots(elm, strategy, ask) \cup more, reach) :
          /\ <<Current, s[Current]>> \in reach
          /\ plan' = install_plan_merge(plan, InstallPlanOf(elm, s)) /\ Learn(s)
    BY <1>1, <1>5 DEF SolverFinds, RungRoots
  <2>3. ~ask.major => strategy \in Gentle
    BY <1>3, LadderIs DEF Ladder
  <2> HIDE DEF strategy, more
  <2>4. s \in Selections /\ InstallPlanOf(elm, s) \in Partial(Packages, AllVersions)
    BY <2>2, SolutionIs, PlanOfSelection
  <2>5. cached' \subseteq AllReleases
    BY <2>2, <2>4, LearnTypes
  <2>6. /\ plan' \in Partial(Packages, AllVersions)
        /\ DOMAIN plan = {} => plan' = InstallPlanOf(elm, s)
    BY <1>3, <2>2, <2>4, MergeIs
  <2>7. ~ask.major => /\ Production(elm) \subseteq Selected(s)
                      /\ InMajor(elm, InstallPlanOf(elm, s))
                      /\ IsApp(elm) /\ PinProduction(ask) => Pins(elm, InstallPlanOf(elm, s))
    BY <1>1, <2>2, <2>3, GentlePlans
  <2>8. PlanFor(elm, ask, plan')
    <3>1. /\ InMajor(elm, plan) /\ InMajor(elm, InstallPlanOf(elm, s)) => InMajor(elm, plan')
          /\ Pins(elm, plan) /\ Pins(elm, InstallPlanOf(elm, s)) => Pins(elm, plan')
      BY <1>3, <2>2, <2>4, MergeKeeps
    <3> QED BY <1>2, <2>7, <3>1 DEF PlanFor, PinProduction
  <2>9. ASSUME Alone(elm, ask)
        PROVE  /\ todo' = {} /\ pc' = "confirm"
               /\ reach = AllReleases => SelectsFor(elm, s) /\ plan' = InstallPlanOf(elm, s)
    <3>1. todo = {1} /\ plan' = InstallPlanOf(elm, s)
      BY <1>2, <2>6, <2>9
    <3>2. Min({1}) = 1
      BY DEF Min
    <3>3. todo' = {}
      BY <2>1, <3>1, <3>2
    <3>4. reach = AllReleases => SelectsFor(elm, s)
      BY <2>2, <2>4, <2>7, <2>9, SolutionIs DEF SelectsFor, Alone
    <3> QED BY <2>1, <3>1, <3>3, <3>4
  <2>10. Working(elm, ask', pc', todo', rung', plan', promoted', reach)
    <3>1. Planned(elm, ask, plan', reach)
      BY <2>4, <2>9 DEF Planned
    <3> QED BY <1>2, <2>1, <2>8, <2>9, <3>1 DEF Working
  <2> QED BY <1>1, <1>3, <2>1, <2>5, <2>6, <2>10, PlanGoesOn
<1> QED BY <1>4, <1>5

\* Package projects take from a plan what was asked for.
LEMMA UpgradeChangesAre ==
  ASSUME NEW j, NEW changes \in Partial(Packages, AllVersions), NEW S
  PROVE  /\ UpgradeChanges(j, changes, S) \in Partial(Packages, AllVersions)
         /\ IsApp(j) => UpgradeChanges(j, changes, S) = changes
         /\ InMajor(j, changes) => InMajor(j, UpgradeChanges(j, changes, S))
<1>1. DOMAIN changes \subseteq Packages /\ \A p \in DOMAIN changes : changes[p] \in AllVersions
  BY PlanTypes
<1>2. CASE IsApp(j)
  BY <1>2 DEF UpgradeChanges
<1>3. CASE ~IsApp(j)
  <2> DEFINE D == DOMAIN changes \cap S
             f == [p \in D |-> changes[p]]
  <2>1. f \in [D -> AllVersions] /\ D \in SUBSET Packages
    BY <1>1
  <2>2. f \in Partial(Packages, AllVersions)
    BY <2>1 DEF Partial
  <2>3. UpgradeChanges(j, changes, S) = f
    BY <1>3 DEF UpgradeChanges
  <2> QED BY <1>3, <2>1, <2>2, <2>3 DEF InMajor
<1> QED BY <1>2, <1>3

\* What is confirmed leaves memory as it is promised.
LEMMA AcceptKeeps ==
  ASSUME IInv, Accept, UNCHANGED issued
  PROVE  IInv'
<1>1. /\ pc = "confirm" /\ pc' = "write" /\ mem' = Edited
      /\ UNCHANGED <<elm, tmp, result, ask, todo, rung, plan, promoted, reach>>
  BY DEF Accept
<1>2. mem = elm /\ Sound(elm) /\ AskIs(ask) /\ cached \subseteq AllReleases /\ plan \in Partial(Packages, AllVersions)
  BY <1>1 DEF IInv, Typed, WorkOK
<1>3. /\ PromotedFor(elm, ask, promoted) /\ PlanFor(elm, ask, plan) /\ Planned(elm, ask, plan, reach)
      /\ ask.kind = "remove" => AskedBy(ask) \subseteq Listed(elm)
      /\ ask.kind # "none"
  BY <1>1 DEF IInv, Working
<1>4. Asked = AskedBy(ask)
  BY DEF Asked, AskedBy
<1>5. cached' \subseteq AllReleases
  <2>1. CASE ask.kind = "file"
    <3>1. Len(ask.packages) = 1 /\ ask.version[Only] \in Versions(Only) /\ ask.packages \in Seq(Packages)
      BY <1>2, <2>1 DEF AskIs, Single, Only, First, Command
    <3>2. Only \in Packages
      BY <3>1 DEF Only
    <3>3. <<Only, AskedVersion(Only)>> \in AllReleases
      BY <3>1, <3>2 DEF AskedVersion, AllReleases
    <3> QED BY <1>2, <3>3 DEF Accept
  <2>2. CASE ask.kind # "file"
    BY <1>2, <2>2 DEF Accept
  <2> QED BY <2>1, <2>2
<1>6. Sound(mem') /\ Leaves(elm, mem', ask, reach, cached')
  <2>1. CASE ask.kind = "install"
    <3>1. mem' = Installed(PromoteIndirect(elm, promoted))
      BY ZenonT(30), <1>1, <1>2, <2>1 DEF Edited
    <3> QED BY <1>2, <1>3, <1>4, <2>1, <3>1, InstallLeaves DEF Installed
  <2>2. CASE ask.kind = "file"
    <3>1. mem' = add_or_update(elm, plan, AskedBy(ask), ask.is_test)
      BY ZenonT(30), <1>1, <1>2, <1>4, <2>2 DEF Edited
    <3> QED BY <1>2, <2>2, <3>1, FileLeaves
  <2>3. CASE ask.kind \in {"upgrade", "upgrade_all"}
    <3> DEFINE new == IF ask.protocol # "v2" /\ ask.kind = "upgrade"
                      THEN UpgradeChanges(elm, plan, AskedBy(ask)) ELSE plan
    <3>1. mem' = Upgraded
      BY ZenonT(30), <1>1, <2>3 DEF Edited
    <3>2. new \in Partial(Packages, AllVersions) /\ (IsApp(elm) => new = plan)
          /\ (InMajor(elm, plan) => InMajor(elm, new))
      BY <1>2, UpgradeChangesAre
    <3>3. mem' = IF ask.protocol = "v2" THEN apply_bare(elm, new, AskedBy(ask), ask.is_test)
                 ELSE apply_preserving_location(elm, new, AskedBy(ask), ask.is_test)
      BY <1>2, <1>4, <3>1 DEF Upgraded
    <3> HIDE DEF new
    <3>4. Sound(mem') /\ Wrote(elm, mem', new)
      BY <1>2, <3>2, <3>3, ApplyBareWrites, ApplyPreservingWrites
    <3>5. Leaves(elm, mem', ask, reach, cached')
      BY <1>2, <1>3, <2>3, <3>2, <3>4, UpgradeLeaves
    <3> QED BY <3>4, <3>5
  <2>4. CASE ask.kind = "remove"
    <3>1. mem' = IF IsApp(elm) THEN RemoveFromApp(elm, AskedBy(ask), cached) ELSE RemoveFromPackage(elm, AskedBy(ask))
      BY ZenonT(30), <1>1, <1>2, <1>4, <2>4 DEF Edited
    <3>2. cached' = cached
      BY <2>4 DEF Accept
    <3> QED BY <1>2, <1>3, <2>4, <3>1, <3>2, RemovalLeaves
  <2>5. ask.kind \in {"install", "file", "upgrade", "upgrade_all", "remove"}
    BY <1>2, <1>3 DEF AskIs, Command
  <2> QED BY <2>1, <2>2, <2>3, <2>4, <2>5
<1> QED BY <1>1, <1>5, <1>6, WriteBegins

\* The steps of a whole project that leave one.
LEMMA WholeKeeps ==
  ASSUME IInv, \/ UNCHANGED vars
               \/ \E c \in Commands, lost \in Outages : Start(c, lost)
               \/ (Step \/ Crash) /\ UNCHANGED issued /\ ~RenameTorn
  PROVE  IInv'
<1>1. CASE UNCHANGED vars
  <2>1. Typed'
    BY <1>1 DEF vars, IInv, Typed, WorkOK
  <2>2. AskIs(ask') /\ Sound(elm') /\ Sound(mem') /\ (pc' \in {"idle", "begin", "solve", "confirm"} => mem' = elm')
    BY <1>1 DEF vars, IInv
  <2>3. Working(elm', ask', pc', todo', rung', plan', promoted', reach')
    BY <1>1 DEF vars, IInv
  <2>4. Promised'
    BY <1>1 DEF vars, IInv, Promised
  <2> QED BY <2>1, <2>2, <2>3, <2>4 DEF IInv
<1>2. CASE \E c \in Commands, lost \in Outages : Start(c, lost)
  BY <1>2, StartKeeps
<1>3. CASE (Step \/ Crash) /\ UNCHANGED issued /\ ~RenameTorn
  <2>1. CASE Ending
    BY <1>3, <2>1, EndingKeeps
  <2>2. CASE OpenTmp \/ FillTmp
    BY <1>3, <2>2, WritingKeeps
  <2>3. CASE InstallMovesToTests \/ InstallPromotes
    BY <1>3, <2>3, MovingKeeps
  <2>4. CASE InstallSolves \/ InstallMany \/ InstallFile \/ UpgradeSolves \/ UpgradeAll \/ RemovePlans
    BY <1>3, <2>4, BeginningKeeps
  <2>5. CASE SolverFinds \/ SolverFindsNone
    BY <1>3, <2>5, SolvingKeeps
  <2>6. CASE Accept
    BY <1>3, <2>6, AcceptKeeps
  <2> QED BY <1>3, <2>1, <2>2, <2>3, <2>4, <2>5, <2>6 DEF Step, Ending
<1> QED BY <1>1, <1>2, <1>3

\* A rename after a lost write leaves no project and nothing in memory.
LEMMA RenameTornLoses ==
  ASSUME IInv, RenameTorn, UNCHANGED issued
  PROVE  Lost'
<1>1. ask' \in Command
  BY NoAsk DEF RenameTorn, Finish, AskIs
<1>2. plan' \in Partial(Packages, AllVersions)
  BY EmptyPlan DEF RenameTorn, Finish
<1>3. WorkOK'
  BY <1>1, <1>2 DEF IInv, Typed, WorkOK, RenameTorn, Finish
<1> QED BY <1>3 DEF Lost, RenameTorn, Finish

\* Where elm.json is torn, every command fails.
LEMMA LostKeeps ==
  ASSUME Lost, [Next]_vars
  PROVE  Lost'
<1> USE DEF Lost
<1>1. CASE UNCHANGED vars
  BY <1>1 DEF vars, WorkOK
<1>2. CASE StartTorn
  <2>1. issued' \in 0..MaxCommands
    BY <1>2, WorldIsSuch DEF StartTorn, WorkOK
  <2> QED BY <1>2, <2>1 DEF StartTorn, WorkOK, work
<1>3. ASSUME NEW c \in Commands, NEW lost \in Outages, Start(c, lost)
      PROVE  FALSE
  BY <1>3 DEF Start
<1>4. ~Crash
  BY DEF Crash
<1>5. ~Step
  BY DEF Step, InstallItself, InstallKeeps, InstallMovesToTests, InstallPromotes, Installing, InstallingMany,
    InstallUnknown, InstallSolves, InstallManyUnknown, InstallMany, InstallFile, CopyFails,
    UpgradeUnknown, UpgradeCurrent, UpgradeBlocked, UpgradeSolves, Upgrading, Upgradable,
    UpgradeAll, UpgradeAllCurrent, UpgradeAllFails, SolverFinds, SolverFindsNone, SolverGivesUp, DownloadFails,
    RemoveUnknown, RemovePlans, NothingToDo, DeclineInstall, DeclineInstallMany, DeclineFile, Confirming,
    DeclineUpgrade, DeclineUpgradeAll, DeclineRemove, Accept, OpenTmp, FillTmp, Rename, RenameTorn, WriteFails
<1> QED BY <1>1, <1>2, <1>3, <1>4, <1>5 DEF Next

\* Held is inductive.
LEMMA NextKeeps == Held /\ [Next]_vars => Held'
<1> SUFFICES ASSUME Held, [Next]_vars PROVE Held'
  OBVIOUS
<1>1. CASE Lost
  BY <1>1, LostKeeps DEF Held
<1>2. CASE IInv
  <2>1. ~StartTorn
    BY <1>2, TornIsNone DEF StartTorn, IInv, Typed
  <2>2. CASE RenameTorn /\ UNCHANGED issued
    BY <1>2, <2>2, RenameTornLoses DEF Held
  <2>3. CASE ~(RenameTorn /\ UNCHANGED issued)
    BY <1>2, <2>1, <2>3, WholeKeeps DEF Next, Held
  <2> QED BY <2>2, <2>3
<1> QED BY <1>1, <1>2 DEF Held

\* Held holds always.
LEMMA InvHolds == Spec => []Held
<1>1. Init => Held
  BY InitHolds DEF Held
<1> QED BY <1>1, NextKeeps, PTL DEF Spec

\* What is written was promised.
LEMMA WrittenWasPromised ==
  ASSUME Held, Next, Written
  PROVE  elm' = mem /\ Leaves(elm, elm', ask, reach, cached)
<1>1. IInv
  BY WrittenIs DEF Held, Lost
<1> QED BY <1>1, PromisesKept DEF IInv

-----------------------------------------------------------------------------
(* Theorems *)

\* While a command runs, elm.json is a whole project, so that a crash leaves one
\* (only a lost write, renamed over it, does not); and the plan, the cache and the
\* solver's view name packages and releases that exist.
THEOREM TypeCorrect == Spec => []TypeOK
<1>1. Held => TypeOK
  BY DEF Held, Lost, IInv, Typed, TypeOK
<1> QED BY <1>1, InvHolds, PTL

\* Promotion, demotion, new entries and updates list no package twice.
THEOREM NothingListedTwice == Spec => OneMapEach
<1>1. Held /\ [Next]_vars =>
        [Written /\ ListedOnce(elm) /\ ~(ask.kind = "install" /\ ask.is_test) => ListedOnce(elm')]_vars
  <2> SUFFICES ASSUME Held, Next, Written, ListedOnce(elm), ~(ask.kind = "install" /\ ask.is_test)
               PROVE  ListedOnce(elm')
    BY DEF vars, Written
  <2> QED BY WrittenWasPromised DEF Leaves, LeavesOnce
<1> QED BY <1>1, InvHolds, PTL DEF Spec, OneMapEach

\* Installing for the tests moves no version of production.
THEOREM TestsPin == Spec => TestsPinProduction
<1>1. Held /\ [Next]_vars =>
        [Written /\ ask.kind = "install" /\ ask.is_test /\ ~ask.upgrade_all /\ ~ask.major =>
           \A p \in Production(elm) :
             p \in Production(elm') /\ find_existing_package(elm', p) = find_existing_package(elm, p)]_vars
  <2> SUFFICES ASSUME Held, Next, Written, ask.kind = "install", ask.is_test, ~ask.upgrade_all, ~ask.major
               PROVE  \A p \in Production(elm) :
                        p \in Production(elm') /\ find_existing_package(elm', p) = find_existing_package(elm, p)
    OBVIOUS
  <2> QED BY WrittenWasPromised DEF Leaves, LeavesPins
<1> QED BY <1>1, InvHolds, PTL DEF Spec, TestsPinProduction

\* Without --major production stays within its major versions.
THEOREM MajorVersionsStay == Spec => WithinMajor
<1>1. Held /\ [Next]_vars =>
        [Written /\ ask.kind \in {"install", "upgrade", "upgrade_all"} /\ ~ask.major =>
           \A p \in Production(elm) \cap Listed(elm') : Major(VersionIn(elm', p)) = Major(VersionIn(elm, p))]_vars
  <2> SUFFICES ASSUME Held, Next, Written, ask.kind \in {"install", "upgrade", "upgrade_all"}, ~ask.major
               PROVE  \A p \in Production(elm) \cap Listed(elm') : Major(VersionIn(elm', p)) = Major(VersionIn(elm, p))
    OBVIOUS
  <2> QED BY WrittenWasPromised DEF Leaves, LeavesMajor
<1> QED BY <1>1, InvHolds, PTL DEF Spec, WithinMajor

\* install keeps every constraint of a package project.
THEOREM ConstraintsStay == Spec => PackagesKeepConstraints
<1>1. Held /\ [Next]_vars =>
        [Written /\ ask.kind = "install" /\ ~IsApp(elm) =>
           /\ Listed(elm') \subseteq Listed(elm) \cup Asked
           /\ \A p \in Listed(elm) : p \in Listed(elm') /\ find_existing_package(elm', p) = find_existing_package(elm, p)]_vars
  <2> SUFFICES ASSUME Held, Next, Written, ask.kind = "install", ~IsApp(elm)
               PROVE  /\ Listed(elm') \subseteq Listed(elm) \cup Asked
                      /\ \A p \in Listed(elm) : p \in Listed(elm') /\ find_existing_package(elm', p) = find_existing_package(elm, p)
    OBVIOUS
  <2>1. Asked = AskedBy(ask)
    BY DEF Asked, AskedBy
  <2> QED BY <2>1, WrittenWasPromised DEF Leaves, LeavesConstraints
<1> QED BY <1>1, InvHolds, PTL DEF Spec, PackagesKeepConstraints

\* remove leaves nothing that nobody needs and takes no direct dependency that
\* was not named.
THEOREM RemovalCleans == Spec => RemoveCleansUp
<1>1. Held /\ [Next]_vars =>
        [Written /\ ask.kind = "remove" /\ IsApp(elm) /\ NoIndirectNamed =>
           /\ Listed(elm') \subseteq Wanted(elm')
           /\ \A m \in DirectMaps : DOMAIN elm[m] \ Asked \subseteq DOMAIN elm'[m]]_vars
  <2> SUFFICES ASSUME Held, Next, Written, ask.kind = "remove", IsApp(elm), NoIndirectNamed
               PROVE  /\ Listed(elm') \subseteq Wanted(elm')
                      /\ \A m \in DirectMaps : DOMAIN elm[m] \ Asked \subseteq DOMAIN elm'[m]
    OBVIOUS
  <2>1. Asked = AskedBy(ask) /\ DirectOnly(elm, ask)
    BY DEF Asked, AskedBy, NoIndirectNamed, DirectOnly
  <2> QED BY <2>1, WrittenWasPromised DEF Leaves, LeavesClean
<1> QED BY <1>1, InvHolds, PTL DEF Spec, RemoveCleansUp

\* Installing one package, upgrading one within its major version and removing
\* direct dependencies leave production complete and consistent.
THEOREM ProductionStaysSolved == Spec => ProductionSolved
<1>1. Held /\ [Next]_vars =>
        [/\ Written /\ IsApp(elm)
         /\ \/ Solved(elm, Listed(elm))
            \/ ask.kind = "install" /\ Only \notin Listed(elm)
         /\ \/ ask.kind = "install" /\ ~ask.major /\ Len(ask.packages) = 1 /\ reach = AllReleases
            \/ ask.kind = "upgrade" /\ ~ask.major /\ reach = AllReleases
            \/ ask.kind = "remove" /\ NoIndirectNamed /\ ListedReleases(elm) \subseteq cached
         => Solved(elm', Production(elm'))]_vars
  <2> SUFFICES ASSUME Held, Next, Written, IsApp(elm),
                      Solved(elm, Listed(elm)) \/ (ask.kind = "install" /\ Only \notin Listed(elm)),
                      \/ ask.kind = "install" /\ ~ask.major /\ Len(ask.packages) = 1 /\ reach = AllReleases
                      \/ ask.kind = "upgrade" /\ ~ask.major /\ reach = AllReleases
                      \/ ask.kind = "remove" /\ NoIndirectNamed /\ ListedReleases(elm) \subseteq cached
               PROVE  Solved(elm', Production(elm'))
    OBVIOUS
  <2>1. (NoIndirectNamed => DirectOnly(elm, ask)) /\ Only = First(ask)
    BY DEF Asked, AskedBy, NoIndirectNamed, DirectOnly, Only, First
  <2>2. LeavesSolved(elm, elm', ask, reach, cached)
    BY WrittenWasPromised DEF Leaves
  <2> QED BY <2>1, <2>2 DEF LeavesSolved
<1> QED BY <1>1, InvHolds, PTL DEF Spec, ProductionSolved
=============================================================================

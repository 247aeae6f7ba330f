----------------------------- MODULE GameProofs -----------------------------
(***************************************************************************)
(* Proofs about the loader of game files, for every file, and about what   *)
(* the generators make of the games it accepts in each language.           *)
(*                                                                         *)
(* The second half is about one accepted game, which SoundGame describes:  *)
(* what holds of it is a lemma about a state, and the theorems only add    *)
(* that an accepted game is one.                                           *)
(***************************************************************************)
EXTENDS Languages, ListLemmas, FiniteSetTheorems

-----------------------------------------------------------------------------
(* Lists                                                                   *)

\* What a concatenation holds.
LEMMA RangeOfConcat ==
  ASSUME NEW s, NEW t, s \in Seq(Range(s)), t \in Seq(Range(t))
  PROVE  /\ Range(s \o t) = Range(s) \cup Range(t)
         /\ s \o t \in Seq(Range(s \o t))
  <1> DEFINE All == Range(s) \cup Range(t)
  <1>1. s \in Seq(All) /\ t \in Seq(All)
    OBVIOUS
  <1> HIDE DEF All
  <1>2. /\ s \o t \in Seq(All)
        /\ Len(s \o t) = Len(s) + Len(t)
        /\ \A i \in 1 .. Len(s) : (s \o t)[i] = s[i]
        /\ \A i \in 1 .. Len(t) : (s \o t)[Len(s) + i] = t[i]
    BY <1>1, ConcatProperties
  <1>3. /\ DOMAIN s = 1 .. Len(s) /\ DOMAIN t = 1 .. Len(t)
        /\ DOMAIN (s \o t) = 1 .. Len(s) + Len(t)
        /\ Len(s) \in Nat /\ Len(t) \in Nat
    BY <1>1, <1>2, LenProperties
  <1>4. Range(s \o t) \subseteq Range(s) \cup Range(t)
    <2> SUFFICES ASSUME NEW i \in 1 .. Len(s) + Len(t)
                 PROVE  (s \o t)[i] \in Range(s) \cup Range(t)
      BY <1>3 DEF Range
    <2>1. CASE i \in 1 .. Len(s)
      BY <1>2, <1>3, <2>1 DEF Range
    <2>2. CASE i \notin 1 .. Len(s)
      <3>1. i - Len(s) \in 1 .. Len(t) /\ i = Len(s) + (i - Len(s))
        BY <1>3, <2>2
      <3> QED
        BY <1>2, <1>3, <3>1 DEF Range
    <2> QED
      BY <2>1, <2>2
  <1>5. Range(s) \cup Range(t) \subseteq Range(s \o t)
    <2>1. ASSUME NEW i \in 1 .. Len(s) PROVE s[i] \in Range(s \o t)
      BY <1>2, <1>3 DEF Range
    <2>2. ASSUME NEW i \in 1 .. Len(t) PROVE t[i] \in Range(s \o t)
      <3>1. Len(s) + i \in 1 .. Len(s) + Len(t)
        BY <1>3
      <3> QED
        BY <1>2, <1>3, <3>1 DEF Range
    <2> QED
      BY <1>3, <2>1, <2>2 DEF Range
  <1> QED
    BY <1>2, <1>4, <1>5 DEF All

\* A game whose lists are lists.
HasLists(g) ==
    /\ Lists \subseteq DOMAIN g
    /\ \A k \in Lists : g[k] \in Seq(Range(g[k]))

LEMMA NamesOfLists ==
  ASSUME NEW g, HasLists(g)
  PROVE  /\ Names(g.enum) \in Seq(Range(Names(g.enum)))
         /\ Names(g.struct) \in Seq(Range(Names(g.struct)))
         /\ TypeNames(g) \in Seq(Range(TypeNames(g)))
  <1>1. ASSUME NEW list, list \in Seq(Range(list)) PROVE Names(list) \in Seq(Range(Names(list)))
    <2>1. Len(list) \in Nat /\ DOMAIN list = 1 .. Len(list)
      BY <1>1, LenProperties
    <2> QED
      BY <2>1 DEF Names, Range
  <1>2. /\ Names(g.enum) \in Seq(Range(Names(g.enum)))
        /\ Names(g.struct) \in Seq(Range(Names(g.struct)))
    BY <1>1 DEF HasLists, Lists
  <1>3. ASSUME NEW s, NEW t, s \in Seq(Range(s)), t \in Seq(Range(t))
        PROVE  s \o t \in Seq(Range(s \o t))
    BY <1>3, RangeOfConcat
  <1> QED
    BY <1>2, <1>3 DEF TypeNames

\* Displaying types gives functions of no new type.
LEMMA DisplaysUse ==
  ASSUME NEW g, HasLists(g), NEW f \in Range(Displays(g))
  PROVE  /\ f.ret = Plain(<<"void">>)
         /\ \A e \in Range(f.args) : \E t \in Range(TypeNames(g)) : e.type = Plain(t)
  <1>1. PICK i \in DOMAIN TypeNames(g) : f = Display(TypeNames(g)[i])
    BY DEF Displays, Range
  <1>2. TypeNames(g)[i] \in Range(TypeNames(g))
    BY DEF Range
  <1> QED
    BY <1>1, <1>2 DEF Display, Range

LEMMA DisplaysIsList ==
  ASSUME NEW g, HasLists(g)
  PROVE  Displays(g) \in Seq(Range(Displays(g)))
  <1>1. TypeNames(g) \in Seq(Range(TypeNames(g)))
    BY NamesOfLists
  <1>2. Len(TypeNames(g)) \in Nat /\ DOMAIN TypeNames(g) = 1 .. Len(TypeNames(g))
    BY <1>1, LenProperties
  <1> QED
    BY <1>2 DEF Displays, Range

\* The functions of a game are those of its two lists.
LEMMA AllFunctionsOf ==
  ASSUME NEW g, HasLists(g)
  PROVE  Range(AllFunctions(g)) = Range(g.function) \cup Range(g.user_function)
  <1>1. /\ g.function \in Seq(Range(g.function))
        /\ g.user_function \in Seq(Range(g.user_function))
    BY DEF HasLists, Lists
  <1> QED
    BY <1>1, RangeOfConcat DEF AllFunctions

-----------------------------------------------------------------------------
(* The loader                                                              *)

DeclaredOnce(g) ==
    /\ \A t \in Range(TypeNames(g)) : t \notin Builtin
    /\ \A i, j \in DOMAIN TypeNames(g) : TypeNames(g)[i] = TypeNames(g)[j] => i = j

Resolved(g) == \A t \in TypesUsedBy(g) : t.base \in types

\* What each pass may rely on.
LoaderInv ==
    /\ phase = "schema" => game \in Files
    /\ phase \notin {"schema", "rejected"} => HasLists(game) /\ "constant" \in DOMAIN game
    /\ phase \in {"used_types", "functions", "generated", "unicity", "keywords", "accepted"} =>
         types = Builtin \cup Range(TypeNames(game)) /\ DeclaredOnce(game)
    /\ phase \in {"functions", "generated", "unicity", "keywords", "accepted"} => Resolved(game)

LEMMA SchemaGivesLists ==
  ASSUME LoaderInv, ValidateSchema
  PROVE  LoaderInv'
  <1>1. CASE phase' = "rejected"
    BY <1>1 DEF LoaderInv
  <1>2. CASE phase' = "constants"
    <2>1. game \in Files /\ game' = WithDefaults(game)
      BY DEF ValidateSchema, LoaderInv
    <2>2. "constant" \in DOMAIN game'
      BY <1>2, <2>1 DEF ValidateSchema, SchemaAccepts
    <2>3. ASSUME NEW k \in Lists PROVE k \in DOMAIN game' /\ game'[k] \in Seq(Range(game'[k]))
      <3>1. game'[k] = IF k \in DOMAIN game THEN game[k] ELSE <<>>
        BY <2>1 DEF WithDefaults
      <3>2. <<>> \in Seq(Range(<<>>))
        BY EmptySeq
      <3> QED
        BY <2>1, <3>1, <3>2, FilesAssumption DEF WithDefaults, IsList
    <2> QED
      BY <1>2, <2>2, <2>3 DEF LoaderInv, HasLists
  <1> QED
    BY <1>1, <1>2 DEF ValidateSchema

\* Typing the constants leaves the lists alone.
LEMMA ConstantsKeepLists ==
  ASSUME LoaderInv, LoadConstants
  PROVE  LoaderInv'
  <1>1. CASE phase' = "rejected"
    BY <1>1 DEF LoaderInv
  <1>2. CASE phase' # "rejected"
    <2>1. /\ phase' = "base_types"
          /\ \E c : game' = [game EXCEPT !.constant = c]
          /\ HasLists(game) /\ "constant" \in DOMAIN game
      BY <1>2 DEF LoadConstants, Reject, LoaderInv
    <2>2. DOMAIN game' = DOMAIN game /\ \A k \in Lists : game'[k] = game[k]
      BY <2>1 DEF HasLists, Lists
    <2> QED
      BY <2>1, <2>2 DEF LoaderInv, HasLists
  <1> QED
    BY <1>1, <1>2

\* No name passes twice.
LEMMA BaseTypesDeclaredOnce ==
  ASSUME LoaderInv, LoadBaseTypes
  PROVE  LoaderInv'
  <1>1. CASE phase' = "rejected"
    BY <1>1 DEF LoaderInv
  <1>2. CASE phase' # "rejected"
    <2>1. /\ phase' = "used_types" /\ game' = game
          /\ types' = Builtin \cup Range(TypeNames(game))
          /\ \A i \in DOMAIN TypeNames(game) :
                /\ TypeNames(game)[i] \notin Builtin
                /\ \A j \in 1 .. i - 1 : TypeNames(game)[j] # TypeNames(game)[i]
      BY <1>2 DEF LoadBaseTypes, Reject
    <2>2. HasLists(game) /\ "constant" \in DOMAIN game
      BY DEF LoaderInv, LoadBaseTypes
    <2>3. DOMAIN TypeNames(game) = 1 .. Len(TypeNames(game)) /\ Len(TypeNames(game)) \in Nat
      BY <2>2, NamesOfLists, LenProperties
    <2>4. DeclaredOnce(game)
      <3>1. \A t \in Range(TypeNames(game)) : t \notin Builtin
        BY <2>1 DEF Range
      <3>2. ASSUME NEW i \in DOMAIN TypeNames(game), NEW j \in DOMAIN TypeNames(game),
                   TypeNames(game)[i] = TypeNames(game)[j], i # j
            PROVE  FALSE
        <4>1. i \in 1 .. j - 1 \/ j \in 1 .. i - 1
          BY <2>3, <3>2
        <4> QED
          BY <2>1, <3>2, <4>1
      <3> QED
        BY <3>1, <3>2 DEF DeclaredOnce
    <2> QED
      BY <2>1, <2>2, <2>4 DEF LoaderInv
  <1> QED
    BY <1>1, <1>2

\* Every type of a field, an argument or a result has been looked up.
LEMMA UsedTypesResolve ==
  ASSUME LoaderInv, LoadUsedTypes
  PROVE  LoaderInv'
  <1>1. CASE phase' = "rejected"
    BY <1>1 DEF LoaderInv
  <1>2. CASE phase' # "rejected"
    <2>1. /\ phase = "used_types" /\ phase' = "functions" /\ UNCHANGED <<game, types>>
          /\ \A i \in DOMAIN game.struct : ~FieldsAreWrong(game.struct[i])
          /\ \A i \in DOMAIN AllFunctions(game) : ~SignatureIsWrong(AllFunctions(game)[i])
      BY <1>2 DEF LoadUsedTypes, Reject, RejectEntry
    <2>2. \A s \in Range(game.struct) : \A e \in Range(s.fields) : e.type.base \in types
      BY <2>1 DEF FieldsAreWrong, EntryIsWrong, Knows, Range
    <2>3. \A f \in Range(AllFunctions(game)) :
            f.ret.base \in types /\ \A e \in Range(f.args) : e.type.base \in types
      BY <2>1 DEF SignatureIsWrong, EntryIsWrong, Knows, Range
    <2>4. Resolved(game)
      BY <2>2, <2>3 DEF Resolved, TypesUsedBy
    <2> QED
      BY <2>1, <2>4 DEF LoaderInv, Resolved
  <1> QED
    BY <1>1, <1>2

\* The display functions only mention void and the types they are for.
LEMMA DisplaysResolve ==
  ASSUME LoaderInv, LoadGeneratedFunctions
  PROVE  LoaderInv'
  <1>1. /\ game' = [game EXCEPT !.function = game.function \o Displays(game)]
        /\ phase = "generated" /\ phase' = "unicity" /\ types' = types
    BY DEF LoadGeneratedFunctions
  <1>2. /\ HasLists(game) /\ "constant" \in DOMAIN game
        /\ types = Builtin \cup Range(TypeNames(game))
        /\ DeclaredOnce(game) /\ Resolved(game)
    BY <1>1 DEF LoaderInv
  <1>3. /\ DOMAIN game' = DOMAIN game
        /\ game'.function = game.function \o Displays(game)
        /\ game'.struct = game.struct /\ game'.enum = game.enum
        /\ game'.user_function = game.user_function
    BY <1>1, <1>2 DEF HasLists, Lists
  <1>4. /\ game'.function \in Seq(Range(game'.function))
        /\ Range(game'.function) = Range(game.function) \cup Range(Displays(game))
    <2>1. game.function \in Seq(Range(game.function))
      BY <1>2 DEF HasLists, Lists
    <2>2. Displays(game) \in Seq(Range(Displays(game)))
      BY <1>2, DisplaysIsList
    <2>3. /\ game.function \o Displays(game) \in Seq(Range(game.function \o Displays(game)))
          /\ Range(game.function \o Displays(game)) =
               Range(game.function) \cup Range(Displays(game))
      BY <2>1, <2>2, RangeOfConcat
    <2> QED
      BY <1>3, <2>3
  <1>5. HasLists(game')
    BY <1>2, <1>3, <1>4 DEF HasLists, Lists
  <1>6. TypeNames(game') = TypeNames(game)
    BY <1>3 DEF TypeNames
  <1>7. Range(AllFunctions(game')) = Range(AllFunctions(game)) \cup Range(Displays(game))
    BY <1>2, <1>3, <1>4, <1>5, AllFunctionsOf
  <1>8. ASSUME NEW f \in Range(Displays(game))
        PROVE  f.ret.base \in types /\ \A e \in Range(f.args) : e.type.base \in types
    <2>1. <<"void">> \in Builtin
      BY DEF Builtin, BuiltinNames, Range
    <2>2. f.ret = Plain(<<"void">>)
      BY <1>2, DisplaysUse
    <2>3. ASSUME NEW e \in Range(f.args) PROVE e.type.base \in types
      <3>1. PICK t \in Range(TypeNames(game)) : e.type = Plain(t)
        BY <1>2, DisplaysUse
      <3> QED
        BY <1>2, <3>1 DEF Plain
    <2> QED
      BY <1>2, <2>1, <2>2, <2>3 DEF Plain
  <1>9. Resolved(game)'
    <2>1. /\ \A s \in Range(game.struct) : \A e \in Range(s.fields) : e.type.base \in types
          /\ \A f \in Range(AllFunctions(game)) :
               f.ret.base \in types /\ \A e \in Range(f.args) : e.type.base \in types
      BY <1>2 DEF Resolved, TypesUsedBy
    <2>2. \A s \in Range(game'.struct) : \A e \in Range(s.fields) : e.type.base \in types'
      BY <1>1, <1>3, <2>1
    <2>3. \A f \in Range(AllFunctions(game')) :
            f.ret.base \in types' /\ \A e \in Range(f.args) : e.type.base \in types'
      BY <1>1, <1>7, <1>8, <2>1
    <2> QED
      BY <2>2, <2>3 DEF Resolved, TypesUsedBy
  <1> QED
    BY <1>1, <1>2, <1>3, <1>5, <1>6, <1>9 DEF LoaderInv, DeclaredOnce

LEMMA LoaderInvariant == Spec => []LoaderInv
  <1>1. Init => LoaderInv
    BY DEF Init, LoaderInv
  <1>2. LoaderInv /\ [Next]_vars => LoaderInv'
    <2> SUFFICES ASSUME LoaderInv, [Next]_vars PROVE LoaderInv'
      OBVIOUS
    <2>1. CASE ValidateSchema
      BY <2>1, SchemaGivesLists
    <2>2. CASE LoadConstants
      BY <2>2, ConstantsKeepLists
    <2>3. CASE LoadBaseTypes
      BY <2>3, BaseTypesDeclaredOnce
    <2>4. CASE LoadUsedTypes
      BY <2>4, UsedTypesResolve
    <2>5. CASE LoadGeneratedFunctions
      BY <2>5, DisplaysResolve
    <2>6. CASE phase' = "rejected"
      BY <2>6 DEF LoaderInv
    <2>7. CASE /\ UNCHANGED <<game, types>>
               /\ \/ phase' = phase
                  \/ phase = "functions" /\ phase' = "generated"
                  \/ phase = "unicity" /\ phase' = "keywords"
                  \/ phase = "keywords" /\ phase' = "accepted"
      BY <2>7 DEF LoaderInv, Resolved
    <2> QED
      BY <2>1, <2>2, <2>3, <2>4, <2>5, <2>6, <2>7
         DEF Next, LoadFunctions, CheckNameUnicity, CheckReservedKeywords, Terminated,
             Reject, vars
  <1> QED
    BY <1>1, <1>2, PTL DEF Spec

\* Whatever the file, once it is accepted each type the generators meet, those
\* of the display functions included, is a builtin type, an enum or a struct,
\* declared exactly once.
THEOREM AcceptedTypesResolve == Spec => []TypesResolve
  <1>1. LoaderInv => TypesResolve
    <2> SUFFICES ASSUME LoaderInv, phase = "accepted"
                 PROVE  /\ \A t \in TypesUsedBy(game) :
                              t.base \in Builtin \cup Range(TypeNames(game))
                        /\ \A t \in Range(TypeNames(game)) :
                              /\ t \notin Builtin
                              /\ Cardinality({i \in DOMAIN TypeNames(game) :
                                                TypeNames(game)[i] = t}) = 1
      BY DEF TypesResolve
    <2>1. /\ types = Builtin \cup Range(TypeNames(game))
          /\ DeclaredOnce(game) /\ Resolved(game)
      BY DEF LoaderInv
    <2>2. ASSUME NEW t \in Range(TypeNames(game))
          PROVE  Cardinality({i \in DOMAIN TypeNames(game) : TypeNames(game)[i] = t}) = 1
      <3>1. PICK j \in DOMAIN TypeNames(game) : TypeNames(game)[j] = t
        BY DEF Range
      <3>2. {i \in DOMAIN TypeNames(game) : TypeNames(game)[i] = t} = {j}
        BY <2>1, <3>1 DEF DeclaredOnce
      <3> QED
        BY <3>2, FS_Singleton
    <2> QED
      BY <2>1, <2>2 DEF DeclaredOnce, Resolved
  <1> QED
    BY <1>1, LoaderInvariant, PTL

-----------------------------------------------------------------------------
(* Names and the places of their declarations                              *)

\* A list of names goes once through the declarations of D.
Enumerates(names, D) ==
    /\ IsList(names)
    /\ \E at \in [DOMAIN names -> D] :
          /\ \A i \in DOMAIN names : at[i].name = names[i]
          /\ \A i, j \in DOMAIN names : at[i] = at[j] => i = j
          /\ \A d \in D : \E i \in DOMAIN names : at[i] = d

NoneTwice(names) == \A i, j \in DOMAIN names : names[i] = names[j] => i = j
OnePlaceEach(D) == \A d, e \in D : d.name = e.name => d.at = e.at

\* Declarations whose places are of some kinds.
OfKinds(D, kinds) ==
    \A d \in D : d = [at |-> d.at, name |-> d.name] /\ d.at[1] \in kinds

LEMMA ListLength ==
  ASSUME NEW list, IsList(list)
  PROVE  Len(list) \in Nat /\ DOMAIN list = 1 .. Len(list)
  BY LenProperties DEF IsList

\* A function on the places of a list is a list as long.
LEMMA AlongList ==
  ASSUME NEW list, IsList(list), NEW f, f = [i \in DOMAIN list |-> f[i]]
  PROVE  IsList(f) /\ Len(f) = Len(list) /\ DOMAIN f = DOMAIN list
  <1>1. Len(list) \in Nat /\ DOMAIN list = 1 .. Len(list)
    BY ListLength
  <1>2. f \in [1 .. Len(list) -> Range(f)]
    BY <1>1 DEF Range
  <1>3. f \in Seq(Range(f)) /\ Len(f) = Len(list) /\ DOMAIN f = 1 .. Len(list)
    BY <1>1, <1>2, ListOf
  <1> QED
    BY <1>1, <1>3 DEF IsList

LEMMA NamesAreList ==
  ASSUME NEW list, IsList(list)
  PROVE  /\ IsList(Names(list)) /\ Len(Names(list)) = Len(list)
         /\ DOMAIN Names(list) = DOMAIN list
         /\ \A i \in DOMAIN list : Names(list)[i] = list[i].name
         /\ Range(Names(list)) = {e.name : e \in Range(list)}
  <1>1. Names(list) = [i \in DOMAIN list |-> Names(list)[i]]
    BY DEF Names
  <1>2. IsList(Names(list)) /\ Len(Names(list)) = Len(list)
        /\ DOMAIN Names(list) = DOMAIN list
    BY <1>1, AlongList
  <1>3. \A i \in DOMAIN list : Names(list)[i] = list[i].name
    BY DEF Names
  <1>4. Range(Names(list)) = {e.name : e \in Range(list)}
    BY <1>2, <1>3 DEF Range
  <1> QED
    BY <1>2, <1>3, <1>4

LEMMA JoinedLists ==
  ASSUME NEW s, NEW t, IsList(s), IsList(t)
  PROVE  /\ IsList(s \o t) /\ Range(s \o t) = Range(s) \cup Range(t)
         /\ Len(s \o t) = Len(s) + Len(t)
         /\ DOMAIN (s \o t) = 1 .. Len(s) + Len(t)
         /\ \A i \in 1 .. Len(s) : (s \o t)[i] = s[i]
         /\ \A i \in 1 .. Len(t) : (s \o t)[Len(s) + i] = t[i]
  <1> DEFINE All == Range(s) \cup Range(t)
  <1>1. s \in Seq(All) /\ t \in Seq(All)
    BY DEF IsList
  <1> HIDE DEF All
  <1>2. /\ s \o t \in Seq(All)
        /\ Len(s \o t) = Len(s) + Len(t)
        /\ \A i \in 1 .. Len(s) : (s \o t)[i] = s[i]
        /\ \A i \in 1 .. Len(t) : (s \o t)[Len(s) + i] = t[i]
    BY <1>1, ConcatProperties
  <1>3. DOMAIN (s \o t) = 1 .. Len(s) + Len(t)
    BY <1>2, LenProperties
  <1>4. /\ Range(s \o t) = Range(s) \cup Range(t)
        /\ s \o t \in Seq(Range(s \o t))
    BY RangeOfConcat DEF IsList
  <1> QED
    BY <1>2, <1>3, <1>4 DEF IsList

LEMMA EnumeratesPlaces ==
  ASSUME NEW kind, NEW names, IsList(names)
  PROVE  /\ Enumerates(names, Places(kind, names))
         /\ OfKinds(Places(kind, names), {kind})
  <1> DEFINE at == [i \in DOMAIN names |-> [at |-> <<kind, i>>, name |-> names[i]]]
  <1>1. at \in [DOMAIN names -> Places(kind, names)]
    BY DEF Places
  <1>2. \A i \in DOMAIN names : at[i].name = names[i] /\ at[i].at = <<kind, i>>
    OBVIOUS
  <1>3. \A i, j \in DOMAIN names : at[i] = at[j] => i = j
    <2>1. \A i, j \in DOMAIN names : at[i].at = at[j].at => i = j
      BY <1>2
    <2> QED
      BY <2>1
  <1>4. \A d \in Places(kind, names) : \E i \in DOMAIN names : at[i] = d
    BY DEF Places
  <1>5. OfKinds(Places(kind, names), {kind})
    BY DEF OfKinds, Places
  <1> HIDE DEF at
  <1> QED
    BY <1>1, <1>2, <1>3, <1>4, <1>5 DEF Enumerates

LEMMA EnumeratesJoined ==
  ASSUME NEW s, NEW D, Enumerates(s, D), NEW t, NEW E, Enumerates(t, E), D \cap E = {}
  PROVE  Enumerates(s \o t, D \cup E)
  <1>1. /\ IsList(s) /\ IsList(t)
        /\ Len(s) \in Nat /\ DOMAIN s = 1 .. Len(s)
        /\ Len(t) \in Nat /\ DOMAIN t = 1 .. Len(t)
    BY ListLength DEF Enumerates
  <1>2. /\ IsList(s \o t) /\ DOMAIN (s \o t) = 1 .. Len(s) + Len(t)
        /\ \A i \in 1 .. Len(s) : (s \o t)[i] = s[i]
        /\ \A i \in 1 .. Len(t) : (s \o t)[Len(s) + i] = t[i]
    BY <1>1, JoinedLists
  <1>3. PICK a : /\ a \in [1 .. Len(s) -> D]
                 /\ \A i \in 1 .. Len(s) : a[i].name = s[i]
                 /\ \A i, j \in 1 .. Len(s) : a[i] = a[j] => i = j
                 /\ \A d \in D : \E i \in 1 .. Len(s) : a[i] = d
    <2>1. PICK at \in [DOMAIN s -> D] :
            /\ \A i \in DOMAIN s : at[i].name = s[i]
            /\ \A i, j \in DOMAIN s : at[i] = at[j] => i = j
            /\ \A d \in D : \E i \in DOMAIN s : at[i] = d
      BY DEF Enumerates
    <2> QED
      BY <1>1, <2>1
  <1>4. PICK b : /\ b \in [1 .. Len(t) -> E]
                 /\ \A i \in 1 .. Len(t) : b[i].name = t[i]
                 /\ \A i, j \in 1 .. Len(t) : b[i] = b[j] => i = j
                 /\ \A d \in E : \E i \in 1 .. Len(t) : b[i] = d
    <2>1. PICK at \in [DOMAIN t -> E] :
            /\ \A i \in DOMAIN t : at[i].name = t[i]
            /\ \A i, j \in DOMAIN t : at[i] = at[j] => i = j
            /\ \A d \in E : \E i \in DOMAIN t : at[i] = d
      BY DEF Enumerates
    <2> QED
      BY <1>1, <2>1
  <1> DEFINE c == [i \in 1 .. Len(s) + Len(t) |-> IF i <= Len(s) THEN a[i] ELSE b[i - Len(s)]]
  <1>5. /\ \A i \in 1 .. Len(s) : i \in 1 .. Len(s) + Len(t) /\ c[i] = a[i]
        /\ \A i \in 1 .. Len(t) : /\ Len(s) + i \in 1 .. Len(s) + Len(t)
                                  /\ c[Len(s) + i] = b[i]
        /\ DOMAIN c = 1 .. Len(s) + Len(t)
        /\ c = [i \in 1 .. Len(s) + Len(t) |-> c[i]]
    BY <1>1
  <1>6. \A k \in 1 .. Len(s) + Len(t) :
          k \in 1 .. Len(s) \/ \E i \in 1 .. Len(t) : k = Len(s) + i
    <2> SUFFICES ASSUME NEW k \in 1 .. Len(s) + Len(t), k \notin 1 .. Len(s)
                 PROVE  \E i \in 1 .. Len(t) : k = Len(s) + i
      OBVIOUS
    <2>1. k - Len(s) \in 1 .. Len(t) /\ k = Len(s) + (k - Len(s))
      BY <1>1
    <2> QED
      BY <2>1
  <1> HIDE DEF c
  <1>7. ASSUME NEW k \in 1 .. Len(s) + Len(t)
        PROVE  c[k] \in D \cup E /\ c[k].name = (s \o t)[k]
    <2>1. CASE k \in 1 .. Len(s)
      BY <1>2, <1>3, <1>5, <2>1
    <2>2. CASE k \notin 1 .. Len(s)
      <3>1. PICK i \in 1 .. Len(t) : k = Len(s) + i
        BY <1>6, <2>2
      <3>2. c[k] = b[i] /\ (s \o t)[k] = t[i]
        BY <1>2, <1>5, <3>1
      <3> QED
        BY <1>4, <3>2
    <2> QED
      BY <2>1, <2>2
  <1>8. ASSUME NEW k \in 1 .. Len(s) + Len(t), NEW l \in 1 .. Len(s) + Len(t), c[k] = c[l]
        PROVE  k = l
    <2>1. CASE k \in 1 .. Len(s) /\ l \in 1 .. Len(s)
      BY <1>3, <1>5, <1>8, <2>1
    <2>2. CASE k \in 1 .. Len(s) /\ l \notin 1 .. Len(s)
      <3>1. c[k] \in D
        BY <1>3, <1>5, <2>2
      <3>2. PICK i \in 1 .. Len(t) : l = Len(s) + i
        BY <1>6, <2>2
      <3>3. c[l] = b[i] /\ b[i] \in E
        BY <1>4, <1>5, <3>2
      <3> QED
        BY <1>8, <3>1, <3>3
    <2>3. CASE k \notin 1 .. Len(s) /\ l \in 1 .. Len(s)
      <3>1. c[l] \in D
        <4>1. c[l] = a[l]
          BY <1>5, <2>3
        <4> QED
          BY <1>3, <2>3, <4>1
      <3>2. PICK i \in 1 .. Len(t) : k = Len(s) + i
        BY <1>6, <2>3
      <3>3. c[k] = b[i] /\ b[i] \in E
        BY <1>4, <1>5, <3>2
      <3> QED
        BY <1>8, <3>1, <3>3
    <2>4. CASE k \notin 1 .. Len(s) /\ l \notin 1 .. Len(s)
      <3>1. PICK i \in 1 .. Len(t) : k = Len(s) + i
        BY <1>6, <2>4
      <3>2. PICK j \in 1 .. Len(t) : l = Len(s) + j
        BY <1>6, <2>4
      <3>3. c[k] = b[i] /\ c[l] = b[j]
        BY <1>5, <3>1, <3>2
      <3> QED
        BY <1>4, <1>8, <3>1, <3>2, <3>3
    <2> QED
      BY <2>1, <2>2, <2>3, <2>4
  <1>9. ASSUME NEW d \in D \cup E PROVE \E k \in 1 .. Len(s) + Len(t) : c[k] = d
    <2>1. CASE d \in D
      <3>1. PICK i \in 1 .. Len(s) : a[i] = d
        BY <1>3, <2>1
      <3>2. i \in 1 .. Len(s) + Len(t) /\ c[i] = d
        BY <1>5, <3>1
      <3> QED
        BY <3>2
    <2>2. CASE d \in E
      <3>1. PICK i \in 1 .. Len(t) : b[i] = d
        BY <1>4, <2>2
      <3>2. Len(s) + i \in 1 .. Len(s) + Len(t) /\ c[Len(s) + i] = d
        BY <1>5, <3>1
      <3> QED
        BY <3>2
    <2> QED
      BY <2>1, <2>2
  <1>10. c \in [1 .. Len(s) + Len(t) -> D \cup E]
    BY <1>5, <1>7
  <1> DEFINE u == s \o t
  <1>11. /\ IsList(u) /\ DOMAIN u = 1 .. Len(s) + Len(t)
         /\ \A k \in 1 .. Len(s) + Len(t) : c[k].name = u[k]
    BY <1>2, <1>7
  <1> HIDE DEF u
  <1>12. Enumerates(u, D \cup E)
    <2>1. c \in [DOMAIN u -> D \cup E]
      BY <1>10, <1>11
    <2>2. \A i, j \in DOMAIN u : c[i] = c[j] => i = j
      BY <1>8, <1>11
    <2>3. \A d \in D \cup E : \E i \in DOMAIN u : c[i] = d
      BY <1>9, <1>11
    <2>4. \A i \in DOMAIN u : c[i].name = u[i]
      BY <1>11
    <2> QED
      BY <1>11, <2>1, <2>2, <2>3, <2>4 DEF Enumerates
  <1> QED
    BY <1>12 DEF u

\* What a list enumerates says whether a name is met twice.
LEMMA EnumeratedOnce ==
  ASSUME NEW names, NEW D, NEW kinds, Enumerates(names, D), OfKinds(D, kinds)
  PROVE  /\ NoneTwice(names) <=> OnePlaceEach(D)
         /\ Range(names) = {d.name : d \in D}
  <1>1. PICK at \in [DOMAIN names -> D] :
          /\ \A i \in DOMAIN names : at[i].name = names[i]
          /\ \A i, j \in DOMAIN names : at[i] = at[j] => i = j
          /\ \A d \in D : \E i \in DOMAIN names : at[i] = d
    BY DEF Enumerates
  <1>2. ASSUME NoneTwice(names), NEW d \in D, NEW e \in D, d.name = e.name
        PROVE  d.at = e.at
    <2>1. PICK i \in DOMAIN names : at[i] = d
      BY <1>1
    <2>2. PICK j \in DOMAIN names : at[j] = e
      BY <1>1
    <2>3. names[i] = names[j]
      BY <1>1, <1>2, <2>1, <2>2
    <2> QED
      BY <1>2, <2>1, <2>2, <2>3 DEF NoneTwice
  <1>3. ASSUME OnePlaceEach(D), NEW i \in DOMAIN names, NEW j \in DOMAIN names,
               names[i] = names[j]
        PROVE  i = j
    <2>1. at[i] \in D /\ at[j] \in D /\ at[i].name = at[j].name
      BY <1>1, <1>3
    <2>2. at[i].at = at[j].at
      BY <1>3, <2>1 DEF OnePlaceEach
    <2>3. /\ at[i] = [at |-> at[i].at, name |-> at[i].name]
          /\ at[j] = [at |-> at[j].at, name |-> at[j].name]
      BY <2>1 DEF OfKinds
    <2>4. at[i] = at[j]
      BY <2>1, <2>2, <2>3
    <2> QED
      BY <1>1, <2>4
  <1>4. Range(names) = {d.name : d \in D}
    <2>1. ASSUME NEW i \in DOMAIN names PROVE \E d \in D : names[i] = d.name
      BY <1>1
    <2>2. ASSUME NEW d \in D PROVE \E i \in DOMAIN names : names[i] = d.name
      BY <1>1
    <2> QED
      BY <2>1, <2>2 DEF Range
  <1> QED
    BY <1>2, <1>3, <1>4 DEF NoneTwice, OnePlaceEach

\* The names of a type and of its fields.
OfType(t) == <<t.name>> \o Names(t.fields)

\* Everything the types of a list declare.
InType(kind, fieldKind, list) == Places(kind, Names(list)) \cup FieldPlaces(fieldKind, list)

LEMMA DeclaredNext ==
  ASSUME NEW S, \A t \in S : IsList(t.fields), NEW list \in Seq(S), NEW t \in S
  PROVE  /\ Declared(<<>>) = <<>>
         /\ Declared(Append(list, t)) = Declared(list) \o OfType(t)
  <1> DEFINE N == {s.name : s \in S} \cup UNION {{e.name : e \in Range(s.fields)} : s \in S}
             Of(l) == [i \in DOMAIN l |-> OfType(l[i])]
  <1>1. ASSUME NEW s \in S PROVE OfType(s) \in Seq(N)
    <2>1. IsList(Names(s.fields)) /\ Range(Names(s.fields)) = {e.name : e \in Range(s.fields)}
      BY NamesAreList
    <2>2. {e.name : e \in Range(s.fields)} \subseteq N /\ s.name \in N
      OBVIOUS
    <2> HIDE DEF N
    <2>3. Names(s.fields) \in Seq(N)
      BY <2>1, <2>2, SeqMonotonic DEF IsList
    <2>4. <<s.name>> \in Seq(N)
      BY <2>2
    <2> QED
      BY <2>3, <2>4, ConcatProperties DEF OfType
  <1>2. ASSUME NEW l \in Seq(S)
        PROVE  Of(l) \in Seq(Seq(N)) /\ Len(Of(l)) = Len(l) /\ DOMAIN Of(l) = 1 .. Len(l)
    <2>1. Len(l) \in Nat /\ DOMAIN l = 1 .. Len(l) /\ \A i \in 1 .. Len(l) : l[i] \in S
      BY LenProperties, ElementOfSeq
    <2>2. Of(l) \in [1 .. Len(l) -> Seq(N)]
      <3> HIDE DEF N
      <3> QED
        BY <1>1, <2>1
    <2> HIDE DEF Of
    <2> QED
      BY <2>1, <2>2, ListOf
  <1>3. Declared(<<>>) = <<>>
    <2>1. Of(<<>>) = <<>>
      <3>1. <<>> \in Seq(S) /\ Len(<<>>) = 0
        BY EmptySeq
      <3>2. Of(<<>>) \in Seq(Seq(N)) /\ Len(Of(<<>>)) = 0
        <4> HIDE DEF Of, N
        <4> QED
          BY <1>2, <3>1
      <3> HIDE DEF Of, N
      <3> QED
        BY <3>2, EmptySeq
    <2>2. Declared(<<>>) = FlattenSeq(Of(<<>>))
      BY DEF Declared, OfType
    <2>3. FlattenSeq(<<>>) = <<>>
      BY EmptySeq, FlattenAppend
    <2> QED
      BY <2>1, <2>2, <2>3
  <1>4. Of(Append(list, t)) = Append(Of(list), OfType(t))
    <2>1. /\ Append(list, t) \in Seq(S) /\ Len(Append(list, t)) = Len(list) + 1
          /\ \A i \in 1 .. Len(list) : Append(list, t)[i] = list[i]
          /\ Append(list, t)[Len(list) + 1] = t
          /\ Len(list) \in Nat
      BY AppendProperties, LenProperties
    <2>2. /\ Of(Append(list, t)) \in Seq(Seq(N)) /\ Len(Of(Append(list, t))) = Len(list) + 1
          /\ Of(list) \in Seq(Seq(N)) /\ Len(Of(list)) = Len(list)
          /\ DOMAIN Of(Append(list, t)) = 1 .. Len(list) + 1
          /\ OfType(t) \in Seq(N)
      <3> HIDE DEF Of, N
      <3> QED
        BY <1>1, <1>2, <2>1
    <2>3. /\ Append(Of(list), OfType(t)) \in Seq(Seq(N))
          /\ Len(Append(Of(list), OfType(t))) = Len(list) + 1
          /\ \A i \in 1 .. Len(list) : Append(Of(list), OfType(t))[i] = Of(list)[i]
          /\ Append(Of(list), OfType(t))[Len(list) + 1] = OfType(t)
      <3> HIDE DEF Of, N
      <3> QED
        BY <2>2, AppendProperties
    <2>4. DOMAIN list = 1 .. Len(list) /\ DOMAIN Append(list, t) = 1 .. Len(list) + 1
      BY <2>1, LenProperties
    <2>5. \A i \in 1 .. Len(list) : Of(Append(list, t))[i] = Of(list)[i]
      BY <2>1, <2>4
    <2>6. Of(Append(list, t))[Len(list) + 1] = OfType(t)
      <3>1. Len(list) + 1 \in 1 .. Len(list) + 1
        BY <2>1
      <3> QED
        BY <2>1, <2>4, <3>1
    <2>7. \A i \in 1 .. Len(list) + 1 :
            Of(Append(list, t))[i] = Append(Of(list), OfType(t))[i]
      <3> HIDE DEF Of
      <3>1. \A i \in 1 .. Len(list) + 1 : i \in 1 .. Len(list) \/ i = Len(list) + 1
        BY <2>1
      <3> QED
        BY <2>3, <2>5, <2>6, <3>1
    <2> HIDE DEF Of, N
    <2> QED
      BY <2>2, <2>3, <2>7, SeqEqual
  <1>5. FlattenSeq(Append(Of(list), OfType(t))) = FlattenSeq(Of(list)) \o OfType(t)
    <2> HIDE DEF Of, N
    <2> QED
      BY <1>1, <1>2, FlattenAppend
  <1>6. /\ Declared(Append(list, t)) = FlattenSeq(Of(Append(list, t)))
        /\ Declared(list) = FlattenSeq(Of(list))
    BY DEF Declared, OfType
  <1> HIDE DEF Of, N
  <1> QED
    BY <1>3, <1>4, <1>5, <1>6

\* The places of a list with one type more.
LEMMA PlacesNext ==
  ASSUME NEW kind, NEW fieldKind, kind # fieldKind,
         NEW S, \A t \in S : IsList(t.fields), NEW list \in Seq(S), NEW t \in S
  PROVE  \E E : /\ InType(kind, fieldKind, Append(list, t)) =
                     InType(kind, fieldKind, list) \cup E
                /\ InType(kind, fieldKind, list) \cap E = {}
                /\ Enumerates(OfType(t), E)
  <1> DEFINE n == Len(list) + 1
             Own == {[at |-> <<kind, n>>, name |-> t.name]}
             Inner == {[at |-> <<fieldKind, n, j>>, name |-> t.fields[j].name] :
                         j \in DOMAIN t.fields}
  <1>1. /\ Append(list, t) \in Seq(S) /\ Len(Append(list, t)) = n
        /\ \A i \in 1 .. Len(list) : Append(list, t)[i] = list[i]
        /\ Append(list, t)[n] = t
        /\ Len(list) \in Nat
        /\ DOMAIN list = 1 .. Len(list) /\ DOMAIN Append(list, t) = 1 .. n
    BY AppendProperties, LenProperties
  <1>2. 1 .. n = (1 .. Len(list)) \cup {n}
    BY <1>1
  <1> HIDE DEF n
  <1>3. /\ DOMAIN Append(list, t) = DOMAIN list \cup {n}
        /\ \A i \in DOMAIN list : Append(list, t)[i] = list[i]
        /\ n \notin DOMAIN list
    BY <1>1, <1>2 DEF n
  <1>4. Places(kind, Names(Append(list, t))) = Places(kind, Names(list)) \cup Own
    BY <1>1, <1>3 DEF Places, Names
  <1>5. FieldPlaces(fieldKind, Append(list, t)) = FieldPlaces(fieldKind, list) \cup Inner
    <2> DEFINE Of(l, i) == {[at |-> <<fieldKind, i, j>>, name |-> l[i].fields[j].name] :
                              j \in DOMAIN l[i].fields}
    <2>1. /\ \A i \in DOMAIN list : Of(Append(list, t), i) = Of(list, i)
          /\ Of(Append(list, t), n) = Inner
      BY <1>1, <1>3
    <2>2. \A l : FieldPlaces(fieldKind, l) = UNION {Of(l, i) : i \in DOMAIN l}
      BY DEF FieldPlaces
    <2> HIDE DEF Of, Inner
    <2> QED
      BY <1>3, <2>1, <2>2
  <1>6. \A d \in InType(kind, fieldKind, list) : d.at[2] \in DOMAIN list
    BY DEF InType, Places, FieldPlaces, Names
  <1>7. \A d \in Own \cup Inner : d.at[2] = n
    OBVIOUS
  <1>8. \A d \in Own : d.at[1] = kind
    OBVIOUS
  <1>9. \A d \in Inner : d.at[1] = fieldKind
    OBVIOUS
  <1>10. Enumerates(<<t.name>>, Own)
    <2> DEFINE at == [i \in 1 .. 1 |-> [at |-> <<kind, n>>, name |-> t.name]]
               one == <<t.name>>
    <2>1. DOMAIN one = {1} /\ one[1] = t.name /\ IsList(one)
      BY DEF IsList, Range
    <2>2. /\ at \in [{1} -> Own] /\ at[1].name = t.name
          /\ \A d \in Own : at[1] = d
      OBVIOUS
    <2> HIDE DEF at, one, Own
    <2>3. Enumerates(one, Own)
      BY <2>1, <2>2 DEF Enumerates
    <2> QED
      BY <2>3 DEF one
  <1>11. Enumerates(Names(t.fields), Inner)
    <2> DEFINE names == Names(t.fields)
               at == [j \in DOMAIN t.fields |->
                        [at |-> <<fieldKind, n, j>>, name |-> t.fields[j].name]]
    <2>1. /\ IsList(names) /\ DOMAIN names = DOMAIN t.fields
          /\ \A i \in DOMAIN t.fields : names[i] = t.fields[i].name
      BY NamesAreList
    <2>2. /\ at \in [DOMAIN t.fields -> Inner]
          /\ \A j \in DOMAIN t.fields : at[j].name = t.fields[j].name /\ at[j].at[3] = j
          /\ \A d \in Inner : \E j \in DOMAIN t.fields : at[j] = d
      OBVIOUS
    <2> HIDE DEF at, names, Inner
    <2>3. \A i, j \in DOMAIN t.fields : at[i] = at[j] => i = j
      BY <2>2
    <2>4. Enumerates(names, Inner)
      BY <2>1, <2>2, <2>3 DEF Enumerates
    <2> QED
      BY <2>4 DEF names
  <1> HIDE DEF Own, Inner
  <1>12. Own \cap Inner = {}
    BY <1>8, <1>9
  <1>13. Enumerates(OfType(t), Own \cup Inner)
    BY <1>10, <1>11, <1>12, EnumeratesJoined DEF OfType
  <1>14. InType(kind, fieldKind, list) \cap (Own \cup Inner) = {}
    BY <1>3, <1>6, <1>7
  <1>15. InType(kind, fieldKind, Append(list, t)) =
           InType(kind, fieldKind, list) \cup (Own \cup Inner)
    BY <1>4, <1>5 DEF InType
  <1> QED
    BY <1>13, <1>14, <1>15

LEMMA EnumeratesDeclared ==
  ASSUME NEW kind, NEW fieldKind, kind # fieldKind,
         NEW list, IsList(list), \A t \in Range(list) : IsList(t.fields)
  PROVE  /\ Enumerates(Declared(list), InType(kind, fieldKind, list))
         /\ OfKinds(InType(kind, fieldKind, list), {kind, fieldKind})
  <1> DEFINE S == Range(list)
             Q == {l \in Seq(S) : Enumerates(Declared(l), InType(kind, fieldKind, l))}
  <1>1. <<>> \in Q
    <2>1. <<>> \in Seq(S)
      BY EmptySeq
    <2>2. Declared(<<>>) = <<>>
      <3>1. CASE S = {}
        BY <3>1 DEF Declared, FlattenSeq
      <3>2. CASE S # {}
        <4> HIDE DEF S
        <4>1. PICK t \in S : TRUE
          BY <3>2
        <4> QED
          BY <2>1, <4>1, DeclaredNext DEF S
      <3> QED
        BY <3>1, <3>2
    <2>3. InType(kind, fieldKind, <<>>) = {}
      BY DEF InType, Places, FieldPlaces, Names
    <2>4. Enumerates(<<>>, {})
      <3>1. IsList(<<>>) /\ DOMAIN <<>> = {}
        BY EmptySeq DEF IsList
      <3>2. <<>> \in [{} -> {}]
        OBVIOUS
      <3> QED
        BY <3>1, <3>2 DEF Enumerates
    <2> QED
      BY <2>1, <2>2, <2>3, <2>4
  <1>2. ASSUME NEW l \in Seq(S), NEW t \in S, l \in Q PROVE Append(l, t) \in Q
    <2>1. Declared(Append(l, t)) = Declared(l) \o OfType(t)
      <3> HIDE DEF S
      <3> QED
        BY DeclaredNext DEF S
    <2>2. PICK E : /\ InType(kind, fieldKind, Append(l, t)) = InType(kind, fieldKind, l) \cup E
                   /\ InType(kind, fieldKind, l) \cap E = {}
                   /\ Enumerates(OfType(t), E)
      <3>1. \A s \in S : IsList(s.fields)
        OBVIOUS
      <3> HIDE DEF S
      <3> QED
        BY <3>1, PlacesNext
    <2>3. Enumerates(Declared(l) \o OfType(t), InType(kind, fieldKind, l) \cup E)
      BY <1>2, <2>2, EnumeratesJoined
    <2>4. Append(l, t) \in Seq(S)
      BY AppendProperties
    <2> QED
      BY <2>1, <2>2, <2>3, <2>4
  <1>3. Seq(S) \subseteq Q
    <2> HIDE DEF S, Q
    <2> QED
      BY <1>1, <1>2, ListInduction
  <1>4. list \in Seq(S)
    BY DEF IsList
  <1>5. OfKinds(InType(kind, fieldKind, list), {kind, fieldKind})
    BY DEF OfKinds, InType, Places, FieldPlaces
  <1> QED
    BY <1>3, <1>4, <1>5

-----------------------------------------------------------------------------
(* The names of a game                                                     *)

\* A game that has all its lists, and lists inside them.
Shaped(g) ==
    /\ HasLists(g) /\ "constant" \in DOMAIN g /\ IsList(g.constant)
    /\ \A t \in Range(g.enum) \cup Range(g.struct) : IsList(t.fields)
    /\ \A f \in Range(g.function) \cup Range(g.user_function) : IsList(f.args)

\* What loading makes of a game: types of constants and display functions.
Completes(h, g) ==
    /\ h.enum = g.enum /\ h.struct = g.struct /\ h.name = g.name
    /\ IsList(h.constant) /\ Names(h.constant) = Names(g.constant)
    /\ h.function = g.function \o Displays(g) /\ h.user_function = g.user_function

ListedFunctions(g) == Range(g.function) \cup Range(g.user_function)
ArgumentsOf(g) == UNION {Range(f.args) : f \in ListedFunctions(g)}

LEMMA ShapedLists ==
  ASSUME NEW g, Shaped(g)
  PROVE  /\ IsList(g.constant) /\ IsList(g.enum) /\ IsList(g.struct)
         /\ IsList(g.function) /\ IsList(g.user_function)
  BY DEF Shaped, HasLists, Lists, IsList

LEMMA ShapedFile ==
  ASSUME NEW f \in Files, "constant" \in DOMAIN f
  PROVE  Shaped(WithDefaults(f))
  <1> DEFINE g == WithDefaults(f)
  <1>1. /\ DOMAIN g = DOMAIN f \cup Lists
        /\ \A k \in DOMAIN f : g[k] = f[k]
        /\ \A k \in Lists : k \notin DOMAIN f => g[k] = <<>>
    BY DEF WithDefaults
  <1> HIDE DEF g
  <1>2. IsList(<<>>) /\ Range(<<>>) = {}
    BY EmptySeq DEF IsList, Range
  <1>3. \A k \in Lists : IsList(g[k])
    BY <1>1, <1>2, FilesAssumption
  <1>4. g.constant = f.constant /\ IsList(g.constant)
    BY <1>1, FilesAssumption
  <1>5. \A k \in {"enum", "struct"} : \A t \in Range(g[k]) : IsList(t.fields)
    <2>1. ASSUME NEW k \in {"enum", "struct"} PROVE \A t \in Range(g[k]) : IsList(t.fields)
      <3>1. CASE k \in DOMAIN f
        <4>1. k \in DOMAIN f \cap {"enum", "struct"} /\ g[k] = f[k]
          BY <1>1, <3>1
        <4> QED
          BY <4>1, FilesAssumption
      <3>2. CASE k \notin DOMAIN f
        BY <1>1, <1>2, <3>2 DEF Lists
      <3> QED
        BY <3>1, <3>2
    <2> QED
      BY <2>1
  <1>6. \A k \in {"function", "user_function"} : \A t \in Range(g[k]) : IsList(t.args)
    <2>1. ASSUME NEW k \in {"function", "user_function"}
          PROVE  \A t \in Range(g[k]) : IsList(t.args)
      <3>1. CASE k \in DOMAIN f
        <4>1. k \in DOMAIN f \cap {"function", "user_function"} /\ g[k] = f[k]
          BY <1>1, <3>1
        <4> QED
          BY <4>1, FilesAssumption
      <3>2. CASE k \notin DOMAIN f
        BY <1>1, <1>2, <3>2 DEF Lists
      <3> QED
        BY <3>1, <3>2
    <2> QED
      BY <2>1
  <1>7. Shaped(g)
    <2>1. \A t \in Range(g.enum) \cup Range(g.struct) : IsList(t.fields)
      BY <1>5
    <2>2. \A t \in Range(g.function) \cup Range(g.user_function) : IsList(t.args)
      BY <1>6
    <2> QED
      BY <1>1, <1>3, <1>4, <2>1, <2>2 DEF Shaped, HasLists, IsList
  <1> QED
    BY <1>7 DEF g

\* A list that starts as one list and goes on as another.
Joins(u, s, t) ==
    /\ IsList(u) /\ IsList(s) /\ IsList(t)
    /\ Len(u) = Len(s) + Len(t)
    /\ \A i \in 1 .. Len(s) : u[i] = s[i]
    /\ \A i \in 1 .. Len(t) : u[Len(s) + i] = t[i]

LEMMA IsJoined ==
  ASSUME NEW u, NEW s, NEW t, Joins(u, s, t)
  PROVE  u = s \o t
  <1> DEFINE v == s \o t
             S == Range(u) \cup Range(v)
  <1>1. /\ IsList(v) /\ Len(v) = Len(s) + Len(t)
        /\ \A i \in 1 .. Len(s) : v[i] = s[i]
        /\ \A i \in 1 .. Len(t) : v[Len(s) + i] = t[i]
    BY JoinedLists DEF Joins
  <1>2. Len(s) \in Nat /\ Len(t) \in Nat
    BY ListLength DEF Joins
  <1> HIDE DEF v
  <1>3. ASSUME NEW k \in 1 .. Len(u) PROVE u[k] = v[k]
    <2>1. CASE k \in 1 .. Len(s)
      BY <1>1, <2>1 DEF Joins
    <2>2. CASE k \notin 1 .. Len(s)
      <3>1. PICK i \in 1 .. Len(t) : k = Len(s) + i
        <4>1. k - Len(s) \in 1 .. Len(t) /\ k = Len(s) + (k - Len(s))
          BY <1>2, <2>2 DEF Joins
        <4> QED
          BY <4>1
      <3> QED
        BY <1>1, <3>1 DEF Joins
    <2> QED
      BY <2>1, <2>2
  <1>4. u \in Seq(S) /\ v \in Seq(S)
    <2>1. u \in Seq(Range(u)) /\ v \in Seq(Range(v))
      BY <1>1 DEF IsList, Joins
    <2> QED
      BY <2>1, SeqMonotonic
  <1> HIDE DEF S
  <1>5. u = v
    BY <1>1, <1>3, <1>4, SeqEqual DEF Joins
  <1> QED
    BY <1>5 DEF v

\* The names of two lists joined.
LEMMA NamesJoined ==
  ASSUME NEW s, NEW t, IsList(s), IsList(t)
  PROVE  Names(s \o t) = Names(s) \o Names(t)
  <1>1. PICK l : l = s \o t
    OBVIOUS
  <1>2. /\ IsList(l) /\ Len(l) = Len(s) + Len(t)
        /\ DOMAIN l = 1 .. Len(s) + Len(t)
        /\ \A i \in 1 .. Len(s) : l[i] = s[i]
        /\ \A i \in 1 .. Len(t) : l[Len(s) + i] = t[i]
    BY <1>1, JoinedLists
  <1>3. /\ Len(s) \in Nat /\ DOMAIN s = 1 .. Len(s)
        /\ Len(t) \in Nat /\ DOMAIN t = 1 .. Len(t)
    BY ListLength
  <1>4. PICK a : a = Names(s)
    OBVIOUS
  <1>5. PICK b : b = Names(t)
    OBVIOUS
  <1>6. PICK u : u = Names(l)
    OBVIOUS
  <1>7. /\ IsList(a) /\ Len(a) = Len(s)
        /\ \A i \in 1 .. Len(s) : a[i] = s[i].name
    BY <1>3, <1>4, NamesAreList
  <1>8. /\ IsList(b) /\ Len(b) = Len(t)
        /\ \A i \in 1 .. Len(t) : b[i] = t[i].name
    BY <1>3, <1>5, NamesAreList
  <1>9. /\ IsList(u) /\ Len(u) = Len(s) + Len(t)
        /\ \A i \in 1 .. Len(s) + Len(t) : u[i] = l[i].name
    BY <1>2, <1>6, NamesAreList
  <1>10. \A i \in 1 .. Len(a) : u[i] = a[i]
    BY <1>2, <1>3, <1>7, <1>9
  <1>11. \A i \in 1 .. Len(b) : u[Len(a) + i] = b[i]
    <2> SUFFICES ASSUME NEW i \in 1 .. Len(t) PROVE u[Len(s) + i] = b[i]
      BY <1>7, <1>8
    <2>1. Len(s) + i \in 1 .. Len(s) + Len(t)
      BY <1>3
    <2> QED
      BY <1>2, <1>8, <1>9, <2>1
  <1>12. Len(u) = Len(a) + Len(b)
    BY <1>7, <1>8, <1>9
  <1>13. Joins(u, a, b)
    BY <1>7, <1>8, <1>9, <1>10, <1>11, <1>12 DEF Joins
  <1>14. u = a \o b
    BY <1>13, IsJoined
  <1> QED
    BY <1>1, <1>4, <1>5, <1>6, <1>14

LEMMA ShownAreList ==
  ASSUME NEW list, IsList(list)
  PROVE  /\ IsList(ShownNames(list)) /\ Len(ShownNames(list)) = Len(list)
         /\ \A i \in 1 .. Len(list) : ShownNames(list)[i] = <<"afficher">> \o Names(list)[i]
  <1>1. ShownNames(list) = [i \in DOMAIN list |-> ShownNames(list)[i]]
    BY DEF ShownNames
  <1>2. \A i \in DOMAIN list : ShownNames(list)[i] = <<"afficher">> \o Names(list)[i]
    BY DEF ShownNames, Names
  <1>3. DOMAIN list = 1 .. Len(list)
    BY ListLength
  <1> QED
    BY <1>1, <1>2, <1>3, AlongList

\* Display functions have the names that the types are shown by.
LEMMA NamesOfShown ==
  ASSUME NEW l, NEW k, IsList(l), IsList(k), NEW names, names = Names(l) \o Names(k),
         NEW d, d = [i \in DOMAIN names |-> Display(names[i])]
  PROVE  /\ IsList(names) /\ IsList(d) /\ DOMAIN d = DOMAIN names
         /\ Names(d) = ShownNames(l) \o ShownNames(k)
  <1>1. PICK a, b : a = Names(l) /\ b = Names(k)
    OBVIOUS
  <1>2. PICK p, q : p = ShownNames(l) /\ q = ShownNames(k)
    OBVIOUS
  <1>3. PICK u : u = Names(d)
    OBVIOUS
  <1>4. /\ IsList(a) /\ Len(a) \in Nat /\ IsList(b) /\ Len(b) \in Nat
        /\ Len(a) = Len(l) /\ Len(b) = Len(k)
    BY <1>1, NamesAreList, ListLength
  <1>5. /\ IsList(p) /\ Len(p) = Len(a) /\ \A i \in 1 .. Len(a) : p[i] = <<"afficher">> \o a[i]
        /\ IsList(q) /\ Len(q) = Len(b) /\ \A i \in 1 .. Len(b) : q[i] = <<"afficher">> \o b[i]
    BY <1>1, <1>2, <1>4, ShownAreList
  <1>6. \A i \in DOMAIN names : d[i].name = <<"afficher">> \o names[i]
    BY DEF Display
  <1>7. /\ IsList(names) /\ Len(names) = Len(a) + Len(b)
        /\ DOMAIN names = 1 .. Len(a) + Len(b)
        /\ \A i \in 1 .. Len(a) : names[i] = a[i]
        /\ \A i \in 1 .. Len(b) : names[Len(a) + i] = b[i]
    <2>1. names = a \o b
      BY <1>1
    <2>2. IsList(a) /\ IsList(b)
      BY <1>4
    <2> QED
      BY <2>1, <2>2, JoinedLists
  <1>8. d = [i \in DOMAIN names |-> d[i]]
    OBVIOUS
  <1>9. IsList(d) /\ Len(d) = Len(names) /\ DOMAIN d = DOMAIN names
    BY <1>7, <1>8, AlongList
  <1>10. /\ IsList(u) /\ Len(u) = Len(d) /\ \A i \in DOMAIN d : u[i] = d[i].name
    BY <1>3, <1>9, NamesAreList
  <1>11. \A i \in 1 .. Len(a) + Len(b) : u[i] = <<"afficher">> \o names[i]
    BY <1>6, <1>7, <1>9, <1>10
  <1>12. \A i \in 1 .. Len(p) : u[i] = p[i]
    <2> SUFFICES ASSUME NEW i \in 1 .. Len(a) PROVE u[i] = p[i]
      BY <1>5
    <2>1. i \in 1 .. Len(a) + Len(b)
      BY <1>4
    <2> QED
      BY <1>5, <1>7, <1>11, <2>1
  <1>13. \A i \in 1 .. Len(q) : u[Len(p) + i] = q[i]
    <2> SUFFICES ASSUME NEW i \in 1 .. Len(b) PROVE u[Len(a) + i] = q[i]
      BY <1>5
    <2>1. Len(a) + i \in 1 .. Len(a) + Len(b)
      BY <1>4
    <2> QED
      BY <1>5, <1>7, <1>11, <2>1
  <1>14. Joins(u, p, q)
    <2>1. IsList(u) /\ Len(u) = Len(p) + Len(q) /\ IsList(p) /\ IsList(q)
      BY <1>5, <1>7, <1>9, <1>10
    <2> QED
      BY <1>12, <1>13, <2>1 DEF Joins
  <1>15. u = p \o q
    BY <1>14, IsJoined
  <1> QED
    BY <1>2, <1>3, <1>7, <1>9, <1>15

LEMMA NamesOfDisplays ==
  ASSUME NEW g, Shaped(g)
  PROVE  /\ IsList(TypeNames(g))
         /\ IsList(Displays(g)) /\ DOMAIN Displays(g) = DOMAIN TypeNames(g)
         /\ Names(Displays(g)) = ShownNames(g.enum) \o ShownNames(g.struct)
  <1>1. PICK l : l = g.enum
    OBVIOUS
  <1>2. PICK k : k = g.struct
    OBVIOUS
  <1>3. IsList(l) /\ IsList(k)
    BY <1>1, <1>2, ShapedLists
  <1>4. PICK names : names = TypeNames(g)
    OBVIOUS
  <1>5. names = Names(l) \o Names(k)
    BY <1>1, <1>2, <1>4 DEF TypeNames
  <1>6. PICK d : d = Displays(g)
    OBVIOUS
  <1>7. d = [i \in DOMAIN names |-> Display(names[i])]
    BY <1>4, <1>6 DEF Displays
  <1>8. /\ IsList(names) /\ IsList(d) /\ DOMAIN d = DOMAIN names
        /\ Names(d) = ShownNames(l) \o ShownNames(k)
    BY <1>3, <1>5, <1>7, NamesOfShown
  <1> QED
    BY <1>1, <1>2, <1>4, <1>6, <1>8

\* A list of names goes once through declarations that are all of some kinds.
Covers(names, D, kinds) == Enumerates(names, D) /\ OfKinds(D, kinds)

LEMMA CoversJoined ==
  ASSUME NEW s, NEW D, NEW K, Covers(s, D, K), NEW t, NEW E, NEW L, Covers(t, E, L),
         K \cap L = {}
  PROVE  Covers(s \o t, D \cup E, K \cup L)
  <1>1. Enumerates(s, D) /\ OfKinds(D, K) /\ Enumerates(t, E) /\ OfKinds(E, L)
    BY DEF Covers
  <1>2. D \cap E = {}
    BY <1>1 DEF OfKinds
  <1>3. OfKinds(D \cup E, K \cup L)
    BY <1>1 DEF OfKinds
  <1>4. Enumerates(s \o t, D \cup E)
    BY <1>1, <1>2, EnumeratesJoined
  <1> QED
    BY <1>3, <1>4 DEF Covers

LEMMA CoversPlaces ==
  ASSUME NEW kind, NEW names, IsList(names)
  PROVE  Covers(names, Places(kind, names), {kind})
  BY EnumeratesPlaces DEF Covers

\* Each function has its place, and so has what displays each type.
LEMMA FunctionsOfGame ==
  ASSUME NEW g, Shaped(g), NEW h, Completes(h, g)
  PROVE  /\ IsList(AllFunctions(h))
         /\ Range(AllFunctions(h)) = ListedFunctions(g) \cup Range(Displays(g))
         /\ Covers(Names(AllFunctions(h)), FunctionPlaces(g),
                   {"function", "user_function", "display_enum", "display_struct"})
  <1>1. PICK fs : fs = g.function
    OBVIOUS
  <1>2. PICK us : us = g.user_function
    OBVIOUS
  <1>3. PICK p : p = ShownNames(g.enum)
    OBVIOUS
  <1>4. PICK q : q = ShownNames(g.struct)
    OBVIOUS
  <1>5. PICK d : d = Displays(g)
    OBVIOUS
  <1>6. IsList(fs) /\ IsList(us)
    BY <1>1, <1>2, ShapedLists
  <1>7. IsList(d) /\ Names(d) = p \o q
    BY <1>3, <1>4, <1>5, NamesOfDisplays
  <1>8. IsList(p)
    BY <1>3, ShapedLists, ShownAreList
  <1>9. IsList(q)
    BY <1>4, ShapedLists, ShownAreList
  <1>10. AllFunctions(h) = (fs \o d) \o us
    BY <1>1, <1>2, <1>5 DEF Completes, AllFunctions
  <1>11. /\ IsList(fs \o d) /\ Range(fs \o d) = Range(fs) \cup Range(d)
         /\ Names(fs \o d) = Names(fs) \o (p \o q)
    BY <1>6, <1>7, JoinedLists, NamesJoined
  <1>12. /\ IsList(AllFunctions(h))
         /\ Range(AllFunctions(h)) = (Range(fs) \cup Range(d)) \cup Range(us)
         /\ Names(AllFunctions(h)) = (Names(fs) \o (p \o q)) \o Names(us)
    BY <1>6, <1>10, <1>11, JoinedLists, NamesJoined
  <1>13. Range(AllFunctions(h)) = ListedFunctions(g) \cup Range(Displays(g))
    <2>1. ListedFunctions(g) = Range(fs) \cup Range(us)
      BY <1>1, <1>2 DEF ListedFunctions
    <2> QED
      BY <1>5, <1>12, <2>1
  <1>14. /\ Covers(Names(fs), Places("function", Names(fs)), {"function"})
         /\ Covers(Names(us), Places("user_function", Names(us)), {"user_function"})
    BY <1>6, NamesAreList, CoversPlaces
  <1>15. /\ Covers(p, Places("display_enum", p), {"display_enum"})
         /\ Covers(q, Places("display_struct", q), {"display_struct"})
    BY <1>8, <1>9, CoversPlaces
  <1>16. Covers(p \o q, Places("display_enum", p) \cup Places("display_struct", q),
                {"display_enum", "display_struct"})
    <2>1. {"display_enum"} \cap {"display_struct"} = {}
      OBVIOUS
    <2>2. {"display_enum"} \cup {"display_struct"} = {"display_enum", "display_struct"}
      OBVIOUS
    <2>3. Covers(p \o q, Places("display_enum", p) \cup Places("display_struct", q),
                 {"display_enum"} \cup {"display_struct"})
      BY <1>15, <2>1, CoversJoined
    <2> QED
      BY <2>2, <2>3
  <1> DEFINE D1 == Places("function", Names(fs))
             D2 == Places("display_enum", p) \cup Places("display_struct", q)
             D3 == Places("user_function", Names(us))
             K2 == {"display_enum", "display_struct"}
  <1>17. Covers(Names(fs) \o (p \o q), D1 \cup D2, {"function"} \cup K2)
    <2>1. {"function"} \cap K2 = {}
      OBVIOUS
    <2> HIDE DEF D1, D2, K2
    <2> QED
      BY <1>14, <1>16, <2>1, CoversJoined DEF D1, D2, K2
  <1>18. Covers((Names(fs) \o (p \o q)) \o Names(us), (D1 \cup D2) \cup D3,
                ({"function"} \cup K2) \cup {"user_function"})
    <2>1. ({"function"} \cup K2) \cap {"user_function"} = {}
      OBVIOUS
    <2>2. Covers(Names(us), D3, {"user_function"})
      BY <1>14
    <2> HIDE DEF D1, D2, D3, K2
    <2> QED
      BY <1>17, <2>1, <2>2, CoversJoined
  <1>19. FunctionPlaces(g) = (D1 \cup D2) \cup D3
    <2>1. /\ Places("function", Names(g.function)) = D1
          /\ Places("user_function", Names(g.user_function)) = D3
          /\ Places("display_enum", ShownNames(g.enum)) = Places("display_enum", p)
          /\ Places("display_struct", ShownNames(g.struct)) = Places("display_struct", q)
      BY <1>1, <1>2, <1>3, <1>4
    <2> HIDE DEF D1, D3
    <2> QED
      BY <2>1 DEF FunctionPlaces
  <1>20. ({"function"} \cup K2) \cup {"user_function"} =
           {"function", "user_function", "display_enum", "display_struct"}
    OBVIOUS
  <1> HIDE DEF D1, D2, D3, K2
  <1>21. Covers(Names(AllFunctions(h)), FunctionPlaces(g),
                {"function", "user_function", "display_enum", "display_struct"})
    BY <1>12, <1>18, <1>19, <1>20
  <1> QED
    BY <1>12, <1>13, <1>21

\* Types have their places, and so have their fields.
LEMMA TypesOfGame ==
  ASSUME NEW g, Shaped(g)
  PROVE  /\ Covers(Declared(g.enum), InType("enum", "enum_field", g.enum),
                   {"enum", "enum_field"})
         /\ Covers(Declared(g.struct), InType("struct", "str_field", g.struct),
                   {"struct", "str_field"})
         /\ TypePlaces(g) = InType("enum", "enum_field", g.enum)
                              \cup InType("struct", "str_field", g.struct)
  <1>1. PICK l : l = g.enum
    OBVIOUS
  <1>2. PICK k : k = g.struct
    OBVIOUS
  <1>3. IsList(l) /\ \A t \in Range(l) : IsList(t.fields)
    <2>1. IsList(l)
      BY <1>1, ShapedLists
    <2> QED
      BY <1>1, <2>1 DEF Shaped
  <1>4. IsList(k) /\ \A t \in Range(k) : IsList(t.fields)
    <2>1. IsList(k)
      BY <1>2, ShapedLists
    <2> QED
      BY <1>2, <2>1 DEF Shaped
  <1>5. Covers(Declared(l), InType("enum", "enum_field", l), {"enum", "enum_field"})
    BY <1>3, EnumeratesDeclared DEF Covers
  <1>6. Covers(Declared(k), InType("struct", "str_field", k), {"struct", "str_field"})
    BY <1>4, EnumeratesDeclared DEF Covers
  <1>7. TypePlaces(g) = InType("enum", "enum_field", g.enum)
                          \cup InType("struct", "str_field", g.struct)
    BY DEF TypePlaces, InType
  <1> QED
    BY <1>1, <1>2, <1>5, <1>6, <1>7

\* The names that are compared are the builtin ones and those of declarations.
LEMMA UsesOfGame ==
  ASSUME NEW g, Shaped(g), NEW h, Completes(h, g)
  PROVE  \E kinds : /\ Covers(NameUses(h), Places("builtin", BuiltinNames) \cup Declarations(g),
                              kinds)
                    /\ OfKinds(Declarations(g), kinds \ {"builtin"})
  <1> DEFINE B == Places("builtin", BuiltinNames)
             C == Places("constant", Names(g.constant))
             S == InType("struct", "str_field", g.struct)
             E == InType("enum", "enum_field", g.enum)
             F == FunctionPlaces(g)
             KF == {"function", "user_function", "display_enum", "display_struct"}
             K1 == {"builtin"} \cup {"constant"}
             K2 == K1 \cup {"struct", "str_field"}
             K3 == K2 \cup {"enum", "enum_field"}
             K4 == K3 \cup KF
  <1>1. Covers(BuiltinNames, B, {"builtin"})
    <2>1. IsList(BuiltinNames)
      BY DEF IsList, BuiltinNames, Range
    <2> QED
      BY <2>1, CoversPlaces
  <1>2. Covers(Names(g.constant), C, {"constant"})
    BY ShapedLists, NamesAreList, CoversPlaces
  <1>3. /\ Covers(Declared(g.struct), S, {"struct", "str_field"})
        /\ Covers(Declared(g.enum), E, {"enum", "enum_field"})
        /\ TypePlaces(g) = E \cup S
    BY TypesOfGame
  <1>4. Covers(Names(AllFunctions(h)), F, KF)
    BY FunctionsOfGame
  <1>5. /\ {"builtin"} \cap {"constant"} = {}
        /\ K1 \cap {"struct", "str_field"} = {}
        /\ K2 \cap {"enum", "enum_field"} = {}
        /\ K3 \cap KF = {}
        /\ K4 \ {"builtin"} = (({"constant"} \cup {"struct", "str_field"})
                                  \cup {"enum", "enum_field"}) \cup KF
    OBVIOUS
  <1>6. NameUses(h) = (((BuiltinNames \o Names(g.constant)) \o Declared(g.struct))
                          \o Declared(g.enum)) \o Names(AllFunctions(h))
    <2>1. Names(h.constant) = Names(g.constant)
      BY DEF Completes
    <2>2. Declared(h.struct) = Declared(g.struct)
      BY DEF Completes
    <2>3. Declared(h.enum) = Declared(g.enum)
      BY DEF Completes
    <2> QED
      BY <2>1, <2>2, <2>3 DEF NameUses
  <1>7. Declarations(g) = ((C \cup S) \cup E) \cup F
    BY <1>3 DEF Declarations
  <1> HIDE DEF B, C, S, E, F, KF
  <1>8. Covers(BuiltinNames \o Names(g.constant), B \cup C, K1)
    BY <1>1, <1>2, <1>5, CoversJoined
  <1> HIDE DEF K1
  <1>9. Covers((BuiltinNames \o Names(g.constant)) \o Declared(g.struct), (B \cup C) \cup S, K2)
    BY <1>3, <1>5, <1>8, CoversJoined
  <1> HIDE DEF K2
  <1>10. Covers(((BuiltinNames \o Names(g.constant)) \o Declared(g.struct)) \o Declared(g.enum),
                ((B \cup C) \cup S) \cup E, K3)
    BY <1>3, <1>5, <1>9, CoversJoined
  <1> HIDE DEF K3
  <1>11. Covers(NameUses(h), (((B \cup C) \cup S) \cup E) \cup F, K4)
    BY <1>4, <1>5, <1>6, <1>10, CoversJoined
  <1>12. OfKinds(((C \cup S) \cup E) \cup F, K4 \ {"builtin"})
    <2>1. OfKinds(C, {"constant"}) /\ OfKinds(S, {"struct", "str_field"})
          /\ OfKinds(E, {"enum", "enum_field"}) /\ OfKinds(F, KF)
      BY <1>2, <1>3, <1>4 DEF Covers
    <2>2. \A d \in ((C \cup S) \cup E) \cup F :
            /\ d = [at |-> d.at, name |-> d.name]
            /\ d.at[1] \in (({"constant"} \cup {"struct", "str_field"})
                               \cup {"enum", "enum_field"}) \cup KF
      BY <2>1 DEF OfKinds
    <2> HIDE DEF K4
    <2> QED
      BY <1>5, <2>2 DEF OfKinds
  <1>13. (((B \cup C) \cup S) \cup E) \cup F = B \cup Declarations(g)
    BY <1>7
  <1> HIDE DEF K4
  <1> QED
    BY <1>7, <1>11, <1>12, <1>13 DEF B

\* No name is met twice when declarations differ in their names, and from the
\* builtin types.
LEMMA NoConflict ==
  ASSUME NEW g, Shaped(g), NEW h, Completes(h, g)
  PROVE  NoneTwice(NameUses(h)) <=>
           OnePlaceEach(Declarations(g)) /\ \A d \in Declarations(g) : d.name \notin Builtin
  <1> DEFINE B == Places("builtin", BuiltinNames)
             D == Declarations(g)
  <1>1. PICK kinds : Covers(NameUses(h), B \cup D, kinds) /\ OfKinds(D, kinds \ {"builtin"})
    BY UsesOfGame
  <1>2. NoneTwice(NameUses(h)) <=> OnePlaceEach(B \cup D)
    BY <1>1, EnumeratedOnce DEF Covers
  <1>3. \A d \in B : d.name \in Builtin /\ d.at[1] = "builtin"
    BY DEF Places, Builtin, Range
  <1>4. ASSUME NEW name \in Builtin PROVE \E d \in B : d.name = name
    <2>1. PICK i \in DOMAIN BuiltinNames : BuiltinNames[i] = name
      BY DEF Builtin, Range
    <2>2. [at |-> <<"builtin", i>>, name |-> BuiltinNames[i]] \in B
      BY <2>1 DEF Places
    <2> HIDE DEF B
    <2> QED
      BY <2>1, <2>2
  <1>5. OnePlaceEach(B)
    <2>1. \A i, j \in DOMAIN BuiltinNames : BuiltinNames[i] = BuiltinNames[j] => i = j
      BY DEF BuiltinNames
    <2> QED
      BY <2>1 DEF OnePlaceEach, Places
  <1>6. \A d \in D : d.at[1] # "builtin"
    BY <1>1 DEF OfKinds
  <1> HIDE DEF B, D
  <1>7. ASSUME OnePlaceEach(B \cup D)
        PROVE  OnePlaceEach(D) /\ \A d \in D : d.name \notin Builtin
    <2>1. OnePlaceEach(D)
      BY <1>7 DEF OnePlaceEach
    <2>2. ASSUME NEW d \in D, d.name \in Builtin PROVE FALSE
      <3>1. PICK b \in B : b.name = d.name
        BY <1>4, <2>2
      <3>2. b.at = d.at
        BY <1>7, <3>1 DEF OnePlaceEach
      <3> QED
        BY <1>3, <1>6, <3>2
    <2> QED
      BY <2>1, <2>2
  <1>8. ASSUME OnePlaceEach(D), \A d \in D : d.name \notin Builtin
        PROVE  OnePlaceEach(B \cup D)
    <2> SUFFICES ASSUME NEW d \in B \cup D, NEW e \in B \cup D, d.name = e.name
                 PROVE  d.at = e.at
      BY DEF OnePlaceEach
    <2>1. CASE d \in D /\ e \in D
      BY <1>8, <2>1 DEF OnePlaceEach
    <2>2. CASE d \in B /\ e \in B
      BY <1>5, <2>2 DEF OnePlaceEach
    <2>3. CASE (d \in B /\ e \in D) \/ (d \in D /\ e \in B)
      BY <1>3, <1>8, <2>3
    <2> QED
      BY <2>1, <2>2, <2>3
  <1> QED
    BY <1>2, <1>7, <1>8 DEF B, D

-----------------------------------------------------------------------------
(* The names that must not be keywords                                     *)

\* The name of each function, followed by those of its arguments.
WithArguments(fs) == [i \in DOMAIN fs |-> <<fs[i].name>> \o Names(fs[i].args)]

LEMMA FunctionIdentifiers ==
  ASSUME NEW fs, IsList(fs), \A f \in Range(fs) : IsList(f.args)
  PROVE  /\ IsList(FlattenSeq(WithArguments(fs)))
         /\ Range(FlattenSeq(WithArguments(fs))) =
              {f.name : f \in Range(fs)}
                \cup {a.name : a \in UNION {Range(f.args) : f \in Range(fs)}}
  <1> DEFINE N == {f.name : f \in Range(fs)}
                    \cup {a.name : a \in UNION {Range(f.args) : f \in Range(fs)}}
  <1>1. ASSUME NEW i \in DOMAIN fs
        PROVE  /\ WithArguments(fs)[i] \in Seq(N)
               /\ Range(WithArguments(fs)[i]) =
                    {fs[i].name} \cup {a.name : a \in Range(fs[i].args)}
    <2>1. PICK args : args = fs[i].args
      OBVIOUS
    <2>2. PICK name : name = fs[i].name
      OBVIOUS
    <2>3. fs[i] \in Range(fs)
      BY DEF Range
    <2>4. /\ IsList(Names(args)) /\ Range(Names(args)) = {a.name : a \in Range(args)}
      BY <2>1, <2>3, NamesAreList
    <2>5. IsList(<<name>>) /\ Range(<<name>>) = {name}
      BY DEF IsList, Range
    <2>6. /\ IsList(<<name>> \o Names(args))
          /\ Range(<<name>> \o Names(args)) = {name} \cup {a.name : a \in Range(args)}
      BY <2>4, <2>5, JoinedLists
    <2>7. WithArguments(fs)[i] = <<name>> \o Names(args)
      BY <2>1, <2>2 DEF WithArguments
    <2>8. {name} \cup {a.name : a \in Range(args)} \subseteq N
      BY <2>1, <2>2, <2>3
    <2> HIDE DEF N
    <2>9. <<name>> \o Names(args) \in Seq(N)
      <3>1. PICK u : u = <<name>> \o Names(args)
        OBVIOUS
      <3>2. u \in Seq(Range(u)) /\ Range(u) \subseteq N
        BY <2>6, <2>8, <3>1 DEF IsList
      <3> QED
        BY <3>1, <3>2, SeqMonotonic
    <2> QED
      BY <2>1, <2>2, <2>6, <2>7, <2>9
  <1>2. DOMAIN fs = 1 .. Len(fs) /\ Len(fs) \in Nat
    BY ListLength
  <1>3. WithArguments(fs) \in [1 .. Len(fs) -> Seq(N)] /\ DOMAIN WithArguments(fs) = DOMAIN fs
    <2> HIDE DEF N
    <2>1. WithArguments(fs) = [i \in DOMAIN fs |-> WithArguments(fs)[i]]
      BY DEF WithArguments
    <2> QED
      BY <1>1, <1>2, <2>1
  <1>4. WithArguments(fs) \in Seq(Seq(N))
    <2> HIDE DEF N
    <2> QED
      BY <1>2, <1>3, ListOf
  <1>5. /\ FlattenSeq(WithArguments(fs)) \in Seq(N)
        /\ Range(FlattenSeq(WithArguments(fs))) =
             UNION {Range(WithArguments(fs)[i]) : i \in DOMAIN WithArguments(fs)}
    <2> HIDE DEF N
    <2> QED
      BY <1>4, FlattenItems
  <1>6. UNION {Range(WithArguments(fs)[i]) : i \in DOMAIN WithArguments(fs)} = N
    <2>1. UNION {Range(WithArguments(fs)[i]) : i \in DOMAIN WithArguments(fs)} =
            UNION {{fs[i].name} \cup {a.name : a \in Range(fs[i].args)} : i \in DOMAIN fs}
      BY <1>1, <1>3
    <2>2. Range(fs) = {fs[i] : i \in DOMAIN fs}
      BY DEF Range
    <2> QED
      BY <2>1, <2>2
  <1>7. IsList(FlattenSeq(WithArguments(fs)))
    <2> HIDE DEF N
    <2> QED
      BY <1>5, <1>6 DEF IsList
  <1> QED
    BY <1>5, <1>6, <1>7

\* What displays a type has one argument, v.
LEMMA DisplayArguments ==
  ASSUME NEW g, NEW f \in Range(Displays(g))
  PROVE  /\ IsList(f.args) /\ DOMAIN f.args = {1} /\ f.args[1].name = <<"v">>
         /\ {a.name : a \in Range(f.args)} = {<<"v">>}
  <1>1. PICK i \in DOMAIN TypeNames(g) : f = Display(TypeNames(g)[i])
    BY DEF Displays, Range
  <1>2. PICK a : a = [name |-> <<"v">>, type |-> Plain(TypeNames(g)[i]), size |-> 3]
    OBVIOUS
  <1>3. f.args = <<a>> /\ a.name = <<"v">>
    BY <1>1, <1>2 DEF Display
  <1>4. IsList(<<a>>) /\ DOMAIN <<a>> = {1} /\ Range(<<a>>) = {a}
    BY DEF IsList, Range
  <1> QED
    BY <1>3, <1>4

\* The names that are looked up as keywords: those of types and their fields,
\* of functions and their arguments, and v where a type is displayed.
LEMMA IdentifierNames ==
  ASSUME NEW g, Shaped(g), NEW h, Completes(h, g)
  PROVE  Range(Identifiers(h)) =
           {d.name : d \in TypePlaces(g) \cup FunctionPlaces(g) \cup ArgumentsOf(g)}
             \cup {n \in {<<"v">>} : Range(TypeNames(g)) # {}}
  <1>1. PICK fs : fs = AllFunctions(h)
    OBVIOUS
  <1>2. PICK D : D = Range(Displays(g))
    OBVIOUS
  <1>3. /\ IsList(fs) /\ Range(fs) = ListedFunctions(g) \cup D
        /\ Covers(Names(fs), FunctionPlaces(g),
                  {"function", "user_function", "display_enum", "display_struct"})
    BY <1>1, <1>2, FunctionsOfGame
  <1>4. {f.name : f \in Range(fs)} = {d.name : d \in FunctionPlaces(g)}
    BY <1>3, NamesAreList, EnumeratedOnce DEF Covers
  <1>5. \A f \in Range(fs) : IsList(f.args)
    <2>1. \A f \in ListedFunctions(g) : IsList(f.args)
      BY DEF Shaped, ListedFunctions
    <2>2. \A f \in D : IsList(f.args)
      BY <1>2, DisplayArguments
    <2> QED
      BY <1>3, <2>1, <2>2
  <1>6. D = {} <=> Range(TypeNames(g)) = {}
    BY <1>2, NamesOfDisplays DEF Range
  <1>7. {a.name : a \in UNION {Range(f.args) : f \in Range(fs)}} =
          {a.name : a \in ArgumentsOf(g)} \cup {n \in {<<"v">>} : Range(TypeNames(g)) # {}}
    <2>1. UNION {Range(f.args) : f \in Range(fs)} =
            ArgumentsOf(g) \cup UNION {Range(f.args) : f \in D}
      BY <1>3 DEF ArgumentsOf
    <2>2. {a.name : a \in UNION {Range(f.args) : f \in D}} = {n \in {<<"v">>} : D # {}}
      <3>1. \A f \in D : {a.name : a \in Range(f.args)} = {<<"v">>}
        BY <1>2, DisplayArguments
      <3> QED
        BY <3>1
    <2> QED
      BY <1>6, <2>1, <2>2
  <1>8. /\ IsList(FlattenSeq(WithArguments(fs)))
        /\ Range(FlattenSeq(WithArguments(fs))) =
             {f.name : f \in Range(fs)}
               \cup {a.name : a \in UNION {Range(f.args) : f \in Range(fs)}}
    BY <1>3, <1>5, FunctionIdentifiers
  <1>9. PICK l : l = Declared(g.enum)
    OBVIOUS
  <1>10. PICK k : k = Declared(g.struct)
    OBVIOUS
  <1>11. Identifiers(h) = (l \o k) \o FlattenSeq(WithArguments(fs))
    <2>1. Declared(h.enum) = l
      BY <1>9 DEF Completes
    <2>2. Declared(h.struct) = k
      BY <1>10 DEF Completes
    <2>3. WithArguments(fs) = [i \in DOMAIN AllFunctions(h) |->
              <<AllFunctions(h)[i].name>> \o Names(AllFunctions(h)[i].args)]
      BY <1>1 DEF WithArguments
    <2> QED
      BY <2>1, <2>2, <2>3 DEF Identifiers
  <1> DEFINE E == InType("enum", "enum_field", g.enum)
             S == InType("struct", "str_field", g.struct)
  <1>12. /\ Covers(l, E, {"enum", "enum_field"}) /\ Covers(k, S, {"struct", "str_field"})
         /\ TypePlaces(g) = E \cup S
    BY <1>9, <1>10, TypesOfGame
  <1> HIDE DEF E, S
  <1>13. /\ IsList(l) /\ Range(l) = {d.name : d \in E}
         /\ IsList(k) /\ Range(k) = {d.name : d \in S}
    <2>1. Range(l) = {d.name : d \in E}
      BY <1>12, EnumeratedOnce DEF Covers
    <2>2. Range(k) = {d.name : d \in S}
      BY <1>12, EnumeratedOnce DEF Covers
    <2>3. IsList(l) /\ IsList(k)
      BY <1>12 DEF Covers, Enumerates
    <2> QED
      BY <2>1, <2>2, <2>3
  <1>14. IsList(l \o k) /\ Range(l \o k) = {d.name : d \in TypePlaces(g)}
    <2>1. IsList(l \o k) /\ Range(l \o k) = Range(l) \cup Range(k)
      BY <1>13, JoinedLists
    <2> QED
      BY <1>12, <1>13, <2>1
  <1>15. Range(Identifiers(h)) = Range(l \o k) \cup Range(FlattenSeq(WithArguments(fs)))
    <2>1. PICK u : u = l \o k
      OBVIOUS
    <2>2. PICK v : v = FlattenSeq(WithArguments(fs))
      OBVIOUS
    <2>3. IsList(u) /\ IsList(v) /\ Identifiers(h) = u \o v
      BY <1>8, <1>11, <1>14, <2>1, <2>2
    <2> QED
      BY <2>1, <2>2, <2>3, JoinedLists
  <1> QED
    BY <1>4, <1>7, <1>8, <1>14, <1>15

-----------------------------------------------------------------------------
(* Well-formed files, as the passes see them                               *)

KnownTypes(g) == Builtin \cup Range(TypeNames(g))

ConstantsFit(g) == \A c \in Range(g.constant) : ~ConstantIsWrong(c)

EntryFits(g, e) == e.size = 3 /\ e.type.base \in KnownTypes(g)
FieldsFit(g) == \A s \in Range(g.struct) : \A e \in Range(s.fields) : EntryFits(g, e)
SignaturesFit(g) ==
    \A f \in ListedFunctions(g) :
       f.ret.base \in KnownTypes(g) /\ \A e \in Range(f.args) : EntryFits(g, e)

EnumsFit(g) == \A e \in Range(g.enum) : \A x \in Range(e.fields) : x.size = 2

ArgumentsFit(g) ==
    /\ \A f \in ListedFunctions(g) : \A i, j \in DOMAIN f.args :
         /\ f.args[i].name \notin KnownTypes(g)
         /\ i # j => f.args[i].name # f.args[j].name
    /\ Range(TypeNames(g)) # {} => <<"v">> \notin KnownTypes(g)

NamesFit(g) ==
    /\ OnePlaceEach(Declarations(g))
    /\ \A d \in Declarations(g) : d.name \notin Builtin

NoKeywords(g) ==
    /\ ~IsKeyword(g.name)
    /\ \A c \in Range(g.constant) : ~ConstantIsKeyword(c.name)
    /\ \A d \in TypePlaces(g) \cup FunctionPlaces(g) \cup ArgumentsOf(g) : ~IsKeyword(d.name)
    /\ Range(TypeNames(g)) # {} => ~IsKeyword(<<"v">>)

LEMMA TypesDeclared ==
  ASSUME NEW g, Shaped(g)
  PROVE  Range(TypeNames(g)) = {t.name : t \in Range(g.enum) \cup Range(g.struct)}
  <1>1. PICK l : l = g.enum
    OBVIOUS
  <1>2. PICK k : k = g.struct
    OBVIOUS
  <1>3. IsList(l) /\ IsList(k)
    BY <1>1, <1>2, ShapedLists
  <1>4. /\ IsList(Names(l)) /\ Range(Names(l)) = {e.name : e \in Range(l)}
        /\ IsList(Names(k)) /\ Range(Names(k)) = {e.name : e \in Range(k)}
    BY <1>3, NamesAreList
  <1>5. Range(Names(l) \o Names(k)) = Range(Names(l)) \cup Range(Names(k))
    BY <1>4, JoinedLists
  <1>6. TypeNames(g) = Names(l) \o Names(k)
    BY <1>1, <1>2 DEF TypeNames
  <1>7. Range(TypeNames(g)) = {t.name : t \in Range(l) \cup Range(k)}
    BY <1>4, <1>5, <1>6
  <1> QED
    BY <1>1, <1>2, <1>7

\* A field of a struct has its place.
LEMMA FieldsHavePlaces ==
  ASSUME NEW g, NEW s \in Range(g.struct), NEW e \in Range(s.fields)
  PROVE  \E d \in TypePlaces(g) : d.name = e.name
  <1>1. PICK i \in DOMAIN g.struct : g.struct[i] = s
    BY DEF Range
  <1>2. PICK j \in DOMAIN s.fields : s.fields[j] = e
    BY DEF Range
  <1>3. PICK k : k = g.struct
    OBVIOUS
  <1>4. i \in DOMAIN k /\ j \in DOMAIN k[i].fields /\ k[i].fields[j].name = e.name
    BY <1>1, <1>2, <1>3
  <1>5. PICK d : d = [at |-> <<"str_field", i, j>>, name |-> k[i].fields[j].name]
    OBVIOUS
  <1>6. d \in FieldPlaces("str_field", k) /\ d.name = e.name
    BY <1>4, <1>5 DEF FieldPlaces
  <1>7. FieldPlaces("str_field", g.struct) \subseteq TypePlaces(g)
    BY DEF TypePlaces
  <1> QED
    BY <1>3, <1>6, <1>7

\* A file is well formed when it fits what each pass looks at.
LEMMA WellFormedParts ==
  ASSUME NEW raw, {"name", "constant"} \subseteq DOMAIN raw,
         NEW g, g = WithDefaults(raw), Shaped(g)
  PROVE  WellFormed(raw) <=>
           /\ ConstantsFit(g) /\ EnumsFit(g) /\ FieldsFit(g) /\ SignaturesFit(g)
           /\ ArgumentsFit(g) /\ NamesFit(g) /\ NoKeywords(g)
  <1> DEFINE fs == ListedFunctions(g)
             declared == {t.name : t \in Range(g.enum) \cup Range(g.struct)}
             known == Builtin \cup declared
             keywords == Reserved \cup ReservedCapitalised
             ofStructs == UNION {Range(s.fields) : s \in Range(g.struct)}
             typed == TypedEntries(g)
             W1 == \A c \in Range(g.constant) : ~ConstantIsWrong(c) /\ ~ConstantIsKeyword(c.name)
             W2 == \A e \in typed : e.size = 3 /\ e.type.base \in known
             W3 == \A e \in UNION {Range(t.fields) : t \in Range(g.enum)} : e.size = 2
             W4 == \A fct \in fs : fct.ret.base \in known
             W5 == \A d, e \in Declarations(g) : d.name = e.name => d.at = e.at
             W6 == \A d \in Declarations(g) : d.name \notin Builtin
             W7 == \A fct \in fs : \A i, j \in DOMAIN fct.args :
                      /\ fct.args[i].name \notin known
                      /\ i # j => fct.args[i].name # fct.args[j].name
             W8 == g.name \notin keywords
             W9 == \A d \in TypePlaces(g) \cup FunctionPlaces(g) \cup typed :
                      d.name \notin keywords
             W10 == declared # {} => <<"v">> \notin known \cup keywords
  <1>1. WellFormed(raw) <=>
          W1 /\ W2 /\ W3 /\ W4 /\ W5 /\ W6 /\ W7 /\ W8 /\ W9 /\ W10
    BY DEF WellFormed, ListedFunctions
  <1>2. Range(TypeNames(g)) = declared /\ KnownTypes(g) = known
    BY TypesDeclared DEF KnownTypes
  <1> HIDE DEF known, declared
  <1>11. typed = ofStructs \cup ArgumentsOf(g)
    <2>1. ArgumentsOf(g) =
            UNION {Range(fct.args) : fct \in Range(g.function) \cup Range(g.user_function)}
      BY DEF ArgumentsOf, ListedFunctions
    <2>2. PICK a : a = ArgumentsOf(g)
      OBVIOUS
    <2>3. typed = ofStructs \cup a
      BY <2>1, <2>2 DEF TypedEntries
    <2> HIDE DEF ofStructs, typed
    <2> QED
      BY <2>2, <2>3
  <1> HIDE DEF typed
  <1>3. W2 /\ W4 <=> FieldsFit(g) /\ SignaturesFit(g)
    <2>1. (\A e \in ofStructs : e.size = 3 /\ e.type.base \in known) <=> FieldsFit(g)
      BY <1>2 DEF FieldsFit, EntryFits
    <2>2. (\A e \in ArgumentsOf(g) : e.size = 3 /\ e.type.base \in known) /\ W4
            <=> SignaturesFit(g)
      BY <1>2 DEF SignaturesFit, EntryFits, ArgumentsOf
    <2>3. W2 <=> /\ \A e \in ofStructs : e.size = 3 /\ e.type.base \in known
                 /\ \A e \in ArgumentsOf(g) : e.size = 3 /\ e.type.base \in known
      <3> HIDE DEF ofStructs
      <3> QED
        BY <1>11
    <2> QED
      BY <2>1, <2>2, <2>3
  <1>4. W3 <=> EnumsFit(g)
    BY DEF EnumsFit
  <1>5. W5 /\ W6 <=> NamesFit(g)
    BY DEF NamesFit, OnePlaceEach
  <1>6. W7 /\ (declared # {} => <<"v">> \notin known) <=> ArgumentsFit(g)
    BY <1>2 DEF ArgumentsFit
  <1>7. W9 <=> \A d \in TypePlaces(g) \cup FunctionPlaces(g) \cup ArgumentsOf(g) :
                 ~IsKeyword(d.name)
    <2>1. ASSUME \A d \in TypePlaces(g) : d.name \notin keywords, NEW e \in ofStructs
          PROVE  e.name \notin keywords
      <3>1. PICK s \in Range(g.struct) : e \in Range(s.fields)
        OBVIOUS
      <3>2. PICK d \in TypePlaces(g) : d.name = e.name
        BY <3>1, FieldsHavePlaces
      <3> QED
        BY <2>1, <3>2
    <2> HIDE DEF ofStructs, keywords
    <2>2. \A name : IsKeyword(name) <=> name \in keywords
      BY DEF IsKeyword, keywords
    <2> QED
      BY <1>11, <2>1, <2>2
  <1>8. /\ W1 <=> /\ ConstantsFit(g)
                  /\ \A c \in Range(g.constant) : ~ConstantIsKeyword(c.name)
        /\ W8 <=> ~IsKeyword(g.name)
    BY DEF ConstantsFit, IsKeyword
  <1>9. W10 <=> /\ declared # {} => <<"v">> \notin known
                /\ declared # {} => ~IsKeyword(<<"v">>)
    BY DEF IsKeyword
  <1>10. NoKeywords(g) <=>
           /\ W8 /\ W9 /\ \A c \in Range(g.constant) : ~ConstantIsKeyword(c.name)
           /\ declared # {} => ~IsKeyword(<<"v">>)
    <2> HIDE DEF W8, W9
    <2> QED
      BY <1>2, <1>7, <1>8 DEF NoKeywords
  <1> HIDE DEF W1, W2, W3, W4, W5, W6, W7, W8, W9, W10
  <1> QED
    BY <1>1, <1>3, <1>4, <1>5, <1>6, <1>8, <1>9, <1>10

-----------------------------------------------------------------------------
(* What the passes look at                                                 *)

\* A game whose constants only have been looked at.
Untouched(h, g) ==
    /\ h.enum = g.enum /\ h.struct = g.struct /\ h.name = g.name
    /\ IsList(h.constant) /\ Names(h.constant) = Names(g.constant)
    /\ h.function = g.function /\ h.user_function = g.user_function
    /\ "function" \in DOMAIN h

\* The names of types, and those of functions, are names of declarations.
LEMMA ListsOfDeclarations ==
  ASSUME NEW g, Shaped(g), NamesFit(g)
  PROVE  /\ NoneTwice(TypeNames(g)) /\ \A t \in Range(TypeNames(g)) : t \notin Builtin
         /\ NoneTwice(Names(AllFunctions(g)))
  <1>1. ASSUME NEW l, NEW k, IsList(l), IsList(k), NEW a, NEW b, a # b,
               NEW u, u = Names(l) \o Names(k),
               Places(a, Names(l)) \cup Places(b, Names(k)) \subseteq Declarations(g)
        PROVE  NoneTwice(u) /\ \A t \in Range(u) : t \notin Builtin
    <2>1. IsList(Names(l)) /\ IsList(Names(k))
      BY <1>1, NamesAreList
    <2>2. PICK D : D = Places(a, Names(l)) \cup Places(b, Names(k))
      OBVIOUS
    <2>3. Covers(Names(l), Places(a, Names(l)), {a}) /\ Covers(Names(k), Places(b, Names(k)), {b})
      BY <2>1, CoversPlaces
    <2>4. {a} \cap {b} = {}
      BY <1>1
    <2>5. Covers(u, D, {a} \cup {b})
      BY <1>1, <2>2, <2>3, <2>4, CoversJoined
    <2>6. (NoneTwice(u) <=> OnePlaceEach(D)) /\ Range(u) = {d.name : d \in D}
      BY <2>5, EnumeratedOnce DEF Covers
    <2>7. OnePlaceEach(D) /\ \A d \in D : d.name \notin Builtin
      BY <1>1, <2>2 DEF NamesFit, OnePlaceEach
    <2> QED
      BY <2>6, <2>7
  <1>2. NoneTwice(TypeNames(g)) /\ \A t \in Range(TypeNames(g)) : t \notin Builtin
    <2>1. PICK l : l = g.enum
      OBVIOUS
    <2>2. PICK k : k = g.struct
      OBVIOUS
    <2>3. IsList(l) /\ IsList(k)
      BY <2>1, <2>2, ShapedLists
    <2>4. PICK u : u = TypeNames(g)
      OBVIOUS
    <2>5. u = Names(l) \o Names(k)
      BY <2>1, <2>2, <2>4 DEF TypeNames
    <2>6. Places("enum", Names(l)) \cup Places("struct", Names(k)) \subseteq Declarations(g)
      BY <2>1, <2>2 DEF Declarations, TypePlaces
    <2> QED
      BY <1>1, <2>3, <2>4, <2>5, <2>6
  <1>3. NoneTwice(Names(AllFunctions(g)))
    <2>1. PICK l : l = g.function
      OBVIOUS
    <2>2. PICK k : k = g.user_function
      OBVIOUS
    <2>3. IsList(l) /\ IsList(k)
      BY <2>1, <2>2, ShapedLists
    <2>4. PICK u : u = Names(AllFunctions(g))
      OBVIOUS
    <2>5. u = Names(l) \o Names(k)
      BY <2>1, <2>2, <2>3, <2>4, NamesJoined DEF AllFunctions
    <2>6. Places("function", Names(l)) \cup Places("user_function", Names(k))
            \subseteq Declarations(g)
      BY <2>1, <2>2 DEF Declarations, FunctionPlaces
    <2> QED
      BY <1>1, <2>3, <2>4, <2>5, <2>6
  <1> QED
    BY <1>2, <1>3

\* No field and no function stops the pass over the types that are used.
LEMMA UsedChecked ==
  ASSUME NEW g, Shaped(g), NEW h, Untouched(h, g), types = KnownTypes(g)
  PROVE  /\ (\A i \in DOMAIN h.struct : ~FieldsAreWrong(h.struct[i])) <=> FieldsFit(g)
         /\ (\A i \in DOMAIN AllFunctions(h) : ~SignatureIsWrong(AllFunctions(h)[i]))
              <=> SignaturesFit(g)
  <1>1. \A e : ~EntryIsWrong(e) <=> EntryFits(g, e)
    BY DEF EntryIsWrong, EntryFits, Unpacks, Knows
  <1>2. (\A i \in DOMAIN h.struct : ~FieldsAreWrong(h.struct[i])) <=> FieldsFit(g)
    <2>1. h.struct = g.struct
      BY DEF Untouched
    <2> QED
      BY <1>1, <2>1 DEF FieldsAreWrong, FieldsFit, Range
  <1>3. PICK fs : fs = AllFunctions(h)
    OBVIOUS
  <1>4. Range(fs) = ListedFunctions(g)
    <2>1. PICK l : l = g.function
      OBVIOUS
    <2>2. PICK k : k = g.user_function
      OBVIOUS
    <2>3. IsList(l) /\ IsList(k)
      BY <2>1, <2>2, ShapedLists
    <2>4. fs = l \o k
      BY <1>3, <2>1, <2>2 DEF Untouched, AllFunctions
    <2>5. Range(fs) = Range(l) \cup Range(k)
      BY <2>3, <2>4, JoinedLists
    <2> QED
      BY <2>1, <2>2, <2>5 DEF ListedFunctions
  <1>5. (\A i \in DOMAIN fs : ~SignatureIsWrong(fs[i])) <=> SignaturesFit(g)
    <2>1. \A f : ~SignatureIsWrong(f) <=>
            f.ret.base \in KnownTypes(g) /\ \A e \in Range(f.args) : EntryFits(g, e)
      BY <1>1 DEF SignatureIsWrong, Knows, Range
    <2>2. SignaturesFit(g) <=> \A f \in Range(fs) : ~SignatureIsWrong(f)
      BY <1>4, <2>1 DEF SignaturesFit
    <2> QED
      BY <2>2 DEF Range
  <1> QED
    BY <1>2, <1>3, <1>5

\* No argument stops the comparison of names.
LEMMA ArgumentsChecked ==
  ASSUME NEW g, Shaped(g), NEW h, Completes(h, g), types = KnownTypes(g)
  PROVE  (\A i \in DOMAIN AllFunctions(h) : ~ArgumentsAreWrong(AllFunctions(h)[i]))
           <=> ArgumentsFit(g)
  <1> DEFINE ArgsFit(f) ==
               \A i, j \in DOMAIN f.args :
                  /\ f.args[i].name \notin KnownTypes(g)
                  /\ i # j => f.args[i].name # f.args[j].name
  <1>1. PICK fs : fs = AllFunctions(h)
    OBVIOUS
  <1>2. PICK D : D = Range(Displays(g))
    OBVIOUS
  <1>3. Range(fs) = ListedFunctions(g) \cup D
    BY <1>1, <1>2, FunctionsOfGame
  <1>4. ASSUME NEW f, IsList(f.args) PROVE ~ArgumentsAreWrong(f) <=> ArgsFit(f)
    <2>1. PICK args : args = f.args
      OBVIOUS
    <2>2. DOMAIN args = 1 .. Len(args) /\ Len(args) \in Nat
      BY <1>4, <2>1, ListLength
    <2>3. ASSUME ~ArgumentsAreWrong(f) PROVE ArgsFit(f)
      <3>1. \A i \in DOMAIN args : /\ args[i].name \notin KnownTypes(g)
                                   /\ \A j \in 1 .. i - 1 : args[j].name # args[i].name
        BY <2>1, <2>3 DEF ArgumentsAreWrong, ArgumentIsWrong
      <3>2. ASSUME NEW i \in DOMAIN args, NEW j \in DOMAIN args, i # j
            PROVE  args[i].name # args[j].name
        <4>1. i \in 1 .. j - 1 \/ j \in 1 .. i - 1
          BY <2>2, <3>2
        <4> QED
          BY <3>1, <4>1
      <3> QED
        BY <2>1, <3>1, <3>2
    <2>4. ASSUME ArgsFit(f) PROVE ~ArgumentsAreWrong(f)
      <3>1. \A i \in DOMAIN args : \A j \in 1 .. i - 1 : j \in DOMAIN args /\ i # j
        BY <2>2
      <3> QED
        BY <2>1, <2>4, <3>1 DEF ArgumentsAreWrong, ArgumentIsWrong
    <2> QED
      BY <2>3, <2>4
  <1>5. \A f \in ListedFunctions(g) : IsList(f.args)
    BY DEF Shaped, ListedFunctions
  <1>6. \A f \in D : IsList(f.args) /\ (ArgsFit(f) <=> <<"v">> \notin KnownTypes(g))
    BY <1>2, DisplayArguments
  <1>7. D = {} <=> Range(TypeNames(g)) = {}
    BY <1>2, NamesOfDisplays DEF Range
  <1>8. (\A f \in D : ArgsFit(f)) <=> (Range(TypeNames(g)) # {} => <<"v">> \notin KnownTypes(g))
    <2> HIDE DEF ArgsFit
    <2> QED
      BY <1>6, <1>7
  <1>9. ArgumentsFit(g) <=> (\A f \in ListedFunctions(g) : ArgsFit(f)) /\ (\A f \in D : ArgsFit(f))
    <2>1. ArgumentsFit(g) <=>
            /\ \A f \in ListedFunctions(g) : ArgsFit(f)
            /\ Range(TypeNames(g)) # {} => <<"v">> \notin KnownTypes(g)
      BY DEF ArgumentsFit
    <2> HIDE DEF ArgsFit
    <2> QED
      BY <1>8, <2>1
  <1> HIDE DEF ArgsFit
  <1>10. ArgumentsFit(g) <=> \A f \in Range(fs) : ~ArgumentsAreWrong(f)
    BY <1>3, <1>4, <1>5, <1>6, <1>9
  <1> QED
    BY <1>1, <1>10 DEF Range

\* No name stops the search for keywords.
LEMMA KeywordsChecked ==
  ASSUME NEW g, Shaped(g), NEW h, Completes(h, g)
  PROVE  NoKeywords(g) <=>
           /\ ~IsKeyword(h.name)
           /\ \A i \in DOMAIN Names(h.constant) : ~ConstantIsKeyword(Names(h.constant)[i])
           /\ \A i \in DOMAIN Identifiers(h) : ~IsKeyword(Identifiers(h)[i])
  <1>1. PICK cs : cs = Names(h.constant)
    OBVIOUS
  <1>2. PICK names : names = Identifiers(h)
    OBVIOUS
  <1>3. PICK D : D = TypePlaces(g) \cup FunctionPlaces(g) \cup ArgumentsOf(g)
    OBVIOUS
  <1>4. Range(cs) = {c.name : c \in Range(g.constant)}
    <2>1. cs = Names(g.constant)
      BY <1>1 DEF Completes
    <2> QED
      BY <2>1, ShapedLists, NamesAreList
  <1>5. Range(names) = {d.name : d \in D} \cup {n \in {<<"v">>} : Range(TypeNames(g)) # {}}
    BY <1>2, <1>3, IdentifierNames
  <1>6. (\A i \in DOMAIN cs : ~ConstantIsKeyword(cs[i])) <=>
          \A c \in Range(g.constant) : ~ConstantIsKeyword(c.name)
    <2>1. (\A i \in DOMAIN cs : ~ConstantIsKeyword(cs[i])) <=>
            \A n \in Range(cs) : ~ConstantIsKeyword(n)
      BY DEF Range
    <2> QED
      BY <1>4, <2>1
  <1>7. (\A i \in DOMAIN names : ~IsKeyword(names[i])) <=>
          /\ \A d \in D : ~IsKeyword(d.name)
          /\ Range(TypeNames(g)) # {} => ~IsKeyword(<<"v">>)
    <2>1. (\A i \in DOMAIN names : ~IsKeyword(names[i])) <=>
            \A n \in Range(names) : ~IsKeyword(n)
      BY DEF Range
    <2> QED
      BY <1>5, <2>1
  <1>8. h.name = g.name
    BY DEF Completes
  <1>9. NoKeywords(g) <=>
          /\ ~IsKeyword(g.name)
          /\ \A c \in Range(g.constant) : ~ConstantIsKeyword(c.name)
          /\ \A d \in D : ~IsKeyword(d.name)
          /\ Range(TypeNames(g)) # {} => ~IsKeyword(<<"v">>)
    BY <1>3 DEF NoKeywords
  <1> QED
    BY <1>1, <1>2, <1>6, <1>7, <1>8, <1>9

-----------------------------------------------------------------------------
(* What loading decides                                                    *)

\* What each pass has found of the file, and what it has made of it.
Progress ==
    LET whole == WithDefaults(file) IN
    /\ file \in Files
    /\ phase \in {"schema", "constants", "base_types", "used_types", "functions",
                  "generated", "unicity", "keywords", "accepted", "rejected"}
    /\ phase = "schema" => game = file
    /\ phase \notin {"schema", "rejected"} => {"name", "constant"} \subseteq DOMAIN file
    /\ phase = "constants" => game = whole
    /\ phase \notin {"schema", "constants", "rejected"} => ConstantsFit(whole)
    /\ phase \in {"base_types", "used_types", "functions", "generated"} =>
         Untouched(game, whole)
    /\ phase \in {"used_types", "functions", "generated", "unicity", "keywords", "accepted"} =>
         types = KnownTypes(whole)
    /\ phase \in {"functions", "generated", "unicity", "keywords", "accepted"} =>
         FieldsFit(whole) /\ SignaturesFit(whole)
    /\ phase \in {"unicity", "keywords", "accepted"} => Completes(game, whole)
    /\ phase \in {"keywords", "accepted"} =>
         EnumsFit(whole) /\ ArgumentsFit(whole) /\ NamesFit(whole)
    /\ phase = "accepted" => NoKeywords(whole)
    /\ phase = "rejected" => ~WellFormed(file)

\* A pass that rejects a file whose whole does not fit.
LEMMA RejectsUnfit ==
  ASSUME Progress, phase' = "rejected", file' = file, ~WellFormed(file)
  PROVE  Progress'
  BY DEF Progress

LEMMA WholeIsShaped ==
  ASSUME Progress, phase \notin {"schema", "rejected"}, NEW g, g = WithDefaults(file)
  PROVE  /\ Shaped(g)
         /\ WellFormed(file) <=>
              /\ ConstantsFit(g) /\ EnumsFit(g) /\ FieldsFit(g) /\ SignaturesFit(g)
              /\ ArgumentsFit(g) /\ NamesFit(g) /\ NoKeywords(g)
  <1>1. file \in Files /\ {"name", "constant"} \subseteq DOMAIN file
    BY DEF Progress
  <1>2. Shaped(g)
    BY <1>1, ShapedFile
  <1> QED
    BY <1>1, <1>2, WellFormedParts

LEMMA SchemaDecides ==
  ASSUME Progress, ValidateSchema
  PROVE  Progress'
  <1>1. PICK g : g = WithDefaults(file)
    OBVIOUS
  <1>2. file \in Files /\ game = file /\ file' = file /\ game' = g
    BY <1>1 DEF Progress, ValidateSchema
  <1>3. CASE phase' = "constants"
    <2>1. {"name", "constant"} \subseteq DOMAIN g
      BY <1>1, <1>2, <1>3 DEF ValidateSchema, SchemaAccepts
    <2>2. {"name", "constant"} \subseteq DOMAIN file
      BY <1>1, <2>1 DEF WithDefaults, Lists
    <2> QED
      BY <1>1, <1>2, <1>3, <2>2 DEF Progress
  <1>4. CASE phase' = "rejected"
    <2>1. SUFFICES ASSUME WellFormed(file) PROVE FALSE
      BY <1>2, <1>4, RejectsUnfit
    <2>2. {"name", "constant"} \subseteq DOMAIN file
      BY <2>1 DEF WellFormed
    <2>3. Shaped(g)
      BY <1>1, <1>2, <2>2, ShapedFile
    <2>4. EnumsFit(g) /\ FieldsFit(g) /\ SignaturesFit(g)
      BY <1>1, <2>1, <2>2, <2>3, WellFormedParts
    <2>5. {"name", "constant"} \cup Lists \subseteq DOMAIN g
      BY <1>1, <2>2 DEF WithDefaults
    <2>6. \A e \in Range(g.enum) : FitsSchema(e.fields, 2)
      BY <2>4 DEF EnumsFit, FitsSchema, Range
    <2>7. \A s \in Range(g.struct) : FitsSchema(s.fields, 3)
      BY <2>4 DEF FieldsFit, EntryFits, FitsSchema, Range
    <2>8. \A f \in Range(AllFunctions(g)) : FitsSchema(f.args, 3)
      <3>1. Range(AllFunctions(g)) = ListedFunctions(g)
        BY <2>3, AllFunctionsOf DEF Shaped, ListedFunctions
      <3> QED
        BY <2>4, <3>1 DEF SignaturesFit, EntryFits, FitsSchema, Range
    <2>9. SchemaAccepts(g)
      BY <2>5, <2>6, <2>7, <2>8 DEF SchemaAccepts
    <2> QED
      BY <1>1, <1>2, <1>4, <2>9 DEF ValidateSchema
  <1> QED
    BY <1>3, <1>4 DEF ValidateSchema

LEMMA ConstantsDecide ==
  ASSUME Progress, LoadConstants
  PROVE  Progress'
  <1>1. PICK g : g = WithDefaults(file)
    OBVIOUS
  <1>2. /\ phase = "constants" /\ file \in Files /\ game = g /\ file' = file
        /\ {"name", "constant"} \subseteq DOMAIN file
    BY <1>1 DEF Progress, LoadConstants, Reject
  <1>3. Shaped(g) /\ (WellFormed(file) => ConstantsFit(g))
    BY <1>1, <1>2, WholeIsShaped
  <1>4. CASE phase' # "rejected"
    <2>1. PICK cs : cs = [i \in DOMAIN g.constant |-> Typed(g.constant[i])]
      OBVIOUS
    <2>2. /\ phase' = "base_types" /\ game' = [g EXCEPT !.constant = cs]
          /\ \A i \in DOMAIN g.constant : ~ConstantIsWrong(g.constant[i])
      BY <1>2, <1>4, <2>1 DEF LoadConstants, Reject
    <2>3. ConstantsFit(g)
      BY <2>2 DEF ConstantsFit, Range
    <2>4. PICK l : l = g.constant
      OBVIOUS
    <2>5. IsList(l) /\ cs = [i \in DOMAIN l |-> Typed(l[i])]
      BY <1>3, <2>1, <2>4, ShapedLists
    <2>6. \A i \in DOMAIN l : "name" \in DOMAIN l[i]
      <3>1. l = file.constant
        BY <1>1, <1>2, <2>4 DEF WithDefaults
      <3>2. \A c \in Range(l) : "name" \in DOMAIN c
        BY <1>2, <3>1, FilesAssumption
      <3> QED
        BY <3>2 DEF Range
    <2>7. IsList(cs) /\ DOMAIN cs = DOMAIN l
      <3>1. cs = [i \in DOMAIN l |-> cs[i]]
        BY <2>5
      <3> QED
        BY <2>5, <3>1, AlongList
    <2>8. \A i \in DOMAIN l : cs[i].name = l[i].name
      BY <2>5, <2>6 DEF Typed
    <2>9. Names(cs) = Names(l)
      BY <2>7, <2>8 DEF Names
    <2>10. DOMAIN g = DOMAIN file \cup Lists
      BY <1>1 DEF WithDefaults
    <2>11. /\ game'.constant = cs /\ DOMAIN game' = DOMAIN g
           /\ \A k \in DOMAIN g : k # "constant" => game'[k] = g[k]
      BY <1>2, <2>2, <2>10
    <2>12. /\ game'.enum = g.enum /\ game'.struct = g.struct /\ game'.name = g.name
           /\ game'.function = g.function /\ game'.user_function = g.user_function
           /\ "function" \in DOMAIN game'
      BY <1>2, <2>10, <2>11 DEF Lists
    <2>13. Untouched(game', g)
      BY <2>4, <2>7, <2>9, <2>11, <2>12 DEF Untouched
    <2> QED
      BY <1>1, <1>2, <2>2, <2>3, <2>13 DEF Progress
  <1>5. CASE phase' = "rejected"
    <2>1. \E i \in DOMAIN g.constant : ConstantIsWrong(g.constant[i])
      BY <1>2, <1>5 DEF LoadConstants, Reject, IsFirst
    <2>2. ~ConstantsFit(g)
      BY <2>1 DEF ConstantsFit, Range
    <2> QED
      BY <1>2, <1>3, <1>5, <2>2, RejectsUnfit
  <1> QED
    BY <1>4, <1>5

LEMMA BaseTypesDecide ==
  ASSUME Progress, LoadBaseTypes
  PROVE  Progress'
  <1>1. PICK g : g = WithDefaults(file)
    OBVIOUS
  <1>2. phase = "base_types" /\ Untouched(game, g) /\ file' = file
    BY <1>1 DEF Progress, LoadBaseTypes, Reject
  <1>3. Shaped(g) /\ (WellFormed(file) => NamesFit(g))
    BY <1>1, <1>2, WholeIsShaped
  <1>4. PICK names : names = TypeNames(g)
    OBVIOUS
  <1>5. TypeNames(game) = names
    BY <1>2, <1>4 DEF TypeNames, Untouched
  <1>6. CASE phase' # "rejected"
    <2>1. phase' = "used_types" /\ types' = Builtin \cup Range(names) /\ game' = game
      BY <1>5, <1>6 DEF LoadBaseTypes, Reject
    <2> QED
      BY <1>1, <1>2, <1>4, <2>1 DEF Progress, KnownTypes
  <1>7. CASE phase' = "rejected"
    <2>1. PICK i \in DOMAIN names :
            names[i] \in Builtin \/ \E j \in 1 .. i - 1 : names[j] = names[i]
      BY <1>5, <1>7 DEF LoadBaseTypes, Reject, IsFirst
    <2>2. IsList(names)
      BY <1>3, <1>4, NamesOfDisplays
    <2>3. DOMAIN names = 1 .. Len(names) /\ Len(names) \in Nat
      BY <2>2, ListLength
    <2>4. names[i] \in Builtin \/ ~NoneTwice(names)
      BY <2>1, <2>3 DEF NoneTwice
    <2>5. ~NamesFit(g)
      BY <1>3, <1>4, <2>4, ListsOfDeclarations DEF Range
    <2> QED
      BY <1>2, <1>3, <1>7, <2>5, RejectsUnfit
  <1> QED
    BY <1>6, <1>7

LEMMA UsedTypesDecide ==
  ASSUME Progress, LoadUsedTypes
  PROVE  Progress'
  <1>1. PICK g : g = WithDefaults(file)
    OBVIOUS
  <1>2. /\ phase = "used_types" /\ Untouched(game, g) /\ types = KnownTypes(g)
        /\ file' = file
    BY <1>1 DEF Progress, LoadUsedTypes, Reject, RejectEntry
  <1>3. Shaped(g) /\ (WellFormed(file) => FieldsFit(g) /\ SignaturesFit(g))
    BY <1>1, <1>2, WholeIsShaped
  <1>4. /\ (\A i \in DOMAIN game.struct : ~FieldsAreWrong(game.struct[i])) <=> FieldsFit(g)
        /\ (\A i \in DOMAIN AllFunctions(game) : ~SignatureIsWrong(AllFunctions(game)[i]))
             <=> SignaturesFit(g)
    BY <1>2, <1>3, UsedChecked
  <1>5. CASE phase' # "rejected"
    <2>1. /\ phase' = "functions" /\ game' = game /\ types' = types
          /\ \A i \in DOMAIN game.struct : ~FieldsAreWrong(game.struct[i])
          /\ \A i \in DOMAIN AllFunctions(game) : ~SignatureIsWrong(AllFunctions(game)[i])
      BY <1>5 DEF LoadUsedTypes, Reject, RejectEntry
    <2> QED
      BY <1>1, <1>2, <1>4, <2>1 DEF Progress
  <1>6. CASE phase' = "rejected"
    <2>1. \/ \E i \in DOMAIN game.struct : FieldsAreWrong(game.struct[i])
          \/ \E i \in DOMAIN AllFunctions(game) : SignatureIsWrong(AllFunctions(game)[i])
      BY <1>6 DEF LoadUsedTypes, IsFirst
    <2> QED
      BY <1>2, <1>3, <1>4, <1>6, <2>1, RejectsUnfit
  <1> QED
    BY <1>5, <1>6

LEMMA FunctionsDecide ==
  ASSUME Progress, LoadFunctions
  PROVE  Progress'
  <1>1. PICK g : g = WithDefaults(file)
    OBVIOUS
  <1>2. phase = "functions" /\ Untouched(game, g) /\ file' = file
    BY <1>1 DEF Progress, LoadFunctions, Reject
  <1>3. Shaped(g) /\ (WellFormed(file) => NamesFit(g))
    BY <1>1, <1>2, WholeIsShaped
  <1>4. PICK names : names = Names(AllFunctions(g))
    OBVIOUS
  <1>5. Names(AllFunctions(game)) = names
    <2>1. AllFunctions(game) = AllFunctions(g)
      BY <1>2 DEF AllFunctions, Untouched
    <2> QED
      BY <1>4, <2>1
  <1>6. CASE phase' # "rejected"
    <2>1. phase' = "generated" /\ types' = types /\ game' = game
      BY <1>6 DEF LoadFunctions, Reject
    <2> QED
      BY <1>2, <2>1 DEF Progress
  <1>7. CASE phase' = "rejected"
    <2>1. PICK i \in DOMAIN names : \E j \in 1 .. i - 1 : names[j] = names[i]
      BY <1>5, <1>7 DEF LoadFunctions, Reject, IsFirst
    <2>2. IsList(names)
      <3>1. IsList(AllFunctions(g))
        BY <1>3, ShapedLists, JoinedLists DEF AllFunctions
      <3> QED
        BY <1>4, <3>1, NamesAreList
    <2>3. DOMAIN names = 1 .. Len(names) /\ Len(names) \in Nat
      BY <2>2, ListLength
    <2>4. ~NoneTwice(names)
      BY <2>1, <2>3 DEF NoneTwice
    <2>5. ~NamesFit(g)
      BY <1>3, <1>4, <2>4, ListsOfDeclarations
    <2> QED
      BY <1>2, <1>3, <1>7, <2>5, RejectsUnfit
  <1> QED
    BY <1>6, <1>7

LEMMA GeneratedComplete ==
  ASSUME Progress, LoadGeneratedFunctions
  PROVE  Progress'
  <1>1. PICK g : g = WithDefaults(file)
    OBVIOUS
  <1>2. /\ phase = "generated" /\ phase' = "unicity" /\ Untouched(game, g)
        /\ UNCHANGED <<file, types>>
        /\ game' = [game EXCEPT !.function = game.function \o Displays(game)]
    BY <1>1 DEF Progress, LoadGeneratedFunctions
  <1>3. Displays(game) = Displays(g)
    <2>1. TypeNames(game) = TypeNames(g)
      BY <1>2 DEF TypeNames, Untouched
    <2> QED
      BY <2>1 DEF Displays
  <1>4. PICK fs : fs = g.function \o Displays(g)
    OBVIOUS
  <1>5. game' = [game EXCEPT !.function = fs]
    BY <1>2, <1>3, <1>4 DEF Untouched
  <1>6. Completes(game', g)
    <2>1. game'.function = fs
      BY <1>2, <1>5 DEF Untouched
    <2>2. /\ game'.enum = game.enum /\ game'.struct = game.struct /\ game'.name = game.name
          /\ game'.constant = game.constant /\ game'.user_function = game.user_function
      BY <1>5
    <2>3. /\ game'.enum = g.enum /\ game'.struct = g.struct /\ game'.name = g.name
          /\ game'.user_function = g.user_function
      BY <1>2, <2>2 DEF Untouched
    <2>4. IsList(game'.constant) /\ Names(game'.constant) = Names(g.constant)
      BY <1>2, <2>2 DEF Untouched
    <2> QED
      BY <1>4, <2>1, <2>3, <2>4 DEF Completes
  <1> QED
    BY <1>1, <1>2, <1>6 DEF Progress

LEMMA UnicityDecides ==
  ASSUME Progress, CheckNameUnicity
  PROVE  Progress'
  <1>1. PICK g : g = WithDefaults(file)
    OBVIOUS
  <1>2. /\ phase = "unicity" /\ Completes(game, g) /\ types = KnownTypes(g)
        /\ file' = file
    BY <1>1 DEF Progress, CheckNameUnicity, Reject
  <1>3. /\ Shaped(g)
        /\ WellFormed(file) => EnumsFit(g) /\ ArgumentsFit(g) /\ NamesFit(g)
    BY <1>1, <1>2, WholeIsShaped
  <1> DEFINE Short == \E e \in Range(game.enum) : \E i \in DOMAIN e.fields :
                         ~Unpacks(e.fields[i], 2)
  <1>4. Short <=> ~EnumsFit(g)
    <2>1. game.enum = g.enum
      BY <1>2 DEF Completes
    <2> QED
      BY <2>1 DEF EnumsFit, Unpacks, Range
  <1>5. (\A i \in DOMAIN AllFunctions(game) : ~ArgumentsAreWrong(AllFunctions(game)[i]))
          <=> ArgumentsFit(g)
    BY <1>2, <1>3, ArgumentsChecked
  <1>6. NoneTwice(NameUses(game)) <=> NamesFit(g)
    BY <1>2, <1>3, NoConflict DEF NamesFit
  <1>7. CASE phase' # "rejected"
    <2>1. /\ phase' = "keywords" /\ game' = game /\ types' = types /\ ~Short
          /\ \A i \in DOMAIN AllFunctions(game) : ~ArgumentsAreWrong(AllFunctions(game)[i])
          /\ \A i \in DOMAIN NameUses(game) :
               ~\E j \in DOMAIN NameUses(game) : j # i /\ NameUses(game)[j] = NameUses(game)[i]
      BY <1>7 DEF CheckNameUnicity, Reject
    <2>2. NoneTwice(NameUses(game))
      BY <2>1 DEF NoneTwice
    <2> HIDE DEF Short
    <2> QED
      BY <1>1, <1>2, <1>4, <1>5, <1>6, <2>1, <2>2 DEF Progress
  <1>8. CASE phase' = "rejected"
    <2>1. \/ Short
          \/ \E i \in DOMAIN AllFunctions(game) : ArgumentsAreWrong(AllFunctions(game)[i])
          \/ \E i, j \in DOMAIN NameUses(game) : j # i /\ NameUses(game)[j] = NameUses(game)[i]
      BY <1>8 DEF CheckNameUnicity, Reject, IsFirst
    <2>2. ~EnumsFit(g) \/ ~ArgumentsFit(g) \/ ~NoneTwice(NameUses(game))
      <3> HIDE DEF Short
      <3> QED
        BY <1>4, <1>5, <2>1 DEF NoneTwice
    <2> QED
      BY <1>2, <1>3, <1>6, <1>8, <2>2, RejectsUnfit
  <1> QED
    BY <1>7, <1>8

LEMMA KeywordsDecide ==
  ASSUME Progress, CheckReservedKeywords
  PROVE  Progress'
  <1>1. PICK g : g = WithDefaults(file)
    OBVIOUS
  <1>2. /\ phase = "keywords" /\ Completes(game, g) /\ file' = file
    BY <1>1 DEF Progress, CheckReservedKeywords, Reject
  <1>3. Shaped(g) /\ (WellFormed(file) => NoKeywords(g))
    BY <1>1, <1>2, WholeIsShaped
  <1> DEFINE Free ==
               /\ ~IsKeyword(game.name)
               /\ \A i \in DOMAIN Names(game.constant) :
                    ~ConstantIsKeyword(Names(game.constant)[i])
               /\ \A i \in DOMAIN Identifiers(game) : ~IsKeyword(Identifiers(game)[i])
  <1>4. NoKeywords(g) <=> Free
    BY <1>2, <1>3, KeywordsChecked
  <1>5. CASE phase' # "rejected"
    <2>1. phase' = "accepted" /\ game' = game /\ types' = types /\ Free
      BY <1>5 DEF CheckReservedKeywords, Reject
    <2> HIDE DEF Free
    <2> QED
      BY <1>1, <1>2, <1>4, <2>1 DEF Progress
  <1>6. CASE phase' = "rejected"
    <2>1. ~Free
      BY <1>6 DEF CheckReservedKeywords, Reject, IsFirst
    <2> HIDE DEF Free
    <2> QED
      BY <1>2, <1>3, <1>4, <1>6, <2>1, RejectsUnfit
  <1> QED
    BY <1>5, <1>6

LEMMA ProgressInvariant == Spec => []Progress
  <1>1. Init => Progress
    BY DEF Init, Progress
  <1>2. Progress /\ [Next]_vars => Progress'
    <2> SUFFICES ASSUME Progress, [Next]_vars PROVE Progress'
      OBVIOUS
    <2>1. CASE UNCHANGED vars
      BY <2>1 DEF Progress, vars
    <2> QED
      BY <2>1, SchemaDecides, ConstantsDecide, BaseTypesDecide, UsedTypesDecide,
         FunctionsDecide, GeneratedComplete, UnicityDecides, KeywordsDecide
         DEF Next, Terminated
  <1> QED
    BY <1>1, <1>2, PTL DEF Spec

\* Whatever the file, the passes accept it when it is well formed and reject it
\* when it is not: no pass relies on something that a later one establishes, and
\* nothing that is well formed is lost on the way.
THEOREM LoadingDecides == Spec => []LoaderDecides
  <1>1. Progress => LoaderDecides
    <2> SUFFICES ASSUME Progress PROVE LoaderDecides
      OBVIOUS
    <2>1. ASSUME phase = "accepted" PROVE WellFormed(file)
      <3>1. PICK g : g = WithDefaults(file)
        OBVIOUS
      <3>2. /\ ConstantsFit(g) /\ EnumsFit(g) /\ FieldsFit(g) /\ SignaturesFit(g)
            /\ ArgumentsFit(g) /\ NamesFit(g) /\ NoKeywords(g)
        BY <2>1, <3>1 DEF Progress
      <3> QED
        BY <2>1, <3>1, <3>2, WholeIsShaped
    <2>2. ASSUME phase = "rejected" PROVE ~WellFormed(file)
      BY <2>2 DEF Progress
    <2> QED
      BY <2>1, <2>2 DEF LoaderDecides
  <1> QED
    BY <1>1, ProgressInvariant, PTL

-----------------------------------------------------------------------------
(* The types of an accepted game                                           *)

IsType(t) == t = [base |-> t.base, array |-> t.array] /\ t.array \in BOOLEAN

\* What the generators may rely on.
SoundGame ==
    /\ Shaped(game)
    /\ \A name \in Range(TypeNames(game)) : IsList(name) /\ Range(name) \cap Signs = {}
    /\ DeclaredOnce(game)
    /\ types = KnownTypes(game)
    /\ \A t \in TypesUsedBy(game) : IsType(t) /\ t.base \in types
    /\ {t \in TypesUsedBy(game) : t.array} \subseteq usedTypes

\* The pass over used types keeps those of the file.
UsedTypesKept ==
    phase \in {"functions", "generated", "unicity", "keywords", "accepted"} =>
       usedTypes = TypesUsedBy(WithDefaults(file))

\* Passes that leave the declarations alone leave the types used.
LEMMA SameTypesUsed ==
  ASSUME NEW g, NEW h, Untouched(h, g)
  PROVE  TypesUsedBy(h) = TypesUsedBy(g)
  <1>1. AllFunctions(h) = AllFunctions(g)
    BY DEF Untouched, AllFunctions
  <1>2. h.struct = g.struct
    BY DEF Untouched
  <1> QED
    BY <1>1, <1>2 DEF TypesUsedBy

\* What used_types holds after its pass is what the file uses.
LEMMA UsedTypesInvariant == Spec => []UsedTypesKept
  <1>1. Init => UsedTypesKept
    BY DEF Init, UsedTypesKept
  <1>2. Progress /\ UsedTypesKept /\ [Next]_vars => UsedTypesKept'
    <2> SUFFICES ASSUME Progress, UsedTypesKept, [Next]_vars PROVE UsedTypesKept'
      OBVIOUS
    <2>1. CASE LoadUsedTypes
      <3>1. CASE phase' = "rejected"
        BY <3>1 DEF UsedTypesKept
      <3>2. CASE phase' # "rejected"
        <4>1. phase = "used_types" /\ usedTypes' = TypesUsedBy(game) /\ file' = file
          BY <2>1, <3>2 DEF LoadUsedTypes, Reject, RejectEntry
        <4>2. Untouched(game, WithDefaults(file))
          BY <4>1 DEF Progress
        <4>3. TypesUsedBy(game) = TypesUsedBy(WithDefaults(file))
          BY <4>2, SameTypesUsed
        <4> QED
          BY <4>1, <4>3 DEF UsedTypesKept
      <3> QED
        BY <3>1, <3>2
    <2>2. CASE ValidateSchema
      BY <2>2 DEF ValidateSchema, UsedTypesKept
    <2>3. CASE LoadConstants
      BY <2>3 DEF LoadConstants, Reject, UsedTypesKept
    <2>4. CASE LoadBaseTypes
      BY <2>4 DEF LoadBaseTypes, Reject, UsedTypesKept
    <2>5. CASE LoadFunctions
      BY <2>5 DEF LoadFunctions, Reject, UsedTypesKept
    <2>6. CASE LoadGeneratedFunctions
      BY <2>6 DEF LoadGeneratedFunctions, UsedTypesKept
    <2>7. CASE CheckNameUnicity
      BY <2>7 DEF CheckNameUnicity, Reject, UsedTypesKept
    <2>8. CASE CheckReservedKeywords
      BY <2>8 DEF CheckReservedKeywords, Reject, UsedTypesKept
    <2>9. CASE UNCHANGED vars
      BY <2>9 DEF vars, UsedTypesKept
    <2> QED
      BY <2>1, <2>2, <2>3, <2>4, <2>5, <2>6, <2>7, <2>8, <2>9 DEF Next, Terminated
  <1> QED
    BY <1>1, <1>2, ProgressInvariant, PTL DEF Spec

\* Completing a game adds functions that display its types, and no other.
LEMMA CompletedFunctions ==
  ASSUME NEW g, Shaped(g), NEW h, Completes(h, g)
  PROVE  ListedFunctions(h) = ListedFunctions(g) \cup Range(Displays(g))
  <1>1. PICK l : l = g.function
    OBVIOUS
  <1>2. PICK k : k = g.user_function
    OBVIOUS
  <1>3. PICK d : d = Displays(g)
    OBVIOUS
  <1>4. IsList(l) /\ IsList(d)
    BY <1>1, <1>3, ShapedLists, NamesOfDisplays
  <1>5. Range(l \o d) = Range(l) \cup Range(d)
    BY <1>4, JoinedLists
  <1>6. h.function = l \o d /\ h.user_function = k
    BY <1>1, <1>2, <1>3 DEF Completes
  <1>7. ListedFunctions(h) = Range(l \o d) \cup Range(k)
    BY <1>6 DEF ListedFunctions
  <1>8. ListedFunctions(g) = Range(l) \cup Range(k)
    BY <1>1, <1>2 DEF ListedFunctions
  <1> QED
    BY <1>3, <1>5, <1>7, <1>8

\* TypesUsedBy, with the two lists of functions as one set.
LEMMA TypesUsedInGame ==
  ASSUME NEW g, Shaped(g)
  PROVE  TypesUsedBy(g) =
           {e.type : e \in UNION {Range(s.fields) : s \in Range(g.struct)}}
             \cup {f.ret : f \in ListedFunctions(g)}
             \cup {e.type : e \in ArgumentsOf(g)}
  <1>1. PICK F : F = ListedFunctions(g)
    OBVIOUS
  <1>2. Range(AllFunctions(g)) = F
    BY <1>1, AllFunctionsOf DEF Shaped, ListedFunctions
  <1>3. ArgumentsOf(g) = UNION {Range(f.args) : f \in F}
    BY <1>1 DEF ArgumentsOf
  <1> QED
    BY <1>1, <1>2, <1>3 DEF TypesUsedBy

\* Display functions only add types that are no arrays.
LEMMA CompletedTypes ==
  ASSUME NEW g, Shaped(g), NEW h, Shaped(h), Completes(h, g)
  PROVE  TypesUsedBy(h) \subseteq
           TypesUsedBy(g) \cup {Plain(<<"void">>)} \cup {Plain(n) : n \in Range(TypeNames(g))}
  <1>1. PICK D : D = Range(Displays(g))
    OBVIOUS
  <1>2. ListedFunctions(h) = ListedFunctions(g) \cup D
    BY <1>1, CompletedFunctions
  <1>3. h.struct = g.struct
    BY DEF Completes
  <1>4. ArgumentsOf(h) = ArgumentsOf(g) \cup (UNION {Range(f.args) : f \in D})
    BY <1>2 DEF ArgumentsOf
  <1>5. \A f \in D : /\ f.ret = Plain(<<"void">>)
                     /\ \A e \in Range(f.args) :
                           e.type \in {Plain(n) : n \in Range(TypeNames(g))}
    <2>1. HasLists(g)
      BY DEF Shaped
    <2> QED
      BY <1>1, <2>1, DisplaysUse
  <1> DEFINE S == {e.type : e \in UNION {Range(s.fields) : s \in Range(g.struct)}}
  <1>6. /\ TypesUsedBy(h) = S \cup {f.ret : f \in ListedFunctions(h)}
                              \cup {e.type : e \in ArgumentsOf(h)}
        /\ TypesUsedBy(g) = S \cup {f.ret : f \in ListedFunctions(g)}
                              \cup {e.type : e \in ArgumentsOf(g)}
    BY <1>3, TypesUsedInGame
  <1> HIDE DEF S
  <1> QED
    BY <1>2, <1>4, <1>5, <1>6

\* Every accepted game is sound.
LEMMA AcceptedIsSound ==
  ASSUME Progress, LoaderInv, UsedTypesKept, phase = "accepted"
  PROVE  SoundGame
  <1>1. PICK g : g = WithDefaults(file)
    OBVIOUS
  <1>2. /\ file \in Files /\ {"name", "constant"} \subseteq DOMAIN file
        /\ Completes(game, g) /\ types = KnownTypes(g)
    BY <1>1 DEF Progress
  <1>3. Shaped(g)
    BY <1>1, <1>2, ShapedFile
  <1>4. HasLists(game) /\ "constant" \in DOMAIN game /\ DeclaredOnce(game) /\ Resolved(game)
    BY DEF LoaderInv
  <1>5. ListedFunctions(game) = ListedFunctions(g) \cup Range(Displays(g))
    BY <1>2, <1>3, CompletedFunctions
  <1>6. Shaped(game)
    <2>1. \A t \in Range(game.enum) : IsList(t.fields)
      <3>1. game.enum = g.enum
        BY <1>2 DEF Completes
      <3> QED
        BY <1>3, <3>1 DEF Shaped
    <2>2. \A t \in Range(game.struct) : IsList(t.fields)
      <3>1. game.struct = g.struct
        BY <1>2 DEF Completes
      <3> QED
        BY <1>3, <3>1 DEF Shaped
    <2>3. \A f \in ListedFunctions(game) : IsList(f.args)
      <3>1. \A f \in ListedFunctions(g) : IsList(f.args)
        BY <1>3 DEF Shaped, ListedFunctions
      <3> QED
        BY <1>5, <3>1, DisplayArguments
    <2>4. IsList(game.constant)
      BY <1>2 DEF Completes
    <2> QED
      BY <1>4, <2>1, <2>2, <2>3, <2>4 DEF Shaped, ListedFunctions
  <1>7. TypeNames(game) = TypeNames(g)
    <2>1. game.enum = g.enum
      BY <1>2 DEF Completes
    <2>2. game.struct = g.struct
      BY <1>2 DEF Completes
    <2> QED
      BY <2>1, <2>2 DEF TypeNames
  <1>8. \A name \in Range(TypeNames(game)) : IsList(name) /\ Range(name) \cap Signs = {}
    BY <1>1, <1>2, <1>7, TypesAssumption
  <1>9. types = KnownTypes(game)
    BY <1>2, <1>7 DEF KnownTypes
  <1>10. TypesUsedBy(game) \subseteq
           TypesUsedBy(g) \cup {Plain(<<"void">>)} \cup {Plain(n) : n \in Range(TypeNames(g))}
    BY <1>2, <1>3, <1>6, CompletedTypes
  <1>11. \A t \in TypesUsedBy(g) : IsType(t)
    BY <1>1, <1>2, TypesAssumption DEF IsType
  <1>12. ASSUME NEW t \in TypesUsedBy(game) PROVE IsType(t) /\ t.base \in types
    <2>1. t.base \in types
      BY <1>4 DEF Resolved
    <2>2. IsType(t)
      <3>1. ASSUME NEW n, t = Plain(n) PROVE IsType(t)
        BY <3>1 DEF IsType, Plain
      <3>2. CASE t \in TypesUsedBy(g)
        BY <1>11, <3>2
      <3>3. CASE t \notin TypesUsedBy(g)
        BY <1>10, <3>1, <3>3
      <3> QED
        BY <3>2, <3>3
    <2> QED
      BY <2>1, <2>2
  <1>13. {t \in TypesUsedBy(game) : t.array} \subseteq usedTypes
    <2>1. usedTypes = TypesUsedBy(g)
      BY <1>1 DEF UsedTypesKept
    <2> QED
      BY <1>10, <2>1 DEF Plain
  <1> QED
    BY <1>4, <1>6, <1>8, <1>9, <1>12, <1>13 DEF SoundGame

\* A known name is a builtin type, a struct or an enum, and only one of them.
LEMMA NameKinds ==
  ASSUME SoundGame, NEW b \in types
  PROVE  \/ b \in Builtin /\ ~IsStruct(Plain(b)) /\ ~IsEnum(Plain(b))
         \/ b \notin Builtin /\ IsStruct(Plain(b)) /\ ~IsEnum(Plain(b))
         \/ b \notin Builtin /\ ~IsStruct(Plain(b)) /\ IsEnum(Plain(b))
  <1>1. PICK l : l = game.enum
    OBVIOUS
  <1>2. PICK k : k = game.struct
    OBVIOUS
  <1>3. IsList(l) /\ IsList(k)
    BY <1>1, <1>2, ShapedLists DEF SoundGame
  <1>4. PICK p : p = Names(l)
    OBVIOUS
  <1>5. PICK q : q = Names(k)
    OBVIOUS
  <1>6. /\ IsList(p) /\ Range(p) = {e.name : e \in Range(l)}
        /\ IsList(q) /\ Range(q) = {e.name : e \in Range(k)}
    BY <1>3, <1>4, <1>5, NamesAreList
  <1>7. TypeNames(game) = p \o q
    BY <1>1, <1>2, <1>4, <1>5 DEF TypeNames
  <1>8. IsEnum(Plain(b)) <=> b \in Range(p)
    BY <1>1, <1>6 DEF IsEnum, Plain
  <1>9. IsStruct(Plain(b)) <=> b \in Range(q)
    BY <1>2, <1>6 DEF IsStruct, Plain
  <1>10. /\ \A t \in Range(p \o q) : t \notin Builtin
         /\ \A i, j \in DOMAIN (p \o q) : (p \o q)[i] = (p \o q)[j] => i = j
         /\ types = Builtin \cup Range(p \o q)
    BY <1>7 DEF SoundGame, DeclaredOnce, KnownTypes
  <1>11. /\ Range(p \o q) = Range(p) \cup Range(q)
         /\ DOMAIN (p \o q) = 1 .. Len(p) + Len(q)
         /\ \A i \in 1 .. Len(p) : (p \o q)[i] = p[i]
         /\ \A i \in 1 .. Len(q) : (p \o q)[Len(p) + i] = q[i]
    BY <1>6, JoinedLists
  <1>12. ASSUME b \in Range(p), b \in Range(q) PROVE FALSE
    <2>1. /\ Len(p) \in Nat /\ DOMAIN p = 1 .. Len(p)
          /\ Len(q) \in Nat /\ DOMAIN q = 1 .. Len(q)
      BY <1>6, ListLength
    <2>2. PICK i \in 1 .. Len(p) : p[i] = b
      BY <1>12, <2>1 DEF Range
    <2>3. PICK j \in 1 .. Len(q) : q[j] = b
      BY <1>12, <2>1 DEF Range
    <2>4. i \in DOMAIN (p \o q) /\ Len(p) + j \in DOMAIN (p \o q) /\ i # Len(p) + j
      BY <1>11, <2>1
    <2> QED
      BY <1>10, <1>11, <2>2, <2>3, <2>4
  <1> QED
    BY <1>8, <1>9, <1>10, <1>11, <1>12

\* Names of types and arrays of them are told apart.
LEMMA DeclaredTypes ==
  ASSUME NEW b
  PROVE  /\ IsStruct(Plain(b)) <=> Plain(b) \in Structs
         /\ IsEnum(Plain(b)) <=> Plain(b) \in Enums
         /\ ~IsStruct(ArrayOf(b)) /\ ~IsEnum(ArrayOf(b))
         /\ Plain(b).base = b /\ ArrayOf(b).base = b
         /\ Plain(b).array = FALSE /\ ArrayOf(b).array = TRUE
         /\ Element(Plain(b)) = Plain(b) /\ Element(ArrayOf(b)) = Plain(b)
         /\ \A c : (Plain(b) = Plain(c) \/ ArrayOf(b) = ArrayOf(c)) => b = c
         /\ \A c : Plain(b) # ArrayOf(c)
  <1>1. /\ Plain(b).base = b /\ ArrayOf(b).base = b
        /\ Plain(b).array = FALSE /\ ArrayOf(b).array = TRUE
    BY DEF Plain, ArrayOf
  <1>2. \A c : (Plain(b) = Plain(c) \/ ArrayOf(b) = ArrayOf(c)) => b = c
    BY DEF Plain, ArrayOf
  <1>3. \A c : Plain(b) # ArrayOf(c)
    BY DEF Plain, ArrayOf
  <1>4. IsStruct(Plain(b)) <=> Plain(b) \in Structs
    BY <1>1, <1>2 DEF IsStruct, Structs
  <1>5. IsEnum(Plain(b)) <=> Plain(b) \in Enums
    BY <1>1, <1>2 DEF IsEnum, Enums
  <1>6. ~IsStruct(ArrayOf(b)) /\ ~IsEnum(ArrayOf(b))
    BY <1>1 DEF IsStruct, IsEnum
  <1> QED
    BY <1>1, <1>2, <1>3, <1>4, <1>5, <1>6 DEF Element

\* A type is a name or an array of a name.
LEMMA TypeShape ==
  ASSUME NEW t, IsType(t)
  PROVE  t = Plain(t.base) \/ t = ArrayOf(t.base)
  BY DEF IsType, Plain, ArrayOf

\* The names of built-in types are made of one word each.
LEMMA BuiltinNamesAre ==
  Builtin = {<<"void">>, <<"int">>, <<"double">>, <<"bool">>, <<"string">>}
  BY DEF Builtin, BuiltinNames, Range

-----------------------------------------------------------------------------
(* The two sides of the bindings                                           *)

\* Names that values can be of.
ValueNames == types \ {<<"void">>}

\* What C makes of a value is an instance of its templates, item by item.
LEMMA CItems ==
  ASSUME SoundGame, NEW b \in ValueNames
  PROVE  /\ <<CType(Plain(b)), CInternalCxxType(Plain(b))>> \in CTemplates
         /\ CInternalCxxType(ArrayOf(b)) = Vector(CInternalCxxType(Plain(b)))
  <1>1. b \in types /\ b # <<"void">>
    BY DEF ValueNames
  <1>2. CInternalCxxType(ArrayOf(b)) = Vector(CInternalCxxType(Plain(b)))
    BY DeclaredTypes DEF CInternalCxxType
  <1>3. CASE b \in {<<"int">>, <<"double">>, <<"bool">>}
    <2>1. b \in Builtin /\ b # <<"string">>
      BY <1>3, BuiltinNamesAre
    <2>2. ~IsStruct(Plain(b)) /\ Plain(b) \in Scalars /\ Plain(b) # StringType
      <3>1. ~IsStruct(Plain(b))
        BY <1>1, <2>1, NameKinds
      <3>2. Plain(b) # StringType
        BY <2>1, DeclaredTypes DEF StringType
      <3>3. Plain(b) \in Scalars
        BY <1>3 DEF Scalars, IntType, DoubleType, BoolType
      <3> QED
        BY <3>1, <3>2, <3>3
    <2>3. CType(Plain(b)) = b /\ CxxType(Plain(b)) = b /\ CInternalCxxType(Plain(b)) = b
      BY <2>1, <2>2, DeclaredTypes DEF CType, CxxType, CInternalCxxType
    <2> QED
      BY <1>2, <2>2, <2>3 DEF CTemplates
  <1>4. CASE b = <<"string">>
    <2>1. b \in Builtin
      BY <1>4, BuiltinNamesAre
    <2>2. ~IsStruct(Plain(b)) /\ Plain(b) = StringType
      BY <1>1, <1>4, <2>1, NameKinds DEF StringType
    <2>3. CType(Plain(b)) = <<"char*">> /\ CInternalCxxType(Plain(b)) = <<"std::string">>
      BY <1>4, <2>2, DeclaredTypes DEF CType, CxxType, CInternalCxxType
    <2> QED
      BY <1>2, <2>3 DEF CTemplates
  <1>5. CASE b \notin Builtin
    <2>1. b # <<"string">>
      BY <1>5, BuiltinNamesAre
    <2>2. Plain(b) # StringType
      BY <2>1, DeclaredTypes DEF StringType
    <2>3. CASE IsStruct(Plain(b))
      <3>1. CType(Plain(b)) = b /\ CInternalCxxType(Plain(b)) = <<"internal">> \o b
        BY <2>2, <2>3, DeclaredTypes DEF CType, CInternalCxxType
      <3>2. Plain(b) \in Structs /\ Plain(b).base = b
        BY <2>3, DeclaredTypes
      <3>3. <<b, <<"internal">> \o b>> \in {<<t.base, <<"internal">> \o t.base>> : t \in Structs}
        BY <3>2
      <3> QED
        BY <1>2, <3>1, <3>3 DEF CTemplates
    <2>4. CASE IsEnum(Plain(b)) /\ ~IsStruct(Plain(b))
      <3>1. /\ CType(Plain(b)) = b /\ CxxType(Plain(b)) = b
            /\ CInternalCxxType(Plain(b)) = b
        BY <2>1, <2>2, <2>4, DeclaredTypes DEF CType, CxxType, CInternalCxxType
      <3>2. Plain(b) \in Enums
        BY <2>4, DeclaredTypes
      <3>3. <<b, b>> \in {<<CxxType(t), CxxType(t)>> : t \in Scalars \cup Enums}
        BY <3>1, <3>2
      <3> QED
        BY <1>2, <3>1, <3>3 DEF CTemplates
    <2> QED
      BY <1>1, <1>5, <2>3, <2>4, NameKinds
  <1> QED
    BY <1>1, <1>3, <1>4, <1>5, BuiltinNamesAre

\* A value of C, of Haskell and of the fields of their structs.
LEMMA CFits ==
  ASSUME SoundGame, NEW b \in ValueNames, NEW t \in {Plain(b), ArrayOf(b)}
  PROVE  /\ Fits(CType(t), CConversion(t), CInternalCxxType(t), CTemplates)
         /\ Fits(CptrType(t), CptrConversion(t, TRUE), CInternalCxxType(t), HaskellTemplates)
         /\ Fits(CType(t), CptrConversion(t, FALSE), CInternalCxxType(t), HaskellTemplates)
  <1>1. PICK c : c = CType(Plain(b))
    OBVIOUS
  <1>2. PICK x : x = CInternalCxxType(Plain(b))
    OBVIOUS
  <1>3. <<c, x>> \in CTemplates /\ CInternalCxxType(ArrayOf(b)) = Vector(x)
    BY <1>1, <1>2, CItems
  <1>4. CTemplates \subseteq HaskellTemplates
    BY DEF HaskellTemplates
  <1>5. ASSUME t = ArrayOf(b)
        PROVE  /\ Fits(CType(t), CConversion(t), CInternalCxxType(t), CTemplates)
               /\ Fits(CptrType(t), CptrConversion(t, TRUE), CInternalCxxType(t), HaskellTemplates)
               /\ Fits(CType(t), CptrConversion(t, FALSE), CInternalCxxType(t), HaskellTemplates)
    <2>1. t.array /\ Element(t) = Plain(b)
      BY <1>5, DeclaredTypes
    <2>2. Fits(CType(t), CConversion(t), CInternalCxxType(t), CTemplates)
      BY <1>1, <1>2, <1>3, <1>5, <2>1 DEF Fits, CConversion, ArrayConversion
    <2>3. Fits(CptrType(t), CptrConversion(t, TRUE), CInternalCxxType(t), HaskellTemplates)
      BY <1>1, <1>2, <1>3, <1>4, <1>5, <2>1 DEF Fits, CptrConversion, CptrType, ArrayConversion
    <2>4. Fits(CType(t), CptrConversion(t, FALSE), CInternalCxxType(t), HaskellTemplates)
      BY <1>1, <1>2, <1>3, <1>4, <1>5, <2>1 DEF Fits, CptrConversion, ArrayConversion
    <2> QED
      BY <2>2, <2>3, <2>4
  <1>6. ASSUME t = Plain(b)
        PROVE  /\ Fits(CType(t), CConversion(t), CInternalCxxType(t), CTemplates)
               /\ Fits(CptrType(t), CptrConversion(t, TRUE), CInternalCxxType(t), HaskellTemplates)
               /\ Fits(CType(t), CptrConversion(t, FALSE), CInternalCxxType(t), HaskellTemplates)
    <2>1. ~t.array
      BY <1>6, DeclaredTypes
    <2>2. Fits(CType(t), CConversion(t), CInternalCxxType(t), CTemplates)
      BY <1>1, <1>2, <1>3, <1>6, <2>1 DEF Fits, CConversion, ItemConversion
    <2>3. Fits(CType(t), CptrConversion(t, FALSE), CInternalCxxType(t), HaskellTemplates)
      BY <1>1, <1>2, <1>3, <1>4, <1>6, <2>1 DEF Fits, CptrConversion, ItemConversion
    <2>4. <<CptrType(t), x>> \in HaskellTemplates
      <3>1. CASE IsStruct(t)
        <4>1. b \notin Builtin
          <5>1. b \in types
            BY DEF ValueNames
          <5> QED
            BY <1>6, <3>1, <5>1, NameKinds
        <4>2. c = b /\ x = <<"internal">> \o b
          <5>1. t # StringType
            BY <1>6, <4>1, BuiltinNamesAre, DeclaredTypes DEF StringType
          <5> QED
            BY <1>1, <1>2, <1>6, <3>1, <5>1, DeclaredTypes DEF CType, CInternalCxxType
        <4>3. t \in Structs /\ t.base = b
          BY <1>6, <3>1, DeclaredTypes
        <4>4. <<Pointer(b), <<"internal">> \o b>> \in
                {<<Pointer(u.base), <<"internal">> \o u.base>> : u \in Structs}
          BY <4>3
        <4>5. CptrType(t) = Pointer(b)
          BY <1>1, <1>6, <3>1, <4>2 DEF CptrType
        <4> QED
          BY <4>2, <4>4, <4>5 DEF HaskellTemplates
      <3>2. CASE ~IsStruct(t)
        BY <1>1, <1>3, <1>4, <1>6, <2>1, <3>2 DEF CptrType
      <3> QED
        BY <3>1, <3>2
    <2>5. Fits(CptrType(t), CptrConversion(t, TRUE), CInternalCxxType(t), HaskellTemplates)
      BY <1>2, <1>6, <2>1, <2>4 DEF Fits, CptrConversion, ItemConversion
    <2> QED
      BY <2>2, <2>3, <2>5
  <1> QED
    BY <1>5, <1>6

\* The built-in types are five types.
LEMMA BuiltinTypesDiffer ==
  /\ BoolType \notin {DoubleType, IntType, StringType, VoidType}
  /\ DoubleType \notin {IntType, StringType, VoidType}
  /\ IntType \notin {StringType, VoidType}
  /\ StringType # VoidType
  <1>1. \A b, c : Plain(b) = Plain(c) => b = c
    BY DeclaredTypes
  <1>2. \A x, y : <<x>> = <<y>> => x = y
    OBVIOUS
  <1>3. \A x, y : Plain(<<x>>) = Plain(<<y>>) => x = y
    BY <1>1, <1>2
  <1>4. /\ BoolType # DoubleType /\ BoolType # IntType
        /\ BoolType # StringType /\ BoolType # VoidType
    BY <1>3 DEF BoolType, DoubleType, IntType, StringType, VoidType
  <1>5. DoubleType # IntType /\ DoubleType # StringType /\ DoubleType # VoidType
    BY <1>3 DEF DoubleType, IntType, StringType, VoidType
  <1>6. IntType # StringType /\ IntType # VoidType /\ StringType # VoidType
    BY <1>3 DEF IntType, StringType, VoidType
  <1> QED
    BY <1>4, <1>5, <1>6

\* What C++ makes of a value, whatever the language.
LEMMA CxxNames ==
  ASSUME SoundGame, NEW b \in ValueNames
  PROVE  /\ CxxType(ArrayOf(b)) = Vector(CxxType(Plain(b)))
         /\ \/ /\ Plain(b) \in Scalars /\ Plain(b) # StringType /\ CxxType(Plain(b)) = b
               /\ b \in {<<"int">>, <<"double">>, <<"bool">>}
               /\ ~IsStruct(Plain(b)) /\ ~IsEnum(Plain(b))
            \/ /\ Plain(b) = StringType /\ CxxType(Plain(b)) = <<"std::string">>
               /\ ~IsStruct(Plain(b)) /\ ~IsEnum(Plain(b))
            \/ /\ Plain(b) \in Enums \cup Structs /\ CxxType(Plain(b)) = b
               /\ b \notin Builtin /\ Plain(b) \notin Scalars \cup {StringType, VoidType}
               /\ IsStruct(Plain(b)) <=> ~IsEnum(Plain(b))
  <1>1. b \in types /\ b # <<"void">>
    BY DEF ValueNames
  <1>2. CxxType(ArrayOf(b)) = Vector(CxxType(Plain(b)))
    <2>1. CASE b = <<"string">>
      <3>1. CxxType(Plain(b)) = <<"std::string">>
        BY <2>1, DeclaredTypes DEF CxxType
      <3>2. CxxType(ArrayOf(b)) = Vector(<<"std::string">>)
        BY <2>1, DeclaredTypes DEF CxxType
      <3> QED
        BY <3>1, <3>2
    <2>2. CASE b # <<"string">>
      <3>1. CxxType(Plain(b)) = b
        BY <2>2, DeclaredTypes DEF CxxType
      <3>2. CxxType(ArrayOf(b)) = Vector(b)
        BY <2>2, DeclaredTypes DEF CxxType
      <3> QED
        BY <3>1, <3>2
    <2> QED
      BY <2>1, <2>2
  <1>3. CASE b \in {<<"int">>, <<"double">>, <<"bool">>}
    <2>1. b \in Builtin /\ b # <<"string">>
      BY <1>3, BuiltinNamesAre
    <2>2. ~IsStruct(Plain(b)) /\ ~IsEnum(Plain(b))
      BY <1>1, <2>1, NameKinds
    <2>3. Plain(b) # StringType /\ CxxType(Plain(b)) = b
      BY <2>1, DeclaredTypes DEF StringType, CxxType
    <2>4. Plain(b) \in Scalars
      BY <1>3 DEF Scalars, IntType, DoubleType, BoolType
    <2> QED
      BY <1>2, <1>3, <2>2, <2>3, <2>4
  <1>4. CASE b = <<"string">>
    <2>1. b \in Builtin
      BY <1>4, BuiltinNamesAre
    <2>2. ~IsStruct(Plain(b)) /\ ~IsEnum(Plain(b))
      BY <1>1, <2>1, NameKinds
    <2>3. Plain(b) = StringType /\ CxxType(Plain(b)) = <<"std::string">>
      BY <1>4, DeclaredTypes DEF StringType, CxxType
    <2> QED
      BY <1>2, <2>2, <2>3
  <1>5. CASE b \notin Builtin
    <2>1. b \notin {<<"void">>, <<"int">>, <<"double">>, <<"bool">>, <<"string">>}
      BY <1>5, BuiltinNamesAre
    <2>2. Plain(b) \notin Scalars \cup {StringType, VoidType}
      BY <2>1, DeclaredTypes DEF Scalars, IntType, DoubleType, BoolType, StringType, VoidType
    <2>3. CxxType(Plain(b)) = b
      BY <2>1, DeclaredTypes DEF CxxType
    <2>4. /\ IsStruct(Plain(b)) <=> ~IsEnum(Plain(b))
          /\ Plain(b) \in Enums \cup Structs
      BY <1>1, <1>5, NameKinds, DeclaredTypes
    <2> QED
      BY <1>2, <1>5, <2>2, <2>3, <2>4
  <1> QED
    BY <1>1, <1>3, <1>4, <1>5, BuiltinNamesAre

\* The same for Java.
LEMMA JavaFits ==
  ASSUME SoundGame, NEW b \in ValueNames, NEW t \in {Plain(b), ArrayOf(b)}
  PROVE  Fits(JniType(t), JavaConversion(t), CxxType(t), JavaTemplates)
  <1>1. PICK x : x = CxxType(Plain(b))
    OBVIOUS
  <1>2. <<JType(Plain(b)), x>> \in JavaTemplates
    <2>1. CASE Plain(b) \in Scalars \cup {StringType}
      BY <1>1, <2>1 DEF JavaTemplates
    <2>2. CASE Plain(b) \notin Scalars \cup {StringType}
      <3>1. x = b /\ Plain(b) \in Enums \cup Structs
        BY <1>1, <2>2, CxxNames
      <3>2. JType(Plain(b)) = CamelCase(b)
        BY <2>2, DeclaredTypes DEF JType, Scalars
      <3>3. Plain(b).base = b
        BY DeclaredTypes
      <3>4. <<CamelCase(b), b>> \in {<<CamelCase(u.base), u.base>> : u \in Enums \cup Structs}
        BY <3>1, <3>3
      <3> QED
        BY <3>1, <3>2, <3>4 DEF JavaTemplates
    <2> QED
      BY <2>1, <2>2
  <1>3. CASE t = ArrayOf(b)
    <2>1. t.array /\ Element(t) = Plain(b) /\ \A c : t # Plain(c)
      BY <1>3, DeclaredTypes
    <2>2. JniType(t) = <<"jarray">>
      <3>1. t \notin {BoolType, DoubleType, IntType, StringType, VoidType}
        BY <2>1 DEF BoolType, DoubleType, IntType, StringType, VoidType
      <3> QED
        BY <2>1, <3>1 DEF JniType
    <2>3. CxxType(t) = Vector(x)
      BY <1>1, <1>3, CxxNames
    <2>4. JavaConversion(t) = ArrayConversion(<<"jarray">>, JType(Plain(b)), x)
      <3>1. t \notin Scalars \cup {StringType}
        BY <2>1 DEF Scalars, BoolType, DoubleType, IntType, StringType
      <3> QED
        BY <1>1, <2>1, <3>1 DEF JavaConversion
    <2> QED
      BY <1>2, <2>2, <2>3, <2>4 DEF Fits, ArrayConversion
  <1>4. CASE t = Plain(b)
    <2>1. ~t.array
      BY <1>4, DeclaredTypes
    <2>2. CASE t \in Scalars \cup {StringType}
      <3>1. JniType(t) = JType(t)
        <4>1. CASE t = BoolType
          BY <2>1, <4>1, BuiltinTypesDiffer DEF JniType, JType
        <4>2. CASE t = DoubleType
          BY <2>1, <4>2, BuiltinTypesDiffer DEF JniType, JType
        <4>3. CASE t = IntType
          BY <2>1, <4>3, BuiltinTypesDiffer DEF JniType, JType
        <4>4. CASE t = StringType
          BY <2>1, <4>4, BuiltinTypesDiffer DEF JniType, JType
        <4> QED
          BY <2>2, <4>1, <4>2, <4>3, <4>4 DEF Scalars
      <3> QED
        BY <1>1, <1>2, <1>4, <2>1, <2>2, <3>1 DEF Fits, JavaConversion, ItemConversion
    <2>3. CASE t \notin Scalars \cup {StringType}
      <3>1. x = b /\ t \in Enums \cup Structs /\ t # VoidType /\ t.base = b
        BY <1>1, <1>4, <2>3, CxxNames, DeclaredTypes
      <3>2. JniType(t) = <<"jobject">>
        BY <2>1, <2>3, <3>1 DEF JniType, Scalars
      <3>3. << <<"jobject">>, x>> \in {<< <<"jobject">>, u.base>> : u \in Enums \cup Structs}
        BY <3>1
      <3>4. << <<"jobject">>, x>> \in JavaTemplates
        BY <3>3 DEF JavaTemplates
      <3> QED
        BY <1>1, <1>4, <2>1, <2>3, <3>2, <3>4 DEF Fits, JavaConversion, ItemConversion
    <2> QED
      BY <2>2, <2>3
  <1> QED
    BY <1>3, <1>4

\* The same for C#.
LEMMA CsFits ==
  ASSUME SoundGame, NEW b \in ValueNames, NEW t \in {Plain(b), ArrayOf(b)}
  PROVE  Fits(CsMonoType(t), CsConversion(t), CxxType(t), CsTemplates)
  <1>1. PICK x : x = CxxType(Plain(b))
    OBVIOUS
  <1>2. ~Plain(b).array /\ Plain(b).base = b
    BY DeclaredTypes
  <1>3. <<CsMonoType(Plain(b)), x>> \in CsTemplates
    <2>1. CASE Plain(b) \in {IntType, BoolType}
      <3>1. x = b /\ CsMonoType(Plain(b)) = <<"gint32">>
        <4>1. x = b /\ ~IsStruct(Plain(b))
          <5>1. Plain(b) \in Scalars /\ Plain(b) # StringType
            BY <2>1, BuiltinTypesDiffer DEF Scalars
          <5> QED
            BY <1>1, <5>1, CxxNames
        <4>2. CsMonoType(Plain(b)) = <<"gint32">>
          <5>1. Plain(b) \notin {StringType, VoidType, DoubleType}
            BY <2>1, BuiltinTypesDiffer
          <5> QED
            BY <1>2, <2>1, <4>1, <5>1 DEF CsMonoType
        <4> QED
          BY <4>1, <4>2
      <3>2. << <<"gint32">>, b>> \in
              {<< <<"gint32">>, u.base>> : u \in Enums \cup {IntType, BoolType}}
        BY <1>2, <2>1
      <3> QED
        BY <3>1, <3>2 DEF CsTemplates
    <2>2. CASE Plain(b) = DoubleType
      <3>1. x = b /\ b = <<"double">> /\ ~IsStruct(Plain(b)) /\ ~IsEnum(Plain(b))
        <4>1. b = <<"double">>
          BY <1>2, <2>2 DEF DoubleType, Plain
        <4>2. b \in Builtin
          BY <4>1, BuiltinNamesAre
        <4> QED
          BY <1>1, <4>1, <4>2, CxxNames, DeclaredTypes DEF StringType
      <3>2. Plain(b) \notin {IntType, BoolType, StringType}
        BY <3>1, DeclaredTypes DEF IntType, BoolType, StringType
      <3>3. CsMonoType(Plain(b)) = <<"double">>
        BY <1>2, <2>2, <3>1, <3>2 DEF CsMonoType
      <3> QED
        BY <3>1, <3>3 DEF CsTemplates
    <2>3. CASE Plain(b) = StringType
      <3>1. x = <<"std::string">> /\ ~IsStruct(Plain(b)) /\ ~IsEnum(Plain(b))
        <4>1. b \in Builtin /\ Plain(b) \notin Scalars
          <5>1. b = <<"string">>
            BY <1>2, <2>3 DEF StringType, Plain
          <5>2. Plain(b) \notin Scalars
            BY <5>1, DeclaredTypes DEF Scalars, IntType, DoubleType, BoolType
          <5> QED
            BY <5>1, <5>2, BuiltinNamesAre
        <4> QED
          BY <1>1, <4>1, CxxNames
      <3>2. Plain(b) \notin {IntType, BoolType, VoidType, DoubleType}
        BY <2>3, BuiltinTypesDiffer
      <3>3. CsMonoType(Plain(b)) = <<"MonoString", "*">>
        BY <1>2, <2>3, <3>1, <3>2 DEF CsMonoType
      <3> QED
        BY <3>1, <3>3 DEF CsTemplates
    <2>4. CASE Plain(b) \notin Scalars \cup {StringType}
      <3>1. /\ x = b /\ Plain(b) \in Enums \cup Structs
            /\ IsStruct(Plain(b)) <=> ~IsEnum(Plain(b))
            /\ Plain(b) \notin Scalars \cup {StringType, VoidType}
        BY <1>1, <2>4, CxxNames
      <3>2. CASE IsStruct(Plain(b))
        <4>1. CsMonoType(Plain(b)) = <<"MonoObject", "*">>
          BY <1>2, <3>1, <3>2 DEF CsMonoType, Scalars
        <4>2. Plain(b) \in Structs
          BY <3>2, DeclaredTypes
        <4>3. << <<"MonoObject", "*">>, b>> \in {<< <<"MonoObject", "*">>, u.base>> : u \in Structs}
          BY <1>2, <4>2
        <4> QED
          BY <3>1, <4>1, <4>3 DEF CsTemplates
      <3>3. CASE IsEnum(Plain(b))
        <4>1. CsMonoType(Plain(b)) = <<"gint32">>
          BY <1>2, <3>1, <3>3 DEF CsMonoType, Scalars
        <4>2. Plain(b) \in Enums \cup {IntType, BoolType}
          BY <3>3, DeclaredTypes
        <4>3. << <<"gint32">>, b>> \in
                {<< <<"gint32">>, u.base>> : u \in Enums \cup {IntType, BoolType}}
          BY <1>2, <4>2
        <4> QED
          BY <3>1, <4>1, <4>3 DEF CsTemplates
      <3> QED
        BY <3>1, <3>2, <3>3
    <2> QED
      BY <2>1, <2>2, <2>3, <2>4 DEF Scalars
  <1>4. CASE t = ArrayOf(b)
    <2>1. t.array /\ Element(t) = Plain(b)
      BY <1>4, DeclaredTypes
    <2>2. CsMonoType(t) = <<"MonoArray", "*">>
      <3>1. ~IsStruct(t) /\ ~IsEnum(t) /\ \A c : t # Plain(c)
        BY <1>4, DeclaredTypes
      <3> QED
        BY <2>1, <3>1 DEF CsMonoType, IntType, BoolType, StringType, VoidType, DoubleType
    <2>3. CxxType(t) = Vector(x)
      BY <1>1, <1>4, CxxNames
    <2> QED
      BY <1>1, <1>3, <2>1, <2>2, <2>3 DEF Fits, CsConversion, ArrayConversion
  <1>5. CASE t = Plain(b)
    BY <1>1, <1>2, <1>3, <1>5 DEF Fits, CsConversion, ItemConversion
  <1> QED
    BY <1>4, <1>5

\* The same for languages that have one type for every value.
LEMMA ValuesFit ==
  ASSUME SoundGame, NEW b \in ValueNames, NEW t \in {Plain(b), ArrayOf(b)}
  PROVE  /\ Fits(<<"value">>, CamlConversion(t), CxxType(t), ValueTemplates(<<"value">>))
         /\ Fits(<<"zval">>, PhpConversion(t), CxxType(t), ValueTemplates(<<"zval">>))
         /\ Fits(<<"PyObject*">>, PythonConversion(t), CxxType(t),
                 ValueTemplates(<<"PyObject*">>))
  <1>1. PICK x : x = CxxType(Plain(b))
    OBVIOUS
  <1>2. ASSUME NEW v PROVE <<v, x>> \in ValueTemplates(v)
    <2>1. Plain(b) \in Scalars \cup {StringType} \cup Enums \cup Structs
      BY CxxNames
    <2> QED
      BY <1>1, <2>1 DEF ValueTemplates
  <1>3. CASE t = ArrayOf(b)
    <2>1. t.array /\ Element(t) = Plain(b)
      BY <1>3, DeclaredTypes
    <2>2. CxxType(t) = Vector(x)
      BY <1>1, <1>3, CxxNames
    <2> QED
      BY <1>1, <1>2, <2>1, <2>2
         DEF Fits, CamlConversion, PhpConversion, PythonConversion, ArrayConversion
  <1>4. CASE t = Plain(b)
    <2>1. ~t.array
      BY <1>4, DeclaredTypes
    <2> QED
      BY <1>1, <1>2, <1>4, <2>1
         DEF Fits, CamlConversion, PhpConversion, PythonConversion, ItemConversion
  <1> QED
    BY <1>3, <1>4

\* The types that values have.
ValueTypes == {Plain(b) : b \in ValueNames} \cup {ArrayOf(b) : b \in ValueNames}

\* Without void, the types that cross a binding are those of values.
LEMMA CrossingAreValues ==
  ASSUME SoundGame, ~VoidIsHeld
  PROVE  /\ \A f \in Range(game.function) :
               /\ \A i \in DOMAIN f.args : f.args[i].type \in ValueTypes
               /\ f.ret # VoidType => f.ret \in ValueTypes
         /\ InnerTypes \subseteq ValueTypes
  <1>1. /\ \A e \in TypedEntries(game) : e.type # VoidType
        /\ ArrayOf(<<"void">>) \notin TypesUsedBy(game)
    BY DEF VoidIsHeld
  <1>2. Shaped(game) /\ \A t \in TypesUsedBy(game) : IsType(t) /\ t.base \in types
    BY DEF SoundGame
  <1>3. ASSUME NEW t \in TypesUsedBy(game), t # VoidType PROVE t \in ValueTypes
    <2>1. t = Plain(t.base) \/ t = ArrayOf(t.base)
      BY <1>2, TypeShape
    <2>2. t.base # <<"void">>
      BY <1>1, <1>3, <2>1 DEF VoidType
    <2> QED
      BY <1>2, <2>1, <2>2 DEF ValueTypes, ValueNames
  <1>4. PICK S : S = UNION {Range(s.fields) : s \in Range(game.struct)}
    OBVIOUS
  <1>5. PICK F : F = ListedFunctions(game)
    OBVIOUS
  <1>6. PICK A : A = UNION {Range(f.args) : f \in F}
    OBVIOUS
  <1>7. TypesUsedBy(game) = {e.type : e \in S} \cup {f.ret : f \in F} \cup {e.type : e \in A}
    BY <1>2, <1>4, <1>5, <1>6, TypesUsedInGame DEF ArgumentsOf
  <1>8. TypedEntries(game) = S \cup A
    BY <1>4, <1>5, <1>6 DEF TypedEntries, ListedFunctions
  <1>9. ASSUME NEW e \in S \cup A PROVE e.type \in ValueTypes
    BY <1>1, <1>3, <1>7, <1>8
  <1>10. ASSUME NEW f \in Range(game.function)
         PROVE  /\ \A i \in DOMAIN f.args : f.args[i].type \in ValueTypes
                /\ f.ret # VoidType => f.ret \in ValueTypes
    <2>1. f \in F
      BY <1>5 DEF ListedFunctions
    <2>2. ASSUME NEW i \in DOMAIN f.args PROVE f.args[i].type \in ValueTypes
      <3>1. f.args[i] \in A
        BY <1>6, <2>1 DEF Range
      <3> QED
        BY <1>9, <3>1
    <2>3. f.ret # VoidType => f.ret \in ValueTypes
      BY <1>3, <1>7, <2>1
    <2> QED
      BY <2>2, <2>3
  <1>11. ASSUME NEW t \in InnerTypes PROVE t \in ValueTypes
    <2>1. PICK s \in Range(game.struct) : t \in Range(FieldTypes(s))
      BY DEF InnerTypes
    <2>2. PICK i \in DOMAIN s.fields : t = s.fields[i].type
      BY <2>1 DEF FieldTypes, Range
    <2>3. s.fields[i] \in S
      BY <1>4, <2>1, <2>2 DEF Range
    <2> QED
      BY <1>9, <2>2, <2>3
  <1> QED
    BY <1>10, <1>11

\* A prototype maps each type of a signature, in its place.
LEMMA MappedSignature ==
  ASSUME NEW f, NEW prefix, NEW mapped
  PROVE  /\ Prototype(f, prefix, mapped).ret = mapped[f.ret]
         /\ \A i \in DOMAIN f.args :
               Prototype(f, prefix, mapped).args[i] = mapped[f.args[i].type]
  BY DEF Prototype

\* Every value fits in every language.
LEMMA ValuesFitAll ==
  ASSUME SoundGame, NEW t \in ValueTypes
  PROVE  /\ Fits(CType(t), CConversion(t), CInternalCxxType(t), CTemplates)
         /\ Fits(CptrType(t), CptrConversion(t, TRUE), CInternalCxxType(t), HaskellTemplates)
         /\ Fits(CType(t), CptrConversion(t, FALSE), CInternalCxxType(t), HaskellTemplates)
         /\ Fits(JniType(t), JavaConversion(t), CxxType(t), JavaTemplates)
         /\ Fits(CsMonoType(t), CsConversion(t), CxxType(t), CsTemplates)
         /\ Fits(<<"value">>, CamlConversion(t), CxxType(t), ValueTemplates(<<"value">>))
         /\ Fits(<<"zval">>, PhpConversion(t), CxxType(t), ValueTemplates(<<"zval">>))
         /\ Fits(<<"PyObject*">>, PythonConversion(t), CxxType(t),
                 ValueTemplates(<<"PyObject*">>))
  <1>1. PICK b \in ValueNames : t \in {Plain(b), ArrayOf(b)}
    BY DEF ValueTypes
  <1> QED
    BY <1>1, CFits, JavaFits, CsFits, ValuesFit

\* A wrapper fits when what it takes and returns are values.
LEMMA WrappersFit ==
  ASSUME SoundGame, NEW f \in Range(game.function),
         \A i \in DOMAIN f.args : f.args[i].type \in ValueTypes,
         f.ret # VoidType => f.ret \in ValueTypes
  PROVE  /\ WrapperFits(f, CPrototype(f), CInternalCxxPrototype(f), CConversion, CTemplates)
         /\ WrapperFits(f, JniPrototype(f), CxxPrototype(f), JavaConversion, JavaTemplates)
         /\ WrapperFits(f, CsMonoPrototype(f), CxxPrototype(f), CsConversion, CsTemplates)
  <1>1. f.ret \in SignatureTypes(f) /\ \A i \in DOMAIN f.args : f.args[i].type \in SignatureTypes(f)
    BY DEF SignatureTypes
  <1>2. WrapperFits(f, CPrototype(f), CInternalCxxPrototype(f), CConversion, CTemplates)
    <2>1. /\ CPrototype(f).ret = CType(f.ret)
          /\ \A i \in DOMAIN f.args : CPrototype(f).args[i] = CType(f.args[i].type)
      BY <1>1, MappedSignature DEF CPrototype
    <2>2. /\ CInternalCxxPrototype(f).ret = CInternalCxxType(f.ret)
          /\ \A i \in DOMAIN f.args :
                CInternalCxxPrototype(f).args[i] = CInternalCxxType(f.args[i].type)
      BY <1>1, MappedSignature DEF CInternalCxxPrototype
    <2> QED
      BY <2>1, <2>2, ValuesFitAll DEF WrapperFits
  <1>3. /\ CxxPrototype(f).ret = CxxType(f.ret)
        /\ \A i \in DOMAIN f.args : CxxPrototype(f).args[i] = CxxType(f.args[i].type)
    BY <1>1, MappedSignature DEF CxxPrototype
  <1>4. WrapperFits(f, JniPrototype(f), CxxPrototype(f), JavaConversion, JavaTemplates)
    <2>1. /\ JniPrototype(f).ret = JniType(f.ret)
          /\ \A i \in DOMAIN f.args : JniPrototype(f).args[i] = JniType(f.args[i].type)
      BY <1>1, MappedSignature DEF JniPrototype
    <2> QED
      BY <1>3, <2>1, ValuesFitAll DEF WrapperFits
  <1>5. WrapperFits(f, CsMonoPrototype(f), CxxPrototype(f), CsConversion, CsTemplates)
    <2>1. /\ CsMonoPrototype(f).ret = CsMonoType(f.ret)
          /\ \A i \in DOMAIN f.args : CsMonoPrototype(f).args[i] = CsMonoType(f.args[i].type)
      BY <1>1, MappedSignature DEF CsMonoPrototype
    <2> QED
      BY <1>3, <2>1, ValuesFitAll DEF WrapperFits
  <1> QED
    BY <1>2, <1>4, <1>5

\* The wrappers of every language fit the functions of a sound game.
LEMMA InterfacesFit ==
  ASSUME SoundGame PROVE InterfacesMeet
  <1> DEFINE ByPointer(t) == CptrConversion(t, TRUE)
             Hosted(f, value) == Prototype(f, <<>>, [t \in SignatureTypes(f) |-> value])
  <1> SUFFICES ASSUME ~VoidIsHeld
               PROVE  InterfacesMeet
    BY DEF InterfacesMeet
  <1>1. ASSUME NEW f \in Range(game.function)
        PROVE  /\ WrapperFits(f, CPrototype(f), CInternalCxxPrototype(f), CConversion, CTemplates)
               /\ WrapperFits(f, HaskellCPrototype(f), CInternalCxxPrototype(f), ByPointer,
                              HaskellTemplates)
               /\ WrapperFits(f, JniPrototype(f), CxxPrototype(f), JavaConversion, JavaTemplates)
               /\ WrapperFits(f, CsMonoPrototype(f), CxxPrototype(f), CsConversion, CsTemplates)
               /\ WrapperFits(f, Hosted(f, <<"value">>), CxxPrototype(f), CamlConversion,
                              ValueTemplates(<<"value">>))
               /\ WrapperFits(f, Hosted(f, <<"zval">>), CxxPrototype(f), PhpConversion,
                              ValueTemplates(<<"zval">>))
               /\ WrapperFits(f, Hosted(f, <<"PyObject*">>), CxxPrototype(f), PythonConversion,
                              ValueTemplates(<<"PyObject*">>))
    <2>1. /\ \A i \in DOMAIN f.args : f.args[i].type \in ValueTypes
          /\ f.ret # VoidType => f.ret \in ValueTypes
      BY CrossingAreValues
    <2>2. f.ret \in SignatureTypes(f) /\ \A i \in DOMAIN f.args : f.args[i].type \in SignatureTypes(f)
      BY DEF SignatureTypes
    <2>3. WrapperFits(f, HaskellCPrototype(f), CInternalCxxPrototype(f), ByPointer,
                      HaskellTemplates)
      <3>1. /\ HaskellCPrototype(f).ret = CptrType(f.ret)
            /\ \A i \in DOMAIN f.args : HaskellCPrototype(f).args[i] = CptrType(f.args[i].type)
        BY <2>2, MappedSignature DEF HaskellCPrototype
      <3>2. /\ CInternalCxxPrototype(f).ret = CInternalCxxType(f.ret)
            /\ \A i \in DOMAIN f.args :
                  CInternalCxxPrototype(f).args[i] = CInternalCxxType(f.args[i].type)
        BY <2>2, MappedSignature DEF CInternalCxxPrototype
      <3> QED
        BY <2>1, <3>1, <3>2, ValuesFitAll DEF WrapperFits
    <2>4. /\ CxxPrototype(f).ret = CxxType(f.ret)
          /\ \A i \in DOMAIN f.args : CxxPrototype(f).args[i] = CxxType(f.args[i].type)
      BY <2>2, MappedSignature DEF CxxPrototype
    <2>5. ASSUME NEW v
          PROVE  /\ Hosted(f, v).ret = v
                 /\ \A i \in DOMAIN f.args : Hosted(f, v).args[i] = v
      BY <2>2, MappedSignature
    <2> HIDE DEF Hosted
    <2>6. WrapperFits(f, Hosted(f, <<"value">>), CxxPrototype(f), CamlConversion,
                      ValueTemplates(<<"value">>))
      <3>1. PICK h : h = Hosted(f, <<"value">>)
        OBVIOUS
      <3>2. h.ret = <<"value">> /\ \A i \in DOMAIN f.args : h.args[i] = <<"value">>
        BY <2>5, <3>1
      <3>3. WrapperFits(f, h, CxxPrototype(f), CamlConversion, ValueTemplates(<<"value">>))
        BY <2>1, <2>4, <3>2, ValuesFitAll DEF WrapperFits
      <3> QED
        BY <3>1, <3>3
    <2>7. WrapperFits(f, Hosted(f, <<"zval">>), CxxPrototype(f), PhpConversion,
                      ValueTemplates(<<"zval">>))
      <3>1. PICK h : h = Hosted(f, <<"zval">>)
        OBVIOUS
      <3>2. h.ret = <<"zval">> /\ \A i \in DOMAIN f.args : h.args[i] = <<"zval">>
        BY <2>5, <3>1
      <3>3. WrapperFits(f, h, CxxPrototype(f), PhpConversion, ValueTemplates(<<"zval">>))
        BY <2>1, <2>4, <3>2, ValuesFitAll DEF WrapperFits
      <3> QED
        BY <3>1, <3>3
    <2>8. WrapperFits(f, Hosted(f, <<"PyObject*">>), CxxPrototype(f), PythonConversion,
                      ValueTemplates(<<"PyObject*">>))
      <3>1. PICK h : h = Hosted(f, <<"PyObject*">>)
        OBVIOUS
      <3>2. h.ret = <<"PyObject*">> /\ \A i \in DOMAIN f.args : h.args[i] = <<"PyObject*">>
        BY <2>5, <3>1
      <3>3. WrapperFits(f, h, CxxPrototype(f), PythonConversion, ValueTemplates(<<"PyObject*">>))
        BY <2>1, <2>4, <3>2, ValuesFitAll DEF WrapperFits
      <3> QED
        BY <3>1, <3>3
    <2> QED
      BY <2>1, <2>3, <2>6, <2>7, <2>8, WrappersFit
  <1>2. ASSUME NEW t \in InnerTypes
        PROVE  /\ Fits(CType(t), CConversion(t), CInternalCxxType(t), CTemplates)
               /\ Fits(CType(t), CptrConversion(t, FALSE), CInternalCxxType(t), HaskellTemplates)
               /\ Fits(JniType(t), JavaConversion(t), CxxType(t), JavaTemplates)
               /\ Fits(CsMonoType(t), CsConversion(t), CxxType(t), CsTemplates)
    BY <1>2, CrossingAreValues, ValuesFitAll
  <1> QED
    BY <1>1, <1>2 DEF InterfacesMeet

-----------------------------------------------------------------------------
(* The members that are looked up at run time                              *)

\* A list of one item.
LEMMA OneWord ==
  ASSUME NEW S, NEW e \in S
  PROVE  <<e>> \in Seq(S) /\ Len(<<e>>) = 1 /\ <<e>>[1] = e
  OBVIOUS

\* The last word of a list, and what is before it.
LEMMA OneSign ==
  ASSUME NEW S, NEW s \in Seq(S), NEW e
  PROVE  Last(s \o <<e>>) = e /\ Front(s \o <<e>>) = s
  <1>1. PICK T : T = S \cup {e}
    OBVIOUS
  <1>2. s \in Seq(T) /\ <<e>> \in Seq(T) /\ e \in T
    <2>1. s \in Seq(T)
      BY <1>1, SeqMonotonic
    <2>2. <<e>> \in Seq(T)
      BY <1>1, OneWord
    <2> QED
      BY <1>1, <2>1, <2>2
  <1>3. PICK c : c = s \o <<e>>
    OBVIOUS
  <1>4. Len(<<e>>) = 1 /\ <<e>>[1] = e
    OBVIOUS
  <1>5. /\ c \in Seq(T) /\ Len(c) = Len(s) + 1 /\ Len(s) \in Nat
        /\ \A i \in 1 .. Len(c) : c[i] = IF i <= Len(s) THEN s[i] ELSE <<e>>[i - Len(s)]
    <2>1. /\ s \o <<e>> \in Seq(T) /\ Len(s \o <<e>>) = Len(s) + Len(<<e>>)
          /\ \A i \in 1 .. Len(s) + Len(<<e>>) :
                (s \o <<e>>)[i] = IF i <= Len(s) THEN s[i] ELSE <<e>>[i - Len(s)]
      BY <1>2, ConcatProperties
    <2> QED
      BY <1>2, <1>3, <1>4, <2>1, LenProperties
  <1>6. c[Len(c)] = e
    <2>1. PICK n \in Nat : n = Len(s)
      BY <1>5
    <2>2. Len(c) = n + 1 /\ n + 1 \in 1 .. Len(c) /\ ~(n + 1 <= n) /\ (n + 1) - n = 1
      BY <1>5, <2>1
    <2>3. c[n + 1] = <<e>>[(n + 1) - n]
      BY <1>5, <2>1, <2>2
    <2> QED
      BY <1>4, <2>2, <2>3
  <1>7. SubSeq(c, 1, Len(c) - 1) = s
    <2>1. CASE Len(s) = 0
      <3>1. s = <<>>
        BY <1>2, <2>1, EmptySeq
      <3>2. SubSeq(c, 1, 0) = <<>>
        BY SubSeqEmpty
      <3> QED
        BY <1>5, <2>1, <3>1, <3>2
    <2>2. CASE Len(s) # 0
      <3>1. 1 \in 1 .. Len(s) /\ Len(s) \in 1 .. Len(s)
        BY <1>5, <2>2
      <3>2. SubSeq(s \o <<e>>, 1, Len(s)) = SubSeq(s, 1, Len(s))
        BY <1>2, <3>1, SubSeqOfConcat1
      <3>3. SubSeq(s, 1, Len(s)) = s
        BY <1>2, SubSeqFull
      <3>4. Len(c) - 1 = Len(s)
        BY <1>5
      <3> QED
        BY <1>3, <3>2, <3>3, <3>4
    <2> QED
      BY <2>1, <2>2
  <1> QED
    BY <1>3, <1>6, <1>7 DEF Last, Front

\* A prefix is the first word of a name, which ends as it did.
LEMMA PrefixedNames ==
  ASSUME NEW w, NEW b, IsList(b), Range(b) \cap Signs = {}, w \notin Signs
  PROVE  /\ <<w>> \o b \in Seq(Range(b) \cup {w})
         /\ (<<w>> \o b)[1] = w
         /\ Last(<<w>> \o b) \notin Signs
  <1>1. PICK T : T = Range(b) \cup {w}
    OBVIOUS
  <1>2. b \in Seq(T) /\ <<w>> \in Seq(T)
    <2>1. b \in Seq(Range(b))
      BY DEF IsList
    <2>2. b \in Seq(T)
      BY <1>1, <2>1, SeqMonotonic
    <2>3. <<w>> \in Seq(T)
      BY <1>1, OneWord
    <2> QED
      BY <2>2, <2>3
  <1>3. PICK c : c = <<w>> \o b
    OBVIOUS
  <1>4. Len(<<w>>) = 1 /\ <<w>>[1] = w
    OBVIOUS
  <1>5. /\ c \in Seq(T) /\ Len(c) = 1 + Len(b) /\ Len(b) \in Nat
        /\ \A i \in 1 .. Len(c) : c[i] = IF i <= 1 THEN <<w>>[i] ELSE b[i - 1]
    <2>1. /\ <<w>> \o b \in Seq(T) /\ Len(<<w>> \o b) = Len(<<w>>) + Len(b)
          /\ \A i \in 1 .. Len(<<w>>) + Len(b) :
                (<<w>> \o b)[i] = IF i <= Len(<<w>>) THEN <<w>>[i] ELSE b[i - Len(<<w>>)]
      BY <1>2, ConcatProperties
    <2> QED
      BY <1>2, <1>3, <1>4, <2>1, LenProperties
  <1>6. c[1] = w
    <2>1. 1 \in 1 .. Len(c)
      BY <1>5
    <2> QED
      BY <1>4, <1>5, <2>1
  <1>7. c[Len(c)] \in T
    <2>1. Len(c) \in 1 .. Len(c)
      BY <1>5
    <2> QED
      BY <1>5, <2>1, ElementOfSeq
  <1>8. T \cap Signs = {}
    BY <1>1
  <1> QED
    BY <1>1, <1>3, <1>5, <1>6, <1>7, <1>8 DEF Last

\* No name of a type, built in or declared, has a sign in it.
LEMMA TypeNamesAreNames ==
  ASSUME SoundGame, NEW b \in types
  PROVE  IsList(b) /\ Range(b) \cap Signs = {}
  <1>1. CASE b \in Range(TypeNames(game))
    BY <1>1 DEF SoundGame
  <1>2. CASE b \in Builtin
    <2>1. PICK w \in {"void", "int", "double", "bool", "string"} : b = <<w>>
      BY <1>2, BuiltinNamesAre
    <2>2. b \in Seq({w}) /\ Range(b) = {w}
      <3>1. Range(<<w>>) = {w}
        BY DEF Range
      <3> QED
        BY <2>1, <3>1, OneWord
    <2>3. w \notin Signs
      BY DEF Signs
    <2> QED
      BY <2>2, <2>3 DEF IsList
  <1> QED
    BY <1>1, <1>2 DEF SoundGame, KnownTypes

\* The words of a signature, and the letters of the primitive types.
PrimitiveLetters == {<<"Z">>, <<"I">>, <<"D">>}

\* A type and an array of it are looked up with their descriptors.
LEMMA NameOfJava ==
  ASSUME SoundGame, NEW b \in types, NEW j, j = JavaType(Plain(b))
  PROVE  /\ JavaType(ArrayOf(b)) = j \o <<"[]">>
         /\ \E S : j \in Seq(S)
         /\ Last(j) # "[]"
         /\ JniTypeSignature(Plain(b)) = Descriptor(j)
         /\ JniTypeSignature(ArrayOf(b)) = <<"[">> \o Descriptor(j)
         /\ Descriptor(j) \in PrimitiveLetters <=> Plain(b) \in Scalars
  <1>1. IsList(b) /\ Range(b) \cap Signs = {}
    BY TypeNamesAreNames
  <1>2. \A x, y : <<x>> = <<y>> => x = y
    OBVIOUS
  <1>3. \A x : Last(<<x>>) = x
    BY DEF Last
  <1>4. /\ \A n : (n = <<"void">> => n \notin {<<"bool">>, <<"string">>, <<"int">>, <<"double">>})
        /\ \A n : (n = <<"int">> => n \notin {<<"bool">>, <<"string">>, <<"void">>, <<"double">>})
        /\ \A n : (n = <<"double">> => n \notin {<<"bool">>, <<"string">>, <<"void">>, <<"int">>})
        /\ \A n : (n = <<"bool">> => n \notin {<<"double">>, <<"string">>, <<"void">>, <<"int">>})
        /\ \A n : (n = <<"string">> => n \notin {<<"double">>, <<"bool">>, <<"void">>, <<"int">>})
    BY <1>2
  <1>5. ~Plain(b).array /\ Plain(b).base = b /\ ArrayOf(b).array /\ ArrayOf(b).base = b
    BY DeclaredTypes
  <1>6. ASSUME NEW n, n = JavaType(Plain(b)) PROVE JavaType(ArrayOf(b)) = n \o <<"[]">>
    BY <1>5, <1>6 DEF JavaType
  <1>7. JniTypeSignature(ArrayOf(b)) = <<"[">> \o JniTypeSignature(Plain(b))
    BY <1>5 DEF JniTypeSignature
  <1>8. CASE b \in {<<"void">>, <<"int">>, <<"double">>}
    <2>1. j = b
      BY <1>4, <1>5, <1>8 DEF JavaType
    <2>2. Last(j) # "[]"
      BY <1>3, <1>8, <2>1
    <2>3. CASE b = <<"void">>
      <3>1. Descriptor(j) = <<"V">>
        <4>1. j \notin {<<"boolean">>, <<"int">>, <<"double">>, <<"String">>}
          BY <1>2, <2>1, <2>3
        <4> QED
          BY <2>1, <2>2, <2>3, <4>1 DEF Descriptor
      <3>2. JniTypeSignature(Plain(b)) = <<"V">>
        BY <1>4, <1>5, <2>3 DEF JniTypeSignature
      <3>3. Plain(b) \notin Scalars
        BY <2>3, BuiltinTypesDiffer DEF Scalars, VoidType
      <3>4. <<"V">> \notin PrimitiveLetters
        BY <1>2 DEF PrimitiveLetters
      <3> QED
        BY <1>1, <1>6, <1>7, <2>1, <2>2, <3>1, <3>2, <3>3, <3>4 DEF IsList
    <2>4. CASE b = <<"int">>
      <3>1. Descriptor(j) = <<"I">>
        <4>1. j \notin {<<"boolean">>, <<"void">>, <<"double">>, <<"String">>}
          BY <1>2, <2>1, <2>4
        <4> QED
          BY <2>1, <2>2, <2>4, <4>1 DEF Descriptor
      <3>2. JniTypeSignature(Plain(b)) = <<"I">>
        BY <1>4, <1>5, <2>4 DEF JniTypeSignature
      <3>3. Plain(b) \in Scalars
        BY <2>4 DEF Scalars, IntType
      <3> QED
        BY <1>1, <1>6, <1>7, <2>1, <2>2, <3>1, <3>2, <3>3 DEF PrimitiveLetters, IsList
    <2>5. CASE b = <<"double">>
      <3>1. Descriptor(j) = <<"D">>
        <4>1. j \notin {<<"boolean">>, <<"void">>, <<"int">>, <<"String">>}
          BY <1>2, <2>1, <2>5
        <4> QED
          BY <2>1, <2>2, <2>5, <4>1 DEF Descriptor
      <3>2. JniTypeSignature(Plain(b)) = <<"D">>
        BY <1>4, <1>5, <2>5 DEF JniTypeSignature
      <3>3. Plain(b) \in Scalars
        BY <2>5 DEF Scalars, DoubleType
      <3> QED
        BY <1>1, <1>6, <1>7, <2>1, <2>2, <3>1, <3>2, <3>3 DEF PrimitiveLetters, IsList
    <2> QED
      BY <1>8, <2>3, <2>4, <2>5
  <1>9. CASE b = <<"bool">>
    <2>1. j = <<"boolean">>
      BY <1>4, <1>5, <1>9 DEF JavaType
    <2>2. Last(j) # "[]"
      BY <1>3, <2>1
    <2>3. Descriptor(j) = <<"Z">>
      <3>1. j \notin {<<"int">>, <<"void">>, <<"double">>, <<"String">>}
        BY <1>2, <2>1
      <3> QED
        BY <2>1, <2>2, <3>1 DEF Descriptor
    <2>4. JniTypeSignature(Plain(b)) = <<"Z">>
      BY <1>4, <1>5, <1>9 DEF JniTypeSignature
    <2>5. Plain(b) \in Scalars
      BY <1>9 DEF Scalars, BoolType
    <2>6. j \in Seq({"boolean"})
      BY <2>1, OneWord
    <2> QED
      BY <1>6, <1>7, <2>2, <2>3, <2>4, <2>5, <2>6 DEF PrimitiveLetters
  <1>10. CASE b = <<"string">>
    <2>1. j = <<"String">>
      BY <1>4, <1>5, <1>10 DEF JavaType
    <2>2. Last(j) # "[]"
      BY <1>3, <2>1
    <2>3. Descriptor(j) = <<"L", "java/lang/String">>
      <3>1. j \notin {<<"int">>, <<"void">>, <<"double">>, <<"boolean">>}
        BY <1>2, <2>1
      <3> QED
        BY <2>1, <2>2, <3>1 DEF Descriptor
    <2>4. JniTypeSignature(Plain(b)) = <<"L", "java/lang/String">>
      BY <1>4, <1>5, <1>10 DEF JniTypeSignature
    <2>5. Plain(b) \notin Scalars
      BY <1>10, BuiltinTypesDiffer DEF Scalars, StringType
    <2>6. j \in Seq({"String"})
      BY <2>1, OneWord
    <2>7. <<"L", "java/lang/String">> \notin PrimitiveLetters
      BY DEF PrimitiveLetters
    <2> QED
      BY <1>6, <1>7, <2>2, <2>3, <2>4, <2>5, <2>6, <2>7
  <1>11. CASE b \notin Builtin
    <2>1. b \notin {<<"void">>, <<"int">>, <<"double">>, <<"bool">>, <<"string">>}
      BY <1>11, BuiltinNamesAre
    <2>2. j = <<"camel">> \o b
      BY <1>5, <2>1 DEF JavaType, CamelCase
    <2>3. /\ j \in Seq(Range(b) \cup {"camel"}) /\ j[1] = "camel" /\ Last(j) \notin Signs
      BY <1>1, <2>2, PrefixedNames DEF Signs
    <2>4. Last(j) # "[]"
      BY <2>3 DEF Signs
    <2>5. Descriptor(j) = <<"L">> \o j
      <3>1. j \notin {<<"int">>, <<"void">>, <<"double">>, <<"boolean">>, <<"String">>}
        BY <2>3
      <3> QED
        BY <2>4, <3>1 DEF Descriptor
    <2>6. JniTypeSignature(Plain(b)) = <<"L">> \o j
      BY <1>5, <2>1, <2>2 DEF JniTypeSignature, CamelCase
    <2>7. Plain(b) \notin Scalars
      BY <2>1, DeclaredTypes DEF Scalars, IntType, DoubleType, BoolType
    <2>8. <<"L">> \o j \notin PrimitiveLetters
      <3>1. PICK T : T = Range(b) \cup {"camel", "L"}
        OBVIOUS
      <3>2. j \in Seq(T) /\ <<"L">> \in Seq(T) /\ Len(<<"L">>) = 1 /\ <<"L">>[1] = "L"
        BY <2>3, <3>1, SeqMonotonic, OneWord
      <3>3. /\ Len(<<"L">> \o j) = Len(<<"L">>) + Len(j)
            /\ \A i \in 1 .. Len(<<"L">>) + Len(j) :
                  (<<"L">> \o j)[i] = IF i <= Len(<<"L">>) THEN <<"L">>[i] ELSE j[i - Len(<<"L">>)]
        BY <3>2, ConcatProperties
      <3>4. 1 \in 1 .. 1 + Len(j)
        BY <3>2, LenProperties
      <3>5. (<<"L">> \o j)[1] = "L"
        BY <3>2, <3>3, <3>4
      <3>6. \A p \in PrimitiveLetters : p[1] # "L"
        BY DEF PrimitiveLetters
      <3> QED
        BY <3>5, <3>6
    <2> QED
      BY <1>6, <1>7, <2>3, <2>4, <2>5, <2>6, <2>7, <2>8
  <1> QED
    BY <1>8, <1>9, <1>10, <1>11, BuiltinNamesAre

\* The descriptor of an array, which is no primitive.
LEMMA DescriptorOfArray ==
  ASSUME NEW S, NEW j \in Seq(S), Last(j) # "[]"
  PROVE  /\ Descriptor(j \o <<"[]">>) = <<"[">> \o Descriptor(j)
         /\ <<"[">> \o Descriptor(j) \notin PrimitiveLetters
  <1>1. PICK l : l = CASE j = <<"boolean">> -> <<"Z">>
                       [] j = <<"int">> -> <<"I">>
                       [] j = <<"double">> -> <<"D">>
                       [] j = <<"void">> -> <<"V">>
                       [] j = <<"String">> -> <<"L", "java/lang/String">>
                       [] OTHER -> <<"L">> \o j
    OBVIOUS
  <1>2. Descriptor(j) = l
    BY <1>1 DEF Descriptor
  <1>3. Last(j \o <<"[]">>) = "[]" /\ Front(j \o <<"[]">>) = j
    BY OneSign
  <1>4. Descriptor(j \o <<"[]">>) = <<"[">> \o l
    BY <1>1, <1>3 DEF Descriptor
  <1>5. \A x, y : <<x>> = <<y>> => x = y
    OBVIOUS
  <1>6. PICK T : T = S \cup {"[", "Z", "I", "D", "V", "L", "java/lang/String"}
    OBVIOUS
  <1>7. l \in Seq(T)
    <2>1. CASE j = <<"boolean">>
      <3>1. j \notin {<<"int">>, <<"double">>, <<"void">>, <<"String">>}
        BY <1>5, <2>1
      <3>2. l = <<"Z">>
        BY <1>1, <2>1, <3>1
      <3> QED
        BY <1>6, <3>2, OneWord
    <2>2. CASE j = <<"int">>
      <3>1. j \notin {<<"boolean">>, <<"double">>, <<"void">>, <<"String">>}
        BY <1>5, <2>2
      <3>2. l = <<"I">>
        BY <1>1, <2>2, <3>1
      <3> QED
        BY <1>6, <3>2, OneWord
    <2>3. CASE j = <<"double">>
      <3>1. j \notin {<<"int">>, <<"boolean">>, <<"void">>, <<"String">>}
        BY <1>5, <2>3
      <3>2. l = <<"D">>
        BY <1>1, <2>3, <3>1
      <3> QED
        BY <1>6, <3>2, OneWord
    <2>4. CASE j = <<"void">>
      <3>1. j \notin {<<"int">>, <<"double">>, <<"boolean">>, <<"String">>}
        BY <1>5, <2>4
      <3>2. l = <<"V">>
        BY <1>1, <2>4, <3>1
      <3> QED
        BY <1>6, <3>2, OneWord
    <2>5. CASE j = <<"String">>
      <3>1. j \notin {<<"int">>, <<"double">>, <<"void">>, <<"boolean">>}
        BY <1>5, <2>5
      <3>2. l = <<"L", "java/lang/String">>
        BY <1>1, <2>5, <3>1
      <3> QED
        BY <1>6, <3>2
    <2>6. CASE j \notin {<<"boolean">>, <<"int">>, <<"double">>, <<"void">>, <<"String">>}
      <3>1. l = <<"L">> \o j
        BY <1>1, <2>6
      <3>2. j \in Seq(T) /\ <<"L">> \in Seq(T)
        BY <1>6, SeqMonotonic, OneWord
      <3> QED
        BY <3>1, <3>2, ConcatProperties
    <2> QED
      BY <2>1, <2>2, <2>3, <2>4, <2>5, <2>6
  <1>8. (<<"[">> \o l)[1] = "["
    <2>1. <<"[">> \in Seq(T) /\ Len(<<"[">>) = 1 /\ <<"[">>[1] = "["
      BY <1>6, OneWord
    <2>2. \A i \in 1 .. Len(<<"[">>) + Len(l) :
             (<<"[">> \o l)[i] = IF i <= Len(<<"[">>) THEN <<"[">>[i] ELSE l[i - Len(<<"[">>)]
      BY <1>7, <2>1, ConcatProperties
    <2>3. 1 \in 1 .. 1 + Len(l)
      BY <1>7, LenProperties
    <2> QED
      BY <2>1, <2>2, <2>3
  <1>9. \A p \in PrimitiveLetters : p[1] # "["
    BY DEF PrimitiveLetters
  <1> QED
    BY <1>2, <1>4, <1>8, <1>9

\* Java keeps scalars as they are, and only them.
LEMMA PrimitivesOfJava ==
  ASSUME SoundGame, NEW b \in types, NEW t \in {Plain(b), ArrayOf(b)}
  PROVE  /\ JniTypeSignature(t) = Descriptor(JavaType(t))
         /\ Primitive(JavaType(t)) <=> t \in Scalars
  <1>1. PICK j : j = JavaType(Plain(b))
    OBVIOUS
  <1>2. CASE t = Plain(b)
    <2>1. /\ JniTypeSignature(t) = Descriptor(j)
          /\ Descriptor(j) \in PrimitiveLetters <=> t \in Scalars
      BY <1>1, <1>2, NameOfJava
    <2> QED
      BY <1>1, <1>2, <2>1 DEF Primitive, PrimitiveLetters
  <1>3. CASE t = ArrayOf(b)
    <2>1. PICK S : j \in Seq(S)
      BY <1>1, NameOfJava
    <2>2. JavaType(t) = j \o <<"[]">> /\ Last(j) # "[]"
      BY <1>1, <1>3, NameOfJava
    <2>3. JniTypeSignature(t) = <<"[">> \o Descriptor(j)
      BY <1>1, <1>3, NameOfJava
    <2>4. /\ Descriptor(JavaType(t)) = <<"[">> \o Descriptor(j)
          /\ Descriptor(JavaType(t)) \notin PrimitiveLetters
      BY <2>1, <2>2, DescriptorOfArray
    <2>5. t \notin Scalars
      BY <1>3, DeclaredTypes DEF Scalars, IntType, DoubleType, BoolType
    <2> QED
      BY <2>3, <2>4, <2>5 DEF Primitive, PrimitiveLetters
  <1> QED
    BY <1>2, <1>3

\* Scalars, and they alone, have accessors and a JNI type of their own.
LEMMA AccessorsOfJava ==
  ASSUME SoundGame, NEW b \in types, NEW t \in {Plain(b), ArrayOf(b)}
  PROVE  /\ JavaTypeMethodCall(t) \notin {"Object", "Void"} <=> t \in Scalars
         /\ JniType(t) \in {JType(u) : u \in Scalars} <=> t \in Scalars
  <1>1. /\ JType(BoolType) = <<"jboolean">> /\ JType(DoubleType) = <<"jdouble">>
        /\ JType(IntType) = <<"jint">>
    BY BuiltinTypesDiffer DEF JType
  <1>2. {JType(u) : u \in Scalars} = {<<"jboolean">>, <<"jdouble">>, <<"jint">>}
    BY <1>1 DEF Scalars
  <1>3. \A x, y : <<x>> = <<y>> => x = y
    OBVIOUS
  <1>4. /\ ~BoolType.array /\ ~DoubleType.array /\ ~IntType.array
        /\ ~StringType.array /\ ~VoidType.array
    BY DeclaredTypes DEF BoolType, DoubleType, IntType, StringType, VoidType
  <1>5. CASE t = BoolType
    BY <1>2, <1>4, <1>5, BuiltinTypesDiffer DEF JniType, JavaTypeMethodCall, Scalars
  <1>6. CASE t = DoubleType
    BY <1>2, <1>4, <1>6, BuiltinTypesDiffer DEF JniType, JavaTypeMethodCall, Scalars
  <1>7. CASE t = IntType
    BY <1>2, <1>4, <1>7, BuiltinTypesDiffer DEF JniType, JavaTypeMethodCall, Scalars
  <1>8. CASE t = StringType
    <2>1. JniType(t) = <<"jstring">> /\ JavaTypeMethodCall(t) = "Object"
      BY <1>4, <1>8, BuiltinTypesDiffer DEF JniType, JavaTypeMethodCall
    <2> QED
      BY <1>2, <1>3, <1>8, <2>1, BuiltinTypesDiffer DEF Scalars
  <1>9. CASE t = VoidType
    <2>1. JniType(t) = <<"void">> /\ JavaTypeMethodCall(t) = "Void"
      BY <1>4, <1>9, BuiltinTypesDiffer DEF JniType, JavaTypeMethodCall
    <2> QED
      BY <1>2, <1>3, <1>9, <2>1, BuiltinTypesDiffer DEF Scalars
  <1>10. CASE t \notin {BoolType, DoubleType, IntType, StringType, VoidType}
    <2>1. JavaTypeMethodCall(t) = "Object"
      BY <1>10 DEF JavaTypeMethodCall
    <2>2. JniType(t) \in {<<"jarray">>, <<"jobject">>}
      <3>1. t.array \in BOOLEAN
        BY DeclaredTypes
      <3>2. CASE t.array = TRUE
        BY <1>10, <3>2 DEF JniType
      <3>3. CASE t.array = FALSE
        BY <1>10, <3>3 DEF JniType
      <3> QED
        BY <3>1, <3>2, <3>3
    <2> QED
      BY <1>2, <1>3, <1>10, <2>1, <2>2 DEF Scalars
  <1> QED
    BY <1>5, <1>6, <1>7, <1>8, <1>9, <1>10

\* C# holds references to arrays, strings and structs.
LEMMA ReferencesOfCs ==
  ASSUME SoundGame, NEW b \in types, NEW t \in {Plain(b), ArrayOf(b)}
  PROVE  /\ CsIsReftype(t) <=> Last(CsMonoType(t)) = "*"
         /\ Last(CsType(t)) = "[]" <=> CsMonoType(t) = <<"MonoArray", "*">>
  <1>1. IsList(b) /\ Range(b) \cap Signs = {}
    BY TypeNamesAreNames
  <1>2. \A x : Last(<<x>>) = x
    BY DEF Last
  <1>3. \A x, y : Last(<<x, y>>) = y
    BY DEF Last
  <1>4. \A x, y, z : <<x>> # <<y, z>>
    OBVIOUS
  <1>5. PICK n : n = CsType(Plain(b))
    OBVIOUS
  <1>6. CsType(ArrayOf(b)) = n \o <<"[]">>
    BY <1>5, DeclaredTypes DEF CsType
  <1>7. n = b \/ n = CamelCase(b)
    BY <1>5, DeclaredTypes DEF CsType
  <1>8. CASE t = ArrayOf(b)
    <2>1. PICK S : n \in Seq(S)
      <3>1. CASE n = b
        BY <1>1, <3>1 DEF IsList
      <3>2. CASE n = CamelCase(b)
        <4>1. n \in Seq(Range(b) \cup {"camel"})
          BY <1>1, <3>2, PrefixedNames DEF CamelCase, Signs
        <4> QED
          BY <4>1
      <3> QED
        BY <1>7, <3>1, <3>2
    <2>2. Last(CsType(t)) = "[]"
      BY <1>6, <1>8, <2>1, OneSign
    <2>3. CsMonoType(t) = <<"MonoArray", "*">>
      <3>1. t.array /\ ~IsStruct(t) /\ ~IsEnum(t) /\ \A c : t # Plain(c)
        BY <1>8, DeclaredTypes
      <3> QED
        BY <3>1 DEF CsMonoType, IntType, BoolType, StringType, VoidType, DoubleType
    <2>4. CsIsReftype(t)
      <3>1. t.array
        BY <1>8, DeclaredTypes
      <3> QED
        BY <3>1 DEF CsIsReftype
    <2>5. Last(CsMonoType(t)) = "*"
      BY <1>3, <2>3
    <2> QED
      BY <2>2, <2>3, <2>4, <2>5
  <1>9. CASE t = Plain(b)
    <2>1. ~t.array /\ t.base = b
      BY <1>9, DeclaredTypes
    <2>2. \A x, y : <<x, "*">> = <<y, "*">> => x = y
      OBVIOUS
    <2>3. CASE IsStruct(t)
      <3>1. ~IsEnum(t) /\ b \notin Builtin
        BY <1>9, <2>3, NameKinds
      <3>2. t \notin {BoolType, DoubleType, IntType, StringType, VoidType}
        BY <1>9, <3>1, BuiltinNamesAre, DeclaredTypes
           DEF BoolType, DoubleType, IntType, StringType, VoidType
      <3>3. CsMonoType(t) = <<"MonoObject", "*">>
        BY <2>1, <2>3, <3>1, <3>2 DEF CsMonoType
      <3>4. CsType(t) = CamelCase(b)
        BY <1>9, <2>1, <2>3, DeclaredTypes DEF CsType
      <3>5. Last(CsType(t)) # "[]"
        BY <1>1, <3>4, PrefixedNames DEF CamelCase, Signs
      <3> QED
        BY <1>3, <2>2, <2>3, <3>3, <3>5 DEF CsIsReftype
    <2>4. CASE IsEnum(t)
      <3>1. ~IsStruct(t) /\ b \notin Builtin
        BY <1>9, <2>4, NameKinds
      <3>2. t \notin {BoolType, DoubleType, IntType, StringType, VoidType}
        BY <1>9, <3>1, BuiltinNamesAre, DeclaredTypes
           DEF BoolType, DoubleType, IntType, StringType, VoidType
      <3>3. CsMonoType(t) = <<"gint32">>
        BY <2>1, <2>4, <3>1, <3>2 DEF CsMonoType
      <3>4. CsType(t) = CamelCase(b)
        BY <1>9, <2>1, <2>4, DeclaredTypes DEF CsType
      <3>5. Last(CsType(t)) # "[]"
        BY <1>1, <3>4, PrefixedNames DEF CamelCase, Signs
      <3> QED
        BY <1>2, <1>4, <2>1, <3>1, <3>2, <3>3, <3>5 DEF CsIsReftype
    <2>5. CASE b \in Builtin
      <3>1. ~IsStruct(t) /\ ~IsEnum(t)
        BY <1>9, <2>5, NameKinds
      <3>2. CsType(t) = b
        BY <1>9, <2>1, <3>1, DeclaredTypes DEF CsType
      <3>3. PICK w \in {"void", "int", "double", "bool", "string"} : b = <<w>>
        BY <2>5, BuiltinNamesAre
      <3>4. Last(CsType(t)) # "[]"
        BY <1>2, <3>2, <3>3
      <3>5. CASE t = StringType
        <4>1. CsMonoType(t) = <<"MonoString", "*">>
          BY <2>1, <3>1, <3>5, BuiltinTypesDiffer DEF CsMonoType
        <4> QED
          BY <1>3, <2>2, <3>4, <3>5, <4>1 DEF CsIsReftype
      <3>6. CASE t # StringType
        <4>1. ~CsIsReftype(t)
          BY <2>1, <3>1, <3>6 DEF CsIsReftype
        <4>2. t \in {IntType, BoolType, VoidType, DoubleType}
          BY <1>9, <2>5, <3>6, BuiltinNamesAre
             DEF BoolType, DoubleType, IntType, StringType, VoidType
        <4>3. CsMonoType(t) \in {<<"gint32">>, <<w>>}
          <5>1. CASE t \in {IntType, BoolType}
            BY <2>1, <3>1, <5>1, BuiltinTypesDiffer DEF CsMonoType
          <5>2. CASE t \in {VoidType, DoubleType}
            BY <2>1, <3>1, <3>3, <5>2, BuiltinTypesDiffer DEF CsMonoType
          <5> QED
            BY <4>2, <5>1, <5>2
        <4>4. Last(CsMonoType(t)) # "*" /\ CsMonoType(t) # <<"MonoArray", "*">>
          BY <1>2, <1>4, <3>3, <4>3
        <4> QED
          BY <3>4, <4>1, <4>4
      <3> QED
        BY <3>5, <3>6
    <2> QED
      BY <1>9, <2>3, <2>4, <2>5, NameKinds
  <1> QED
    BY <1>8, <1>9

\* Whatever crosses a binding or is a field is a type used in the game.
LEMMA CrossingAreUsed ==
  ASSUME SoundGame
  PROVE  CrossingTypes \cup InnerTypes \subseteq TypesUsedBy(game)
  <1>1. PICK S : S = UNION {Range(s.fields) : s \in Range(game.struct)}
    OBVIOUS
  <1>2. PICK F : F = ListedFunctions(game)
    OBVIOUS
  <1>3. PICK A : A = UNION {Range(f.args) : f \in F}
    OBVIOUS
  <1>4. TypesUsedBy(game) = {e.type : e \in S} \cup {f.ret : f \in F} \cup {e.type : e \in A}
    BY <1>1, <1>2, <1>3, TypesUsedInGame DEF ArgumentsOf, SoundGame
  <1>5. ASSUME NEW t \in InnerTypes PROVE t \in TypesUsedBy(game)
    <2>1. PICK s \in Range(game.struct) : t \in Range(FieldTypes(s))
      BY DEF InnerTypes
    <2>2. PICK i \in DOMAIN s.fields : t = s.fields[i].type
      BY <2>1 DEF FieldTypes, Range
    <2>3. s.fields[i] \in S
      BY <1>1, <2>1, <2>2 DEF Range
    <2> QED
      BY <1>4, <2>2, <2>3
  <1>6. ASSUME NEW t \in CrossingTypes PROVE t \in TypesUsedBy(game)
    <2>1. PICK f \in Range(game.function) :
             t \in {f.ret} \cup Range(FieldTypes([fields |-> f.args]))
      BY DEF CrossingTypes
    <2>2. f \in F
      BY <1>2, <2>1 DEF ListedFunctions
    <2>3. CASE t = f.ret
      BY <1>4, <2>2, <2>3
    <2>4. CASE t \in Range(FieldTypes([fields |-> f.args]))
      <3>1. PICK i \in DOMAIN f.args : t = f.args[i].type
        BY <2>4 DEF FieldTypes, Range
      <3>2. f.args[i] \in A
        BY <1>3, <2>2, <3>1 DEF Range
      <3> QED
        BY <1>4, <3>1, <3>2
    <2> QED
      BY <2>1, <2>3, <2>4
  <1> QED
    BY <1>5, <1>6

\* Members are looked up with the types they are declared with.
LEMMA HostsAgree ==
  ASSUME SoundGame PROVE HostTypesAgree
  <1> SUFFICES ASSUME NEW t \in CrossingTypes \cup InnerTypes
               PROVE  /\ JniTypeSignature(t) = Descriptor(JavaType(t))
                      /\ Primitive(JavaType(t)) <=> JavaTypeMethodCall(t) \notin {"Object", "Void"}
                      /\ Primitive(JavaType(t)) <=> JniType(t) \in {JType(u) : u \in Scalars}
                      /\ CsIsReftype(t) <=> Last(CsMonoType(t)) = "*"
                      /\ Last(CsType(t)) = "[]" <=> CsMonoType(t) = <<"MonoArray", "*">>
    BY DEF HostTypesAgree
  <1>1. IsType(t) /\ t.base \in types
    BY CrossingAreUsed DEF SoundGame
  <1>2. PICK b \in types : t \in {Plain(b), ArrayOf(b)}
    BY <1>1, TypeShape
  <1> QED
    BY <1>2, PrimitivesOfJava, AccessorsOfJava, ReferencesOfCs

\* Whatever games are loaded, the two sides of each binding agree: conversions
\* take and give what is declared, and members are looked up under the types
\* they are declared with (filters/java.py, cs.py, c.py, haskell.py).
THEOREM AgreedBindings == Spec => []BindingsAgree
  <1>1. Progress /\ LoaderInv /\ UsedTypesKept => BindingsAgree
    <2> SUFFICES ASSUME Progress, LoaderInv, UsedTypesKept
                 PROVE  BindingsAgree
      OBVIOUS
    <2>1. CASE phase = "accepted"
      BY <2>1, AcceptedIsSound, InterfacesFit, HostsAgree DEF BindingsAgree
    <2>2. CASE phase # "accepted"
      BY <2>2 DEF BindingsAgree, InterfacesMeet, HostTypesAgree
    <2> QED
      BY <2>1, <2>2
  <1> QED
    BY <1>1, LoaderInvariant, ProgressInvariant, UsedTypesInvariant, PTL

-----------------------------------------------------------------------------
(* Recursion over types                                                    *)

\* What a filter recurses into.
Parts(t) ==
    IF t.array THEN {Element(t)}
    ELSE IF IsStruct(t) THEN {f.type : f \in Range(StructOf(t).fields)} ELSE {}

\* A struct is found by its name.
LEMMA StructsAreTheirs ==
  ASSUME SoundGame, NEW s \in Structs
  PROVE  /\ IsStruct(s) /\ ~s.array /\ s = Plain(s.base) /\ s.base \in types
         /\ StructOf(s) \in Range(game.struct) /\ StructOf(s).name = s.base
         /\ {f.type : f \in Range(StructOf(s).fields)} \subseteq InnerTypes
  <1>1. PICK k : k = game.struct
    OBVIOUS
  <1>2. PICK r \in Range(k) : s = Plain(r.name)
    BY <1>1 DEF Structs
  <1>3. s.base = r.name /\ ~s.array /\ s = Plain(s.base)
    BY <1>2, DeclaredTypes
  <1>4. IsStruct(s)
    BY <1>3, DeclaredTypes
  <1>5. StructOf(s) \in Range(k) /\ StructOf(s).name = s.base
    BY <1>1, <1>2, <1>3 DEF StructOf
  <1>6. s.base \in types
    <2>1. IsList(k)
      BY <1>1, ShapedLists DEF SoundGame
    <2>2. Range(Names(k)) = {e.name : e \in Range(k)} /\ IsList(Names(k))
      BY <2>1, NamesAreList
    <2>3. s.base \in Range(Names(k))
      BY <1>2, <1>3, <2>2
    <2>4. PICK l : l = Names(game.enum)
      OBVIOUS
    <2>5. IsList(l)
      BY <2>4, ShapedLists, NamesAreList DEF SoundGame
    <2>6. TypeNames(game) = l \o Names(k)
      BY <1>1, <2>4 DEF TypeNames
    <2>7. Range(TypeNames(game)) = Range(l) \cup Range(Names(k))
      BY <2>2, <2>5, <2>6, JoinedLists
    <2> QED
      BY <2>3, <2>7 DEF SoundGame, KnownTypes
  <1>7. {f.type : f \in Range(StructOf(s).fields)} \subseteq InnerTypes
    <2>1. ASSUME NEW f \in Range(StructOf(s).fields) PROVE f.type \in InnerTypes
      <3>1. PICK i \in DOMAIN StructOf(s).fields : f = StructOf(s).fields[i]
        BY DEF Range
      <3>2. f.type \in Range(FieldTypes(StructOf(s)))
        BY <3>1 DEF FieldTypes, Range
      <3> QED
        BY <1>1, <1>5, <3>2 DEF InnerTypes
    <2> QED
      BY <2>1
  <1> QED
    BY <1>1, <1>3, <1>4, <1>5, <1>6, <1>7

\* HeldTypes, from the fields of the struct.
LEMMA HeldAre ==
  ASSUME NEW s
  PROVE  HeldTypes(s) = {Element(f.type) : f \in Range(StructOf(s).fields)}
  <1>1. PICK l : l = StructOf(s).fields
    OBVIOUS
  <1>2. Range(FieldTypes(StructOf(s))) = {f.type : f \in Range(l)}
    BY <1>1 DEF FieldTypes, Range
  <1> QED
    BY <1>1, <1>2 DEF HeldTypes

\* A struct is founded on founded structs, and on nothing else.
LEMMA FoundedStructsAre ==
  /\ \A s \in FoundedStructs : HeldTypes(s) \cap Structs \subseteq FoundedStructs
  /\ \A C \in SUBSET Structs :
        (\A u \in Structs :
            StructOf(u).fields # <<>> /\ HeldTypes(u) \cap Structs \subseteq C => u \in C)
          => FoundedStructs \subseteq C
  /\ FoundedStructs \subseteq Structs
  /\ \A u \in Structs :
        StructOf(u).fields # <<>> /\ HeldTypes(u) \cap Structs \subseteq FoundedStructs
          => u \in FoundedStructs
  <1> DEFINE Closed(C) ==
               \A u \in Structs :
                  StructOf(u).fields # <<>> /\ HeldTypes(u) \cap Structs \subseteq C => u \in C
  <1>1. FoundedStructs = {s \in Structs : \A C \in SUBSET Structs : Closed(C) => s \in C}
    BY DEF FoundedStructs
  <1>2. ASSUME NEW C \in SUBSET Structs, Closed(C) PROVE FoundedStructs \subseteq C
    BY <1>1, <1>2
  <1>3. ASSUME NEW u \in Structs, StructOf(u).fields # <<>>,
               HeldTypes(u) \cap Structs \subseteq FoundedStructs
        PROVE  u \in FoundedStructs
    <2>1. ASSUME NEW C \in SUBSET Structs, Closed(C) PROVE u \in C
      <3>1. HeldTypes(u) \cap Structs \subseteq C
        BY <1>2, <1>3, <2>1
      <3> QED
        BY <1>3, <2>1, <3>1
    <2> HIDE DEF Closed
    <2> QED
      BY <1>1, <2>1
  <1>4. ASSUME NEW s \in FoundedStructs PROVE HeldTypes(s) \cap Structs \subseteq FoundedStructs
    <2>1. PICK C \in SUBSET Structs :
             C = {u \in FoundedStructs : HeldTypes(u) \cap Structs \subseteq FoundedStructs}
      BY <1>1
    <2>2. Closed(C)
      BY <1>3, <2>1
    <2> HIDE DEF Closed
    <2> QED
      BY <1>2, <2>1, <2>2
  <1>5. FoundedStructs \subseteq Structs
    BY <1>1
  <1> QED
    BY <1>2, <1>3, <1>4, <1>5

\* A founded type is a known name or an array of one.
LEMMA FoundedTypesAre ==
  ASSUME NEW t
  PROVE  t \in FoundedTypes <=>
           /\ \E b \in types : t = Plain(b) \/ t = ArrayOf(b)
           /\ Element(t) \in Structs => Element(t) \in FoundedStructs
  BY DEF FoundedTypes

\* A founded type is made of founded types.
LEMMA PartsAreFounded ==
  ASSUME SoundGame, NEW t \in FoundedTypes
  PROVE  Parts(t) \subseteq FoundedTypes
  <1>1. PICK b \in types : t = Plain(b) \/ t = ArrayOf(b)
    BY FoundedTypesAre
  <1>2. Element(t) \in Structs => Element(t) \in FoundedStructs
    BY FoundedTypesAre
  <1>3. CASE t = ArrayOf(b)
    <2>1. Parts(t) = {Plain(b)} /\ Element(t) = Plain(b) /\ Element(Plain(b)) = Plain(b)
      BY <1>3, DeclaredTypes DEF Parts
    <2> QED
      BY <1>2, <2>1, FoundedTypesAre
  <1>4. CASE t = Plain(b)
    <2>1. CASE ~IsStruct(t)
      BY <1>4, <2>1, DeclaredTypes DEF Parts
    <2>2. CASE IsStruct(t)
      <3>1. t \in Structs /\ Element(t) = t /\ Parts(t) = {f.type : f \in Range(StructOf(t).fields)}
        BY <1>4, <2>2, DeclaredTypes DEF Parts
      <3>2. t \in FoundedStructs
        BY <1>2, <3>1
      <3>3. HeldTypes(t) \cap Structs \subseteq FoundedStructs
        BY <3>2, FoundedStructsAre
      <3>4. ASSUME NEW u \in Parts(t) PROVE u \in FoundedTypes
        <4>1. PICK f \in Range(StructOf(t).fields) : u = f.type
          BY <3>1, <3>4
        <4>2. u \in InnerTypes
          BY <3>1, <4>1, StructsAreTheirs
        <4>3. IsType(u) /\ u.base \in types
          BY <4>2, CrossingAreUsed DEF SoundGame
        <4>4. Element(u) \in HeldTypes(t)
          BY <4>1, HeldAre
        <4>5. u = Plain(u.base) \/ u = ArrayOf(u.base)
          BY <4>3, TypeShape
        <4> QED
          BY <3>3, <4>3, <4>4, <4>5, FoundedTypesAre
      <3> QED
        BY <3>4
    <2> QED
      BY <2>1, <2>2
  <1> QED
    BY <1>1, <1>3, <1>4

\* What holds of a type when it holds of its parts holds of all that are founded.
LEMMA FoundedInduction ==
  ASSUME SoundGame, NEW C \in SUBSET FoundedTypes,
         \A t \in FoundedTypes : Parts(t) \subseteq C => t \in C
  PROVE  C = FoundedTypes
  <1>1. ASSUME NEW b \in types, Plain(b) \notin Structs
        PROVE  Plain(b) \in C
    <2>1. Element(Plain(b)) = Plain(b)
      BY DeclaredTypes
    <2>2. Plain(b) \in FoundedTypes
      BY <1>1, <2>1, FoundedTypesAre
    <2>3. Parts(Plain(b)) = {}
      BY <1>1, DeclaredTypes DEF Parts
    <2> QED
      BY <2>2, <2>3
  <1>2. ASSUME NEW b \in types, Plain(b) \in C
        PROVE  ArrayOf(b) \in C
    <2>1. Element(ArrayOf(b)) = Plain(b) /\ Element(Plain(b)) = Plain(b)
      BY DeclaredTypes
    <2>2. ArrayOf(b) \in FoundedTypes
      BY <1>2, <2>1, FoundedTypesAre
    <2>3. Parts(ArrayOf(b)) = {Plain(b)}
      BY <2>1, DeclaredTypes DEF Parts
    <2> QED
      BY <1>2, <2>2, <2>3
  <1>3. PICK D \in SUBSET Structs : D = {u \in FoundedStructs : u \in C}
    BY FoundedStructsAre
  <1>4. ASSUME NEW u \in Structs, StructOf(u).fields # <<>>,
               HeldTypes(u) \cap Structs \subseteq D
        PROVE  u \in D
    <2>1. u \in FoundedStructs
      BY <1>3, <1>4, FoundedStructsAre
    <2>2. u = Plain(u.base) /\ u.base \in types /\ IsStruct(u) /\ ~u.array
      BY StructsAreTheirs
    <2>3. u \in FoundedTypes
      <3>1. Element(u) = u
        BY <2>2, DeclaredTypes
      <3> QED
        BY <2>1, <2>2, <3>1, FoundedTypesAre
    <2>4. Parts(u) = {f.type : f \in Range(StructOf(u).fields)}
      BY <2>2 DEF Parts
    <2>5. ASSUME NEW v \in Parts(u) PROVE v \in C
      <3>1. PICK f \in Range(StructOf(u).fields) : v = f.type
        BY <2>4, <2>5
      <3>2. v \in FoundedTypes
        BY <2>3, <2>5, PartsAreFounded
      <3>3. PICK b \in types : v = Plain(b) \/ v = ArrayOf(b)
        BY <3>2, FoundedTypesAre
      <3>4. Element(v) = Plain(b) /\ Element(v) \in HeldTypes(u)
        BY <3>1, <3>3, HeldAre, DeclaredTypes
      <3>5. Plain(b) \in C
        <4>1. CASE Plain(b) \in Structs
          BY <1>3, <1>4, <3>4, <4>1
        <4>2. CASE Plain(b) \notin Structs
          BY <1>1, <4>2
        <4> QED
          BY <4>1, <4>2
      <3> QED
        BY <1>2, <3>3, <3>5
    <2>6. u \in C
      BY <2>3, <2>5
    <2> QED
      BY <1>3, <2>1, <2>6
  <1>5. FoundedStructs \subseteq C
    BY <1>3, <1>4, FoundedStructsAre
  <1>6. ASSUME NEW t \in FoundedTypes PROVE t \in C
    <2>1. PICK b \in types : t = Plain(b) \/ t = ArrayOf(b)
      BY FoundedTypesAre
    <2>2. Element(t) = Plain(b)
      BY <2>1, DeclaredTypes
    <2>3. Plain(b) \in C
      BY <1>1, <1>5, <2>2, FoundedTypesAre
    <2> QED
      BY <1>2, <2>1, <2>3
  <1> QED
    BY <1>6

\* What a filter makes of a type depends on what it makes of its parts.
OverTypes(V, step) ==
    /\ step \in [FoundedTypes -> [[FoundedTypes -> V] -> V]]
    /\ \A t \in FoundedTypes : \A f, g \in [FoundedTypes -> V] :
          (\A u \in Parts(t) : f[u] = g[u]) => step[t][f] = step[t][g]

\* A definition by recursion over founded types is that of a function.
LEMMA RecursionOverTypes ==
  ASSUME SoundGame, NEW V, NEW v0 \in V, NEW step, OverTypes(V, step)
  PROVE  \E f \in [FoundedTypes -> V] : f = [t \in FoundedTypes |-> step[t][f]]
  <1>1. PICK parts : parts = [t \in FoundedTypes |-> Parts(t)]
    OBVIOUS
  <1>2. parts \in [FoundedTypes -> SUBSET FoundedTypes]
    BY <1>1, PartsAreFounded
  <1>3. \A t \in FoundedTypes : parts[t] = Parts(t)
    BY <1>1
  <1>4. ASSUME NEW C \in SUBSET FoundedTypes,
               \A t \in FoundedTypes : parts[t] \subseteq C => t \in C
        PROVE  C = FoundedTypes
    <2>1. \A t \in FoundedTypes : Parts(t) \subseteq C => t \in C
      BY <1>3, <1>4
    <2> QED
      BY <2>1, FoundedInduction
  <1>5. ASSUME NEW t \in FoundedTypes, NEW f \in [FoundedTypes -> V],
               NEW g \in [FoundedTypes -> V], \A u \in parts[t] : f[u] = g[u]
        PROVE  step[t][f] = step[t][g]
    BY <1>3, <1>5 DEF OverTypes
  <1>6. Recursion(FoundedTypes, V, parts, step)
    BY <1>2, <1>4, <1>5 DEF Recursion, OverTypes
  <1> QED
    BY <1>6, FoundedRecursion

\* rust_is_copy, unfolded once.
LEMMA RustIsCopyIs ==
  ASSUME SoundGame, NEW t \in FoundedTypes
  PROVE  RustIsCopy[t] = IF IsStruct(t) /\ IsTuple(t)
                           THEN \A f \in Range(StructOf(t).fields) : RustIsCopy[f.type]
                           ELSE IsEnum(t) \/ t \in Scalars \cup {VoidType}
  <1> DEFINE W == FoundedTypes
             Step(u, g) == IF IsStruct(u) /\ IsTuple(u)
                             THEN \A f \in Range(StructOf(u).fields) : g[f.type]
                             ELSE IsEnum(u) \/ u \in Scalars \cup {VoidType}
             step == [u \in W |-> [g \in [W -> BOOLEAN] |-> Step(u, g)]]
  <1>1. step \in [W -> [[W -> BOOLEAN] -> BOOLEAN]]
    <2>1. ASSUME NEW u \in W, NEW g \in [W -> BOOLEAN] PROVE Step(u, g) \in BOOLEAN
      OBVIOUS
    <2> HIDE DEF Step, W
    <2> QED
      BY <2>1
  <1>2. ASSUME NEW u \in W, NEW f \in [W -> BOOLEAN], NEW g \in [W -> BOOLEAN],
               \A v \in Parts(u) : f[v] = g[v]
        PROVE  step[u][f] = step[u][g]
    <2>1. Step(u, f) = Step(u, g)
      <3>1. CASE IsStruct(u) /\ IsTuple(u)
        <4>1. ~u.array
          BY <3>1 DEF IsStruct
        <4>2. \A e \in Range(StructOf(u).fields) : f[e.type] = g[e.type]
          BY <1>2, <3>1, <4>1 DEF Parts
        <4> QED
          BY <3>1, <4>2
      <3>2. CASE ~(IsStruct(u) /\ IsTuple(u))
        BY <3>2
      <3> QED
        BY <3>1, <3>2
    <2> HIDE DEF Step
    <2> QED
      BY <2>1
  <1> HIDE DEF Step
  <1>3. PICK f \in [W -> BOOLEAN] : f = [u \in W |-> step[u][f]]
    <2> HIDE DEF step
    <2>1. PICK V : V = BOOLEAN
      OBVIOUS
    <2>2. PICK v0 : v0 \in V
      BY <2>1
    <2>3. OverTypes(V, step)
      BY <1>1, <1>2, <2>1 DEF OverTypes
    <2>4. \E f \in [FoundedTypes -> V] : f = [u \in FoundedTypes |-> step[u][f]]
      BY <2>2, <2>3, RecursionOverTypes
    <2> QED
      BY <2>1, <2>4
  <1>4. f = [u \in W |-> Step(u, f)]
    BY <1>3
  <1>5. \E g : g = [u \in W |-> Step(u, g)]
    BY <1>4
  <1>6. RustIsCopy = [u \in W |-> Step(u, RustIsCopy)]
    BY <1>5, Zenon DEF RustIsCopy, Step
  <1>7. RustIsCopy[t] = Step(t, RustIsCopy)
    BY <1>6
  <1> QED
    BY <1>7 DEF Step

\* Structs, arrays and builtin types are different types.
LEMMA KindsDiffer ==
  ASSUME SoundGame, NEW t \in FoundedTypes
  PROVE  /\ t.array \in BOOLEAN
         /\ t.array => ~IsStruct(t) /\ t = ArrayOf(t.base) /\ Parts(t) = {Element(t)}
         /\ ~t.array => t = Plain(t.base)
         /\ IsStruct(t) => ~t.array /\ t \notin Scalars \cup {StringType, VoidType} /\ ~IsEnum(t)
         /\ IsStruct(t) => Parts(t) = {f.type : f \in Range(StructOf(t).fields)}
         /\ t.array => t \notin Scalars \cup {StringType, VoidType} /\ ~IsEnum(t)
         /\ IsEnum(t) => t \notin Scalars \cup {StringType, VoidType}
         /\ t.base \in types /\ Element(t) = Plain(t.base)
  <1>1. PICK b \in types : t = Plain(b) \/ t = ArrayOf(b)
    BY FoundedTypesAre
  <1>2. CASE t = ArrayOf(b)
    <2>1. t.array = TRUE /\ t.base = b /\ ~IsStruct(t) /\ ~IsEnum(t) /\ \A c : t # Plain(c)
      BY <1>2, DeclaredTypes
    <2>2. t \notin Scalars \cup {StringType, VoidType}
      BY <2>1 DEF Scalars, BoolType, DoubleType, IntType, StringType, VoidType
    <2>3. Parts(t) = {Element(t)} /\ Element(t) = Plain(t.base)
      BY <2>1 DEF Parts, Element
    <2> QED
      BY <1>1, <1>2, <2>1, <2>2, <2>3
  <1>3. CASE t = Plain(b)
    <2>1. t.array = FALSE /\ t.base = b /\ Element(t) = Plain(b)
      BY <1>3, DeclaredTypes
    <2>2. IsStruct(t) => Parts(t) = {f.type : f \in Range(StructOf(t).fields)}
      BY <2>1 DEF Parts
    <2>3. IsStruct(t) => ~IsEnum(t)
      BY <1>3, NameKinds
    <2>4. IsStruct(t) \/ IsEnum(t) => t \notin Scalars \cup {StringType, VoidType}
      <3>1. IsStruct(t) \/ IsEnum(t) => b \notin Builtin
        BY <1>3, NameKinds
      <3>2. b \notin Builtin => t \notin Scalars \cup {StringType, VoidType}
        BY <1>3, BuiltinNamesAre, DeclaredTypes
           DEF Scalars, BoolType, DoubleType, IntType, StringType, VoidType
      <3> QED
        BY <3>1, <3>2
    <2> QED
      BY <1>3, <2>1, <2>2, <2>3, <2>4
  <1> QED
    BY <1>1, <1>2, <1>3

\* The body of each recursive definition, for what it is of the parts.
TraitsStep(u, g) ==
    CASE IsStruct(u) ->
           {trait \in EveryTrait :
               \A f \in Range(StructOf(u).fields) : trait \in g[f.type]}
      [] u.array -> TraitsOfArray(g[Element(u)])
      [] u = DoubleType -> EveryTrait \ {"Eq", "Hash", "Ord"}
      [] u = StringType -> EveryTrait \ {"Copy"}
      [] OTHER -> EveryTrait

PythonStep(u, g) ==
    CASE u.array -> {<<"List">>} \cup g[Element(u)]
      [] IsStruct(u) /\ IsTuple(u) ->
           {<<"Tuple">>} \cup UNION {g[f.type] : f \in Range(StructOf(u).fields)}
      [] u = VoidType -> {<<"None">>}
      [] u = DoubleType -> {<<"float">>}
      [] u = StringType -> {<<"str">>}
      [] OTHER -> {u.base}

BelowStep(u, g) ==
    {u} \cup (IF u.array THEN g[Element(u)] ELSE {})
      \cup (IF IsStruct(u) THEN UNION {g[f.type] : f \in Range(StructOf(u).fields)} ELSE {})

\* The three cases of rust_auto_traits only look at the parts of a type.
LEMMA TraitsSteps ==
  ASSUME SoundGame, NEW u \in FoundedTypes, NEW g
  PROVE  /\ IsStruct(u) => TraitsStep(u, g) =
               {trait \in EveryTrait :
                   \A f \in Range(StructOf(u).fields) : trait \in g[f.type]}
         /\ u.array => TraitsStep(u, g) = g[Element(u)] \ {"Copy"}
         /\ u = DoubleType => TraitsStep(u, g) = EveryTrait \ {"Eq", "Hash", "Ord"}
         /\ u = StringType => TraitsStep(u, g) = EveryTrait \ {"Copy"}
         /\ ~IsStruct(u) /\ ~u.array /\ u \notin {DoubleType, StringType}
               => TraitsStep(u, g) = EveryTrait
  <1>1. CASE IsStruct(u)
    <2>1. ~u.array /\ u # DoubleType /\ u # StringType
      BY <1>1, KindsDiffer DEF Scalars
    <2> QED
      BY <1>1, <2>1 DEF TraitsStep
  <1>2. CASE u.array
    <2>1. ~IsStruct(u) /\ u # DoubleType /\ u # StringType
      BY <1>2, KindsDiffer DEF Scalars
    <2> QED
      BY <1>2, <2>1 DEF TraitsStep, TraitsOfArray
  <1>3. CASE ~IsStruct(u) /\ ~u.array
    BY <1>3, BuiltinTypesDiffer DEF TraitsStep
  <1> QED
    BY <1>1, <1>2, <1>3

\* python_type of a tuple only looks at its fields,
LEMMA PythonOfTuples ==
  ASSUME SoundGame, NEW u \in FoundedTypes, NEW g, IsStruct(u), IsTuple(u)
  PROVE  PythonStep(u, g) =
           {<<"Tuple">>} \cup UNION {g[f.type] : f \in Range(StructOf(u).fields)}
  <1>1. ~u.array /\ u \notin {VoidType, DoubleType, StringType}
    BY KindsDiffer DEF Scalars
  <1> QED
    BY <1>1 DEF PythonStep

\* that of an array at its items,
LEMMA PythonOfArrays ==
  ASSUME SoundGame, NEW u \in FoundedTypes, NEW g, u.array
  PROVE  PythonStep(u, g) = {<<"List">>} \cup g[Element(u)]
  <1>1. ~IsStruct(u) /\ u \notin {VoidType, DoubleType, StringType}
    BY KindsDiffer DEF Scalars
  <1> QED
    BY <1>1 DEF PythonStep

\* and that of any other type at nothing.
LEMMA PythonOfNames ==
  ASSUME SoundGame, NEW u \in FoundedTypes, NEW g, ~u.array, ~(IsStruct(u) /\ IsTuple(u))
  PROVE  PythonStep(u, g) = CASE u = VoidType -> {<<"None">>}
                              [] u = DoubleType -> {<<"float">>}
                              [] u = StringType -> {<<"str">>}
                              [] OTHER -> {u.base}
  <1>1. CASE u = VoidType
    BY <1>1, BuiltinTypesDiffer DEF PythonStep
  <1>2. CASE u = DoubleType
    BY <1>2, BuiltinTypesDiffer DEF PythonStep
  <1>3. CASE u = StringType
    BY <1>3, BuiltinTypesDiffer DEF PythonStep
  <1>4. CASE u \notin {VoidType, DoubleType, StringType}
    BY <1>4 DEF PythonStep
  <1> QED
    BY <1>1, <1>2, <1>3, <1>4

\* rust_auto_traits, unfolded once.
LEMMA RustAutoTraitsIs ==
  ASSUME SoundGame
  PROVE  \A t \in FoundedTypes : RustAutoTraits[t] = TraitsStep(t, RustAutoTraits)
  <1>1. PICK V : V = SUBSET EveryTrait
    OBVIOUS
  <1>2. ASSUME NEW u \in FoundedTypes, NEW g \in [FoundedTypes -> V] PROVE TraitsStep(u, g) \in V
    <2>1. CASE IsStruct(u)
      BY <1>1, <2>1, TraitsSteps
    <2>2. CASE u.array
      <3>1. g[Element(u)] \in V
        BY <2>2, KindsDiffer, PartsAreFounded
      <3> QED
        BY <1>1, <2>2, <3>1, TraitsSteps
    <2>3. CASE ~IsStruct(u) /\ ~u.array
      BY <1>1, <2>3, TraitsSteps
    <2> QED
      BY <2>1, <2>2, <2>3
  <1>3. ASSUME NEW u \in FoundedTypes, NEW f \in [FoundedTypes -> V],
               NEW g \in [FoundedTypes -> V], \A v \in Parts(u) : f[v] = g[v]
        PROVE  TraitsStep(u, f) = TraitsStep(u, g)
    <2>1. CASE IsStruct(u)
      <3>1. \A e \in Range(StructOf(u).fields) : f[e.type] = g[e.type]
        BY <1>3, <2>1, KindsDiffer
      <3>2. TraitsStep(u, f) = {trait \in EveryTrait :
                                   \A e \in Range(StructOf(u).fields) : trait \in f[e.type]}
        BY <2>1, TraitsSteps
      <3>3. TraitsStep(u, g) = {trait \in EveryTrait :
                                   \A e \in Range(StructOf(u).fields) : trait \in g[e.type]}
        BY <2>1, TraitsSteps
      <3> QED
        BY <3>1, <3>2, <3>3
    <2>2. CASE u.array
      <3>1. f[Element(u)] = g[Element(u)]
        BY <1>3, <2>2, KindsDiffer
      <3> QED
        BY <2>2, <3>1, TraitsSteps
    <2>3. CASE ~IsStruct(u) /\ ~u.array
      BY <2>3, TraitsSteps
    <2> QED
      BY <2>1, <2>2, <2>3
  <1>4. PICK step :
           step = [u \in FoundedTypes |-> [g \in [FoundedTypes -> V] |-> TraitsStep(u, g)]]
    OBVIOUS
  <1>5. OverTypes(V, step)
    <2>1. step \in [FoundedTypes -> [[FoundedTypes -> V] -> V]]
      BY <1>2, <1>4
    <2>2. ASSUME NEW u \in FoundedTypes, NEW f \in [FoundedTypes -> V],
                 NEW g \in [FoundedTypes -> V], \A v \in Parts(u) : f[v] = g[v]
          PROVE  step[u][f] = step[u][g]
      BY <1>3, <1>4, <2>2
    <2> QED
      BY <2>1, <2>2 DEF OverTypes
  <1>6. PICK f \in [FoundedTypes -> V] : f = [u \in FoundedTypes |-> step[u][f]]
    <2>1. {} \in V
      BY <1>1
    <2> QED
      BY <1>5, <2>1, RecursionOverTypes
  <1>7. f = [u \in FoundedTypes |-> TraitsStep(u, f)]
    BY <1>4, <1>6
  <1>8. \E g : g = [u \in FoundedTypes |-> TraitsStep(u, g)]
    BY <1>7
  <1>9. RustAutoTraits = [u \in FoundedTypes |-> TraitsStep(u, RustAutoTraits)]
    BY <1>8, Zenon DEF RustAutoTraits, TraitsStep
  <1> QED
    BY <1>9

\* python_type, unfolded once.
LEMMA PythonTypeIs ==
  ASSUME SoundGame
  PROVE  \A t \in FoundedTypes : PythonType[t] = PythonStep(t, PythonType)
  <1>1. PICK V : V = SUBSET (PythonNames \cup types)
    OBVIOUS
  <1>2. ASSUME NEW u \in FoundedTypes, NEW g \in [FoundedTypes -> V] PROVE PythonStep(u, g) \in V
    <2>1. CASE IsStruct(u) /\ IsTuple(u)
      <3>1. \A f \in Range(StructOf(u).fields) : g[f.type] \in V
        BY <2>1, KindsDiffer, PartsAreFounded
      <3>2. PICK below : below = UNION {g[f.type] : f \in Range(StructOf(u).fields)}
        OBVIOUS
      <3>3. below \subseteq PythonNames \cup types
        BY <1>1, <3>1, <3>2
      <3>4. PythonStep(u, g) = {<<"Tuple">>} \cup below
        BY <2>1, <3>2, PythonOfTuples
      <3>5. <<"Tuple">> \in PythonNames
        BY DEF PythonNames
      <3> QED
        BY <1>1, <3>3, <3>4, <3>5
    <2>2. CASE u.array
      <3>1. g[Element(u)] \in V
        BY <2>2, KindsDiffer, PartsAreFounded
      <3>2. PythonStep(u, g) = {<<"List">>} \cup g[Element(u)]
        BY <2>2, PythonOfArrays
      <3>3. <<"List">> \in PythonNames
        BY DEF PythonNames
      <3> QED
        BY <1>1, <3>1, <3>2, <3>3
    <2>3. CASE ~u.array /\ ~(IsStruct(u) /\ IsTuple(u))
      <3>1. \E n \in {<<"None">>, <<"float">>, <<"str">>, u.base} : PythonStep(u, g) = {n}
        BY <2>3, PythonOfNames
      <3>2. {<<"None">>, <<"float">>, <<"str">>} \subseteq PythonNames
        BY DEF PythonNames
      <3>3. u.base \in types
        BY KindsDiffer
      <3> QED
        BY <1>1, <3>1, <3>2, <3>3
    <2> QED
      BY <2>1, <2>2, <2>3
  <1>3. ASSUME NEW u \in FoundedTypes, NEW f \in [FoundedTypes -> V],
               NEW g \in [FoundedTypes -> V], \A v \in Parts(u) : f[v] = g[v]
        PROVE  PythonStep(u, f) = PythonStep(u, g)
    <2>1. CASE IsStruct(u) /\ IsTuple(u)
      <3>1. \A e \in Range(StructOf(u).fields) : f[e.type] = g[e.type]
        BY <1>3, <2>1, KindsDiffer
      <3>2. {f[e.type] : e \in Range(StructOf(u).fields)}
              = {g[e.type] : e \in Range(StructOf(u).fields)}
        BY <3>1
      <3> QED
        BY <2>1, <3>2, PythonOfTuples
    <2>2. CASE u.array
      <3>1. f[Element(u)] = g[Element(u)]
        BY <1>3, <2>2, KindsDiffer
      <3> QED
        BY <2>2, <3>1, PythonOfArrays
    <2>3. CASE ~u.array /\ ~(IsStruct(u) /\ IsTuple(u))
      BY <2>3, PythonOfNames
    <2> QED
      BY <2>1, <2>2, <2>3
  <1>4. PICK step :
           step = [u \in FoundedTypes |-> [g \in [FoundedTypes -> V] |-> PythonStep(u, g)]]
    OBVIOUS
  <1>5. OverTypes(V, step)
    <2>1. step \in [FoundedTypes -> [[FoundedTypes -> V] -> V]]
      BY <1>2, <1>4
    <2>2. ASSUME NEW u \in FoundedTypes, NEW f \in [FoundedTypes -> V],
                 NEW g \in [FoundedTypes -> V], \A v \in Parts(u) : f[v] = g[v]
          PROVE  step[u][f] = step[u][g]
      BY <1>3, <1>4, <2>2
    <2> QED
      BY <2>1, <2>2 DEF OverTypes
  <1>6. PICK f \in [FoundedTypes -> V] : f = [u \in FoundedTypes |-> step[u][f]]
    <2>1. {} \in V
      BY <1>1
    <2> QED
      BY <1>5, <2>1, RecursionOverTypes
  <1>7. f = [u \in FoundedTypes |-> PythonStep(u, f)]
    BY <1>4, <1>6
  <1>8. \E g : g = [u \in FoundedTypes |-> PythonStep(u, g)]
    BY <1>7
  <1>9. PythonType = [u \in FoundedTypes |-> PythonStep(u, PythonType)]
    BY <1>8, Zenon DEF PythonType, PythonStep
  <1> QED
    BY <1>9

\* What is below a struct, from what is below its fields.
LEMMA BelowStructs ==
  ASSUME SoundGame, NEW u \in FoundedTypes, NEW g, IsStruct(u)
  PROVE  BelowStep(u, g) = {u} \cup UNION {g[f.type] : f \in Range(StructOf(u).fields)}
  <1>1. ~u.array
    BY KindsDiffer
  <1>2. PICK below : below = UNION {g[f.type] : f \in Range(StructOf(u).fields)}
    OBVIOUS
  <1>3. BelowStep(u, g) = {u} \cup {} \cup below
    BY <1>1, <1>2 DEF BelowStep
  <1> QED
    BY <1>2, <1>3

\* What is below any other type.
LEMMA BelowOthers ==
  ASSUME SoundGame, NEW u \in FoundedTypes, NEW g
  PROVE  /\ u.array => BelowStep(u, g) = {u} \cup g[Element(u)]
         /\ ~IsStruct(u) /\ ~u.array => BelowStep(u, g) = {u}
  <1>1. CASE u.array
    <2>1. ~IsStruct(u)
      BY <1>1, KindsDiffer
    <2> QED
      BY <1>1, <2>1 DEF BelowStep
  <1>2. CASE ~IsStruct(u) /\ ~u.array
    BY <1>2 DEF BelowStep
  <1> QED
    BY <1>1, <1>2

\* Below, unfolded once.
LEMMA BelowIs ==
  ASSUME SoundGame
  PROVE  \A t \in FoundedTypes : Below[t] = BelowStep(t, Below)
  <1>1. PICK V : V = SUBSET FoundedTypes
    OBVIOUS
  <1>2. ASSUME NEW u \in FoundedTypes, NEW g \in [FoundedTypes -> V] PROVE BelowStep(u, g) \in V
    <2>1. CASE IsStruct(u)
      <3>1. \A f \in Range(StructOf(u).fields) : g[f.type] \in V
        BY <2>1, KindsDiffer, PartsAreFounded
      <3>2. PICK below : below = UNION {g[f.type] : f \in Range(StructOf(u).fields)}
        OBVIOUS
      <3>3. below \subseteq FoundedTypes
        BY <1>1, <3>1, <3>2
      <3>4. BelowStep(u, g) = {u} \cup below
        BY <2>1, <3>2, BelowStructs
      <3> QED
        BY <1>1, <3>3, <3>4
    <2>2. CASE u.array
      <3>1. g[Element(u)] \in V
        BY <2>2, KindsDiffer, PartsAreFounded
      <3>2. BelowStep(u, g) = {u} \cup g[Element(u)]
        BY <2>2, BelowOthers
      <3> QED
        BY <1>1, <3>1, <3>2
    <2>3. CASE ~IsStruct(u) /\ ~u.array
      BY <1>1, <2>3, BelowOthers
    <2> QED
      BY <2>1, <2>2, <2>3
  <1>3. ASSUME NEW u \in FoundedTypes, NEW f \in [FoundedTypes -> V],
               NEW g \in [FoundedTypes -> V], \A v \in Parts(u) : f[v] = g[v]
        PROVE  BelowStep(u, f) = BelowStep(u, g)
    <2>1. CASE IsStruct(u)
      <3>1. \A e \in Range(StructOf(u).fields) : f[e.type] = g[e.type]
        BY <1>3, <2>1, KindsDiffer
      <3>2. {f[e.type] : e \in Range(StructOf(u).fields)}
              = {g[e.type] : e \in Range(StructOf(u).fields)}
        BY <3>1
      <3> QED
        BY <2>1, <3>2, BelowStructs
    <2>2. CASE u.array
      <3>1. f[Element(u)] = g[Element(u)]
        BY <1>3, <2>2, KindsDiffer
      <3> QED
        <4>1. BelowStep(u, f) = {u} \cup f[Element(u)] /\ BelowStep(u, g) = {u} \cup g[Element(u)]
          BY <2>2, BelowOthers
        <4> QED
          BY <3>1, <4>1
    <2>3. CASE ~IsStruct(u) /\ ~u.array
      BY <2>3, BelowOthers
    <2> QED
      BY <2>1, <2>2, <2>3
  <1>4. PICK step :
           step = [u \in FoundedTypes |-> [g \in [FoundedTypes -> V] |-> BelowStep(u, g)]]
    OBVIOUS
  <1>5. OverTypes(V, step)
    <2>1. step \in [FoundedTypes -> [[FoundedTypes -> V] -> V]]
      BY <1>2, <1>4
    <2>2. ASSUME NEW u \in FoundedTypes, NEW f \in [FoundedTypes -> V],
                 NEW g \in [FoundedTypes -> V], \A v \in Parts(u) : f[v] = g[v]
          PROVE  step[u][f] = step[u][g]
      BY <1>3, <1>4, <2>2
    <2> QED
      BY <2>1, <2>2 DEF OverTypes
  <1>6. PICK f \in [FoundedTypes -> V] : f = [u \in FoundedTypes |-> step[u][f]]
    <2>1. {} \in V
      BY <1>1
    <2> QED
      BY <1>5, <2>1, RecursionOverTypes
  <1>7. f = [u \in FoundedTypes |-> BelowStep(u, f)]
    BY <1>4, <1>6
  <1>8. \E g : g = [u \in FoundedTypes |-> BelowStep(u, g)]
    BY <1>7
  <1>9. Below = [u \in FoundedTypes |-> BelowStep(u, Below)]
    BY <1>8, Zenon DEF Below, BelowStep
  <1> QED
    BY <1>9

-----------------------------------------------------------------------------
(* What is generated for Python and Rust                                   *)

\* The names of structs that are tuples, which api.py has no class for.
TupleNames == {d.base : d \in {s \in Structs : IsTuple(s)}}

\* A hint mentions no tuple struct, by induction over types.
LEMMA PythonNamesClasses ==
  ASSUME SoundGame
  PROVE  \A t \in FoundedTypes : PythonType[t] \cap TupleNames \subseteq PythonNames
  <1>1. PICK C \in SUBSET FoundedTypes :
           C = {t \in FoundedTypes : PythonType[t] \cap TupleNames \subseteq PythonNames}
    OBVIOUS
  <1>2. ASSUME NEW t \in FoundedTypes, Parts(t) \subseteq C
        PROVE  t \in C
    <2>1. PythonType[t] = PythonStep(t, PythonType)
      BY PythonTypeIs
    <2>2. CASE t.array
      <3>1. Element(t) \in C
        BY <1>2, <2>2, KindsDiffer
      <3>2. PythonType[t] = {<<"List">>} \cup PythonType[Element(t)]
        BY <2>1, <2>2, PythonOfArrays
      <3>3. <<"List">> \in PythonNames
        BY DEF PythonNames
      <3> QED
        BY <1>1, <3>1, <3>2, <3>3
    <2>3. CASE IsStruct(t) /\ IsTuple(t)
      <3>1. \A f \in Range(StructOf(t).fields) : f.type \in C
        BY <1>2, <2>3, KindsDiffer
      <3>2. PICK below : below = UNION {PythonType[f.type] : f \in Range(StructOf(t).fields)}
        OBVIOUS
      <3>3. below \cap TupleNames \subseteq PythonNames
        BY <1>1, <3>1, <3>2
      <3>4. PythonType[t] = {<<"Tuple">>} \cup below
        BY <2>1, <2>3, <3>2, PythonOfTuples
      <3>5. <<"Tuple">> \in PythonNames
        BY DEF PythonNames
      <3> QED
        BY <1>1, <3>3, <3>4, <3>5
    <2>4. CASE ~t.array /\ ~(IsStruct(t) /\ IsTuple(t))
      <3>1. PICK n \in {<<"None">>, <<"float">>, <<"str">>, t.base} : PythonType[t] = {n}
        BY <2>1, <2>4, PythonOfNames
      <3>2. {<<"None">>, <<"float">>, <<"str">>} \subseteq PythonNames
        BY DEF PythonNames
      <3>3. t.base \notin TupleNames
        <4>1. SUFFICES ASSUME NEW d \in Structs, IsTuple(d), d.base = t.base PROVE FALSE
          BY DEF TupleNames
        <4>2. d = Plain(d.base) /\ IsStruct(d)
          BY StructsAreTheirs
        <4>3. t = Plain(t.base)
          BY <2>4, KindsDiffer
        <4> QED
          BY <2>4, <4>1, <4>2, <4>3
      <3> QED
        BY <1>1, <3>1, <3>2, <3>3
    <2> QED
      BY <2>2, <2>3, <2>4, KindsDiffer
  <1>3. C = FoundedTypes
    BY <1>2, FoundedInduction
  <1> QED
    BY <1>1, <1>3

\* What a type is made of has an array, or a string, to free.
OwnsMemory(t) == \E u \in Below[t] : u.array \/ u = StringType
HasDoubles(t) == DoubleType \in Below[t]

\* What a type owns and whether it has floats, from what its parts do.
LEMMA BelowParts ==
  ASSUME SoundGame, NEW t \in FoundedTypes
  PROVE  /\ IsStruct(t) =>
               /\ OwnsMemory(t) <=> \E f \in Range(StructOf(t).fields) : OwnsMemory(f.type)
               /\ HasDoubles(t) <=> \E f \in Range(StructOf(t).fields) : HasDoubles(f.type)
         /\ t.array => OwnsMemory(t) /\ (HasDoubles(t) <=> HasDoubles(Element(t)))
         /\ ~IsStruct(t) /\ ~t.array =>
               /\ OwnsMemory(t) <=> t = StringType
               /\ HasDoubles(t) <=> t = DoubleType
  <1>1. Below[t] = BelowStep(t, Below)
    BY BelowIs
  <1>2. CASE IsStruct(t)
    <2>1. ~t.array /\ t # StringType /\ t # DoubleType
      BY <1>2, KindsDiffer DEF Scalars
    <2>2. Below[t] = {t} \cup UNION {Below[f.type] : f \in Range(StructOf(t).fields)}
      BY <1>1, <1>2, BelowStructs
    <2>3. ASSUME NEW u, u # t
          PROVE  u \in Below[t] <=> \E f \in Range(StructOf(t).fields) : u \in Below[f.type]
      BY <2>2, <2>3
    <2>4. OwnsMemory(t) <=> \E f \in Range(StructOf(t).fields) : OwnsMemory(f.type)
      BY <2>1, <2>3 DEF OwnsMemory
    <2>5. HasDoubles(t) <=> \E f \in Range(StructOf(t).fields) : HasDoubles(f.type)
      BY <2>1, <2>3 DEF HasDoubles
    <2> QED
      BY <1>2, <2>1, <2>4, <2>5
  <1>3. CASE t.array
    <2>1. ~IsStruct(t) /\ t # StringType /\ t # DoubleType
      BY <1>3, KindsDiffer DEF Scalars
    <2>2. Below[t] = {t} \cup Below[Element(t)]
      BY <1>1, <1>3, BelowOthers
    <2> QED
      BY <1>3, <2>1, <2>2 DEF OwnsMemory, HasDoubles
  <1>4. CASE ~IsStruct(t) /\ ~t.array
    <2>1. Below[t] = {t}
      BY <1>1, <1>4, BelowOthers
    <2> QED
      BY <1>4, <2>1 DEF OwnsMemory, HasDoubles
  <1> QED
    BY <1>2, <1>3, <1>4

\* The traits of a type are those its parts leave it.
LeftTraits(t) ==
    {trait \in EveryTrait :
       /\ OwnsMemory(t) => trait # "Copy"
       /\ HasDoubles(t) => trait \notin {"Eq", "Hash", "Ord"}}

\* rust_auto_traits is what memory and floats leave, by induction over types.
LEMMA TraitsAreLeft ==
  ASSUME SoundGame
  PROVE  \A t \in FoundedTypes : RustAutoTraits[t] = LeftTraits(t)
  <1>1. PICK C \in SUBSET FoundedTypes :
           C = {t \in FoundedTypes : RustAutoTraits[t] = LeftTraits(t)}
    OBVIOUS
  <1>2. ASSUME NEW t \in FoundedTypes, Parts(t) \subseteq C
        PROVE  t \in C
    <2>1. RustAutoTraits[t] = TraitsStep(t, RustAutoTraits)
      BY RustAutoTraitsIs
    <2>2. CASE IsStruct(t)
      <3>1. \A f \in Range(StructOf(t).fields) : RustAutoTraits[f.type] = LeftTraits(f.type)
        BY <1>1, <1>2, <2>2, KindsDiffer
      <3>2. RustAutoTraits[t] = {trait \in EveryTrait :
                \A f \in Range(StructOf(t).fields) : trait \in RustAutoTraits[f.type]}
        BY <2>1, <2>2, TraitsSteps
      <3>3. /\ OwnsMemory(t) <=> \E f \in Range(StructOf(t).fields) : OwnsMemory(f.type)
            /\ HasDoubles(t) <=> \E f \in Range(StructOf(t).fields) : HasDoubles(f.type)
        BY <2>2, BelowParts
      <3>4. ASSUME NEW trait \in EveryTrait
            PROVE  trait \in RustAutoTraits[t] <=> trait \in LeftTraits(t)
        BY <3>1, <3>2, <3>3 DEF LeftTraits
      <3>5. RustAutoTraits[t] = LeftTraits(t)
        BY <3>2, <3>4 DEF LeftTraits
      <3> QED
        BY <1>1, <3>5
    <2>3. CASE t.array
      <3>1. RustAutoTraits[Element(t)] = LeftTraits(Element(t))
        BY <1>1, <1>2, <2>3, KindsDiffer
      <3>2. RustAutoTraits[t] = RustAutoTraits[Element(t)] \ {"Copy"}
        BY <2>1, <2>3, TraitsSteps
      <3>3. OwnsMemory(t) /\ (HasDoubles(t) <=> HasDoubles(Element(t)))
        BY <2>3, BelowParts
      <3>4. RustAutoTraits[t] = LeftTraits(t)
        BY <3>1, <3>2, <3>3 DEF LeftTraits
      <3> QED
        BY <1>1, <3>4
    <2>4. CASE ~IsStruct(t) /\ ~t.array
      <3>1. /\ OwnsMemory(t) <=> t = StringType
            /\ HasDoubles(t) <=> t = DoubleType
        BY <2>4, BelowParts
      <3>2. StringType # DoubleType
        BY BuiltinTypesDiffer
      <3>3. RustAutoTraits[t] = LeftTraits(t)
        <4>1. CASE t = StringType
          BY <2>1, <3>1, <3>2, <4>1, TraitsSteps DEF LeftTraits
        <4>2. CASE t = DoubleType
          BY <2>1, <3>1, <3>2, <4>2, TraitsSteps DEF LeftTraits
        <4>3. CASE t \notin {StringType, DoubleType}
          BY <2>1, <2>4, <3>1, <4>3, TraitsSteps DEF LeftTraits
        <4> QED
          BY <4>1, <4>2, <4>3
      <3> QED
        BY <1>1, <3>3
    <2> QED
      BY <2>2, <2>3, <2>4
  <1>3. C = FoundedTypes
    BY <1>2, FoundedInduction
  <1> QED
    BY <1>1, <1>3

\* What is copied owns nothing.
LEMMA CopiesOwnNothing ==
  ASSUME SoundGame
  PROVE  \A t \in FoundedTypes :
            RustIsCopy[t] => ~OwnsMemory(t) /\ ~t.array /\ t # StringType
  <1>1. PICK C \in SUBSET FoundedTypes :
           C = {t \in FoundedTypes : RustIsCopy[t] => ~OwnsMemory(t)}
    OBVIOUS
  <1>2. ASSUME NEW t \in FoundedTypes, Parts(t) \subseteq C
        PROVE  t \in C
    <2>1. CASE IsStruct(t) /\ IsTuple(t)
      <3>1. RustIsCopy[t] = \A f \in Range(StructOf(t).fields) : RustIsCopy[f.type]
        BY <2>1, RustIsCopyIs
      <3>2. \A f \in Range(StructOf(t).fields) : f.type \in C
        BY <1>2, <2>1, KindsDiffer
      <3>3. OwnsMemory(t) <=> \E f \in Range(StructOf(t).fields) : OwnsMemory(f.type)
        BY <2>1, BelowParts
      <3> QED
        BY <1>1, <3>1, <3>2, <3>3
    <2>2. CASE ~(IsStruct(t) /\ IsTuple(t))
      <3>1. SUFFICES ASSUME RustIsCopy[t] PROVE ~OwnsMemory(t)
        BY <1>1
      <3>2. IsEnum(t) \/ t \in Scalars \cup {VoidType}
        BY <2>2, <3>1, RustIsCopyIs
      <3>3. ~IsStruct(t) /\ ~t.array /\ t # StringType
        BY <3>2, KindsDiffer, BuiltinTypesDiffer DEF Scalars
      <3> QED
        BY <3>3, BelowParts
    <2> QED
      BY <2>1, <2>2
  <1>3. C = FoundedTypes
    BY <1>2, FoundedInduction
  <1>4. ASSUME NEW t \in FoundedTypes, ~OwnsMemory(t)
        PROVE  ~t.array /\ t # StringType
    <2>1. ~t.array
      BY <1>4, BelowParts
    <2>2. IsStruct(t) => t # StringType
      BY KindsDiffer
    <2> QED
      BY <1>4, <2>1, <2>2, BelowParts
  <1> QED
    BY <1>1, <1>3, <1>4

\* The first word of two lists.
LEMMA HeadOfConcat ==
  ASSUME NEW S, NEW s \in Seq(S), s # <<>>, NEW x \in Seq(S)
  PROVE  Head(s \o x) = Head(s)
  <1>1. PICK c : c = s \o x
    OBVIOUS
  <1>2. Len(s) \in Nat \ {0} /\ Len(x) \in Nat
    BY EmptySeq, LenProperties
  <1>3. /\ c \in Seq(S) /\ Len(c) = Len(s) + Len(x)
        /\ \A i \in 1 .. Len(s) + Len(x) : c[i] = IF i <= Len(s) THEN s[i] ELSE x[i - Len(s)]
    BY <1>1, ConcatProperties
  <1>4. 1 \in 1 .. Len(s) + Len(x) /\ 1 <= Len(s)
    BY <1>2
  <1>5. c[1] = s[1] /\ c # <<>>
    <2>1. c[1] = s[1]
      BY <1>3, <1>4
    <2>2. Len(c) # 0
      BY <1>2, <1>3
    <2> QED
      BY <2>1, <2>2, EmptySeq
  <1>6. Head(c) = c[1] /\ Head(s) = s[1]
    BY <1>3, <1>5
  <1> QED
    BY <1>1, <1>5, <1>6

\* The first word of a type made of a word and of others.
LEMMA HeadOfJoin ==
  ASSUME NEW S, NEW x \in Seq(S), NEW w
  PROVE  Head(<<w>> \o x) = w
  <1>1. PICK T : T = S \cup {w}
    OBVIOUS
  <1>2. x \in Seq(T) /\ <<w>> \in Seq(T) /\ Len(<<w>>) = 1
    BY <1>1, SeqMonotonic, OneWord
  <1>3. <<w>> # <<>> /\ Head(<<w>>) = w
    OBVIOUS
  <1> QED
    BY <1>2, <1>3, HeadOfConcat

\* What Rust calls a type that is no array, on each side.
LEMMA RustNames ==
  ASSUME SoundGame, NEW b \in types
  PROVE  /\ \E S : RustApiOutputType(Plain(b)) \in Seq(S)
         /\ Head(RustApiOutputType(Plain(b))) # "&"
         /\ \E S : RustFfiType(Plain(b)) \in Seq(S)
         /\ Head(RustFfiType(Plain(b))) # "Array"
         /\ Head(RustFfiType(Plain(b))) = "RawString" => b = <<"string">>
         /\ RustApiOutputType(ArrayOf(b)) = <<"Vec">> \o RustApiOutputType(Plain(b))
         /\ RustFfiType(ArrayOf(b)) = <<"Array">> \o RustFfiType(Plain(b))
  <1>1. ~Plain(b).array /\ Plain(b).base = b /\ ArrayOf(b).array /\ ArrayOf(b).base = b
    BY DeclaredTypes
  <1>2. PICK o : o = RustApiOutputType(Plain(b))
    OBVIOUS
  <1>3. PICK i : i = RustFfiType(Plain(b))
    OBVIOUS
  <1>4. RustApiOutputType(ArrayOf(b)) = <<"Vec">> \o o
    BY <1>1, <1>2 DEF RustApiOutputType
  <1>5. RustFfiType(ArrayOf(b)) = <<"Array">> \o i
    BY <1>1, <1>3 DEF RustFfiType
  <1>6. \A x, y : <<x>> = <<y>> => x = y
    OBVIOUS
  <1>7. ASSUME NEW x PROVE Head(<<x>>) = x /\ \E S : <<x>> \in Seq(S)
    <2>1. <<x>> \in Seq({x})
      BY OneWord
    <2>2. Head(<<x>>) = x
      OBVIOUS
    <2> QED
      BY <2>1, <2>2
  <1>8. CASE b = <<"bool">>
    <2>1. b \notin {<<"double">>, <<"int">>, <<"string">>, <<"void">>}
      BY <1>6, <1>8
    <2>2. o = <<"bool">> /\ i = <<"c_bool">>
      BY <1>1, <1>2, <1>3, <1>8, <2>1 DEF RustApiOutputType, RustFfiType
    <2> QED
      BY <1>2, <1>3, <1>4, <1>5, <1>7, <2>2
  <1>9. CASE b = <<"double">>
    <2>1. b \notin {<<"bool">>, <<"int">>, <<"string">>, <<"void">>}
      BY <1>6, <1>9
    <2>2. o = <<"f64">> /\ i = <<"c_double">>
      BY <1>1, <1>2, <1>3, <1>9, <2>1 DEF RustApiOutputType, RustFfiType
    <2> QED
      BY <1>2, <1>3, <1>4, <1>5, <1>7, <2>2
  <1>10. CASE b = <<"int">>
    <2>1. b \notin {<<"bool">>, <<"double">>, <<"string">>, <<"void">>}
      BY <1>6, <1>10
    <2>2. o = <<"i32">> /\ i = <<"c_int">>
      BY <1>1, <1>2, <1>3, <1>10, <2>1 DEF RustApiOutputType, RustFfiType
    <2> QED
      BY <1>2, <1>3, <1>4, <1>5, <1>7, <2>2
  <1>11. CASE b = <<"string">>
    <2>1. b \notin {<<"bool">>, <<"double">>, <<"int">>, <<"void">>}
      BY <1>6, <1>11
    <2>2. o = <<"String">> /\ i = <<"RawString">>
      BY <1>1, <1>2, <1>3, <1>11, <2>1 DEF RustApiOutputType, RustFfiType
    <2> QED
      <3>1. Head(o) = "String" /\ Head(i) = "RawString"
        BY <1>7, <2>2
      <3>2. (\E S : o \in Seq(S)) /\ (\E S : i \in Seq(S))
        BY <1>7, <2>2
      <3> QED
        BY <1>2, <1>3, <1>4, <1>5, <1>11, <3>1, <3>2
  <1>12. CASE b = <<"void">>
    <2>1. b \notin {<<"bool">>, <<"double">>, <<"int">>, <<"string">>}
      BY <1>6, <1>12
    <2>2. o = <<"()">> /\ i = <<"()">>
      BY <1>1, <1>2, <1>3, <1>12, <2>1 DEF RustApiOutputType, RustFfiType
    <2> QED
      BY <1>2, <1>3, <1>4, <1>5, <1>7, <2>2
  <1>13. CASE b \notin Builtin
    <2>1. b \notin {<<"bool">>, <<"double">>, <<"int">>, <<"string">>, <<"void">>}
      BY <1>13, BuiltinNamesAre
    <2>2. o = CamelCase(b) /\ i = CamelCase(b)
      BY <1>1, <1>2, <1>3, <2>1 DEF RustApiOutputType, RustFfiType
    <2>3. b \in Seq(Range(b))
      BY TypeNamesAreNames DEF IsList
    <2>4. Head(CamelCase(b)) = "camel"
      BY <2>3, HeadOfJoin DEF CamelCase
    <2>5. CamelCase(b) \in Seq(Range(b) \cup {"camel"})
      BY TypeNamesAreNames, PrefixedNames DEF CamelCase, Signs
    <2> QED
      BY <1>2, <1>3, <1>4, <1>5, <2>2, <2>4, <2>5
  <1> QED
    BY <1>8, <1>9, <1>10, <1>11, <1>12, <1>13, BuiltinNamesAre

\* References are taken of what is kept in a cell, which is what owns memory.
LEMMA RustArguments ==
  ASSUME SoundGame, NEW t \in FoundedTypes
  PROVE  /\ RustPassed(t) = "cell" <=> Head(RustApiInputType(t)) = "&"
         /\ Head(RustFfiType(t)) \in {"Array", "RawString"} => RustPassed(t) = "cell"
  <1>1. PICK b \in types : t = Plain(b) \/ t = ArrayOf(b)
    BY FoundedTypesAre
  <1>2. PICK S : RustApiOutputType(Plain(b)) \in Seq(S)
    BY RustNames
  <1>3. RustIsCopy[t] => ~t.array /\ t # StringType
    BY CopiesOwnNothing
  <1>4. CASE t = ArrayOf(b)
    <2>1. t.array /\ t.base = b /\ Element(t) = Plain(b)
      BY <1>4, DeclaredTypes
    <2>2. t # StringType /\ ~RustIsCopy[t]
      BY <1>3, <1>4, <2>1, KindsDiffer
    <2>3. RustPassed(t) = "cell"
      BY <2>2 DEF RustPassed
    <2>4. Head(RustApiInputType(t)) = "&"
      <3>1. CASE b = <<"string">>
        <4>1. RustApiInputType(t) = <<"&", "[impl AsRef]", "str">>
          BY <2>1, <2>2, <3>1 DEF RustApiInputType
        <4>2. Head(<<"&", "[impl AsRef]", "str">>) = "&"
          OBVIOUS
        <4> QED
          BY <4>1, <4>2
      <3>2. CASE b # <<"string">>
        <4>1. RustApiInputType(t) = <<"&", "[impl Borrow]">> \o RustApiOutputType(Plain(b))
          BY <2>1, <2>2, <3>2 DEF RustApiInputType
        <4>2. PICK T : T = S \cup {"&", "[impl Borrow]"}
          OBVIOUS
        <4>3. RustApiOutputType(Plain(b)) \in Seq(T)
          BY <1>2, <4>2, SeqMonotonic
        <4>4. /\ <<"&", "[impl Borrow]">> \in Seq(T) /\ <<"&", "[impl Borrow]">> # <<>>
              /\ Head(<<"&", "[impl Borrow]">>) = "&"
          <5>1. "&" \in T /\ "[impl Borrow]" \in T
            BY <4>2
          <5>2. \A x, y : x \in T /\ y \in T => <<x, y>> \in Seq(T)
            OBVIOUS
          <5>3. \A x, y : <<x, y>> # <<>> /\ Head(<<x, y>>) = x
            OBVIOUS
          <5> QED
            BY <5>1, <5>2, <5>3
        <4> QED
          BY <4>1, <4>3, <4>4, HeadOfConcat
      <3> QED
        BY <3>1, <3>2
    <2> QED
      BY <2>3, <2>4
  <1>5. CASE t = Plain(b)
    <2>1. ~t.array /\ t.base = b
      BY <1>5, DeclaredTypes
    <2>2. CASE t = StringType
      <3>1. ~RustIsCopy[t] /\ RustApiInputType(t) = <<"&", "str">>
        BY <1>3, <2>1, <2>2 DEF RustApiInputType
      <3> QED
        BY <3>1 DEF RustPassed
    <2>3. CASE t # StringType
      <3>1. b # <<"string">>
        BY <1>5, <2>3 DEF StringType
      <3>2. Head(RustFfiType(t)) \notin {"Array", "RawString"}
        BY <1>5, <3>1, RustNames
      <3>3. CASE RustIsCopy[t]
        <4>1. RustApiInputType(t) = RustApiOutputType(t)
          BY <2>1, <2>3, <3>3 DEF RustApiInputType
        <4>2. RustPassed(t) = "value"
          BY <3>3 DEF RustPassed
        <4> QED
          BY <1>5, <3>2, <4>1, <4>2, RustNames
      <3>4. CASE ~RustIsCopy[t]
        <4>1. RustApiInputType(t) = <<"&">> \o RustApiOutputType(t)
          BY <2>1, <2>3, <3>4 DEF RustApiInputType
        <4>2. Head(RustApiInputType(t)) = "&"
          BY <1>2, <1>5, <4>1, HeadOfJoin
        <4>3. RustPassed(t) = "cell"
          BY <3>4 DEF RustPassed
        <4> QED
          BY <3>2, <4>2, <4>3
      <3> QED
        BY <3>3, <3>4
    <2> QED
      BY <2>2, <2>3
  <1> QED
    BY <1>1, <1>4, <1>5

\* What api.rs derives, and what it passes by value, in a sound game.
LEMMA RustOwns ==
  ASSUME SoundGame PROVE RustOwnership
  <1> DEFINE owns(t) == \E u \in Below[t] : u.array \/ u = StringType
  <1>1. ASSUME NEW t \in AllTypes \cap FoundedTypes
        PROVE  /\ RustAutoTraits[t] =
                      EveryTrait \ ((IF owns(t) THEN {"Copy"} ELSE {})
                         \cup (IF DoubleType \in Below[t] THEN {"Eq", "Hash", "Ord"} ELSE {}))
               /\ RustPassed(t) = "value" => "Copy" \in RustAutoTraits[t] /\ ~owns(t)
               /\ \A f \in Range(game.function) : \A i \in DOMAIN f.args :
                     f.args[i].type = t =>
                        /\ RustPassed(t) = "cell"
                             <=> Head(RustPrototype(f, FALSE).args[i]) = "&"
                        /\ Head(RustPrototype(f, TRUE).args[i]) \in {"Array", "RawString"}
                             => RustPassed(t) = "cell"
    <2>1. OwnsMemory(t) <=> owns(t)
      BY DEF OwnsMemory
    <2>2. RustAutoTraits[t] = LeftTraits(t)
      BY TraitsAreLeft
    <2>3. RustAutoTraits[t] =
            EveryTrait \ ((IF owns(t) THEN {"Copy"} ELSE {})
               \cup (IF DoubleType \in Below[t] THEN {"Eq", "Hash", "Ord"} ELSE {}))
      <3>1. PICK o \in BOOLEAN : o <=> owns(t)
        OBVIOUS
      <3>2. PICK d \in BOOLEAN : d <=> DoubleType \in Below[t]
        OBVIOUS
      <3>3. LeftTraits(t) = EveryTrait \ ((IF o THEN {"Copy"} ELSE {})
                               \cup (IF d THEN {"Eq", "Hash", "Ord"} ELSE {}))
        <4> HIDE DEF owns
        <4> QED
          BY <2>1, <3>1, <3>2 DEF LeftTraits, HasDoubles
      <3> HIDE DEF owns
      <3> QED
        BY <2>2, <3>1, <3>2, <3>3
    <2>4. RustPassed(t) = "value" => "Copy" \in RustAutoTraits[t] /\ ~owns(t)
      <3>1. SUFFICES ASSUME RustPassed(t) = "value" PROVE "Copy" \in RustAutoTraits[t] /\ ~owns(t)
        OBVIOUS
      <3>2. RustIsCopy[t]
        BY <3>1 DEF RustPassed
      <3>3. ~OwnsMemory(t)
        BY <3>2, CopiesOwnNothing
      <3>4. "Copy" \in EveryTrait
        BY DEF EveryTrait
      <3> QED
        BY <2>1, <2>2, <3>3, <3>4 DEF LeftTraits
    <2>5. ASSUME NEW f \in Range(game.function), NEW i \in DOMAIN f.args, f.args[i].type = t
          PROVE  /\ RustPassed(t) = "cell"
                      <=> Head(RustPrototype(f, FALSE).args[i]) = "&"
                 /\ Head(RustPrototype(f, TRUE).args[i]) \in {"Array", "RawString"}
                      => RustPassed(t) = "cell"
      <3>1. /\ RustPrototype(f, FALSE).args[i] = RustApiInputType(t)
            /\ RustPrototype(f, TRUE).args[i] = RustFfiType(t)
        BY <2>5 DEF RustPrototype
      <3> QED
        BY <3>1, RustArguments
    <2> QED
      BY <2>3, <2>4, <2>5
  <1> QED
    BY <1>1 DEF RustOwnership

-----------------------------------------------------------------------------
(* What C and api.py name                                                  *)

\* A word put before or after lists makes lists as different as they were.
LEMMA JoinedWord ==
  ASSUME NEW a, IsList(a), NEW b, IsList(b), NEW w
  PROVE  /\ a \o <<w>> = b \o <<w>> => a = b
         /\ Last(a \o <<w>>) = w
         /\ <<w>> \o a = <<w>> \o b => a = b
  <1>1. PICK T : T = Range(a) \cup Range(b) \cup {w}
    OBVIOUS
  <1>2. a \in Seq(T) /\ b \in Seq(T) /\ <<w>> \in Seq(T)
    BY <1>1, SeqMonotonic, OneWord DEF IsList
  <1>3. a \o <<w>> = b \o <<w>> => a = b
    <2>1. \A S : \A s, t, v \in Seq(S) : s \o v = t \o v => s = t
      BY ConcatSimplifications
    <2> QED
      BY <1>2, <2>1
  <1>4. <<w>> \o a = <<w>> \o b => a = b
    <2>1. \A S : \A s, t, v \in Seq(S) : s \o t = s \o v => t = v
      BY ConcatSimplifications
    <2> QED
      BY <1>2, <2>1
  <1>5. Last(a \o <<w>>) = w
    BY <1>2, OneSign
  <1> QED
    BY <1>3, <1>4, <1>5

\* A type of the game is a known name, or an array of one.
LEMMA AllTypesAre ==
  ASSUME SoundGame, NEW t \in AllTypes
  PROVE  \E b \in types : t = Plain(b) \/ t = ArrayOf(b)
  <1>1. CASE t \in Structs
    BY <1>1, StructsAreTheirs
  <1>2. CASE t \in CrossingTypes \cup InnerTypes
    <2>1. IsType(t) /\ t.base \in types
      BY <1>2, CrossingAreUsed DEF SoundGame
    <2> QED
      BY <2>1, TypeShape
  <1> QED
    BY <1>1, <1>2 DEF AllTypes

\* c_type of a name and of an array of it.
LEMMA CTypesAre ==
  ASSUME NEW b
  PROVE  /\ CType(Plain(b)) = IF b = <<"string">> THEN <<"char*">> ELSE b
         /\ CType(ArrayOf(b)) = b \o <<"array">>
  <1>1. /\ ~Plain(b).array /\ Plain(b).base = b /\ ArrayOf(b).array /\ ArrayOf(b).base = b
        /\ \A c : Plain(b) = Plain(c) => b = c
        /\ \A c : ArrayOf(b) # Plain(c)
    BY DeclaredTypes
  <1>2. Plain(b) = StringType <=> b = <<"string">>
    BY <1>1 DEF StringType
  <1>3. ArrayOf(b) # StringType
    BY <1>1 DEF StringType
  <1> QED
    BY <1>1, <1>2, <1>3 DEF CType

\* Every name that C and api.py use in a sound game is that of one type.
LEMMA DeclaredNames ==
  ASSUME SoundGame PROVE NamesDeclared
  <1>1. ASSUME NEW t \in CrossingTypes \cup InnerTypes, t.array
        PROVE  CType(t) \in CArrays
    <2>1. t \in TypesUsedBy(game)
      BY CrossingAreUsed
    <2>2. t \in usedTypes /\ IsType(t)
      BY <1>1, <2>1 DEF SoundGame
    <2>3. t = ArrayOf(t.base)
      BY <1>1, <2>2, TypeShape, DeclaredTypes
    <2>4. CType(t) = t.base \o <<"array">>
      BY <2>3, CTypesAre
    <2>5. t.base \in UsedArrayTypes
      BY <1>1, <2>2 DEF UsedArrayTypes
    <2> QED
      BY <2>4, <2>5 DEF CArrays
  <1>2. ASSUME NEW b \in types, NEW c \in types, b = c \o <<"array">> \/ c = b \o <<"array">>
        PROVE  \E d \in Enums \cup Structs : Last(d.base) = "array"
    <2>1. ASSUME NEW n \in types, NEW m \in types, n = m \o <<"array">>
          PROVE  \E d \in Enums \cup Structs : Last(d.base) = "array"
      <3>1. Last(n) = "array"
        BY <2>1, TypeNamesAreNames, JoinedWord
      <3>2. n \notin Builtin
        <4>1. \A x : Last(<<x>>) = x
          BY DEF Last
        <4> QED
          BY <3>1, <4>1, BuiltinNamesAre
      <3>3. Plain(n) \in Enums \cup Structs
        BY <3>2, NameKinds, DeclaredTypes
      <3>4. Plain(n).base = n
        BY DeclaredTypes
      <3> QED
        BY <3>1, <3>3, <3>4
    <2> QED
      BY <1>2, <2>1
  <1>3. ASSUME NEW t \in AllTypes, NEW u \in AllTypes, CType(t) = CType(u)
        PROVE  t = u \/ \E d \in Enums \cup Structs : Last(d.base) = "array"
    <2>1. PICK b \in types : t = Plain(b) \/ t = ArrayOf(b)
      BY AllTypesAre
    <2>2. PICK c \in types : u = Plain(c) \/ u = ArrayOf(c)
      BY AllTypesAre
    <2>3. IsList(b) /\ IsList(c) /\ "char*" \notin Range(b) \cup Range(c)
      BY TypeNamesAreNames DEF Signs
    <2>4. ASSUME NEW n \in {b, c} PROVE n # <<"char*">> /\ n \o <<"array">> # <<"char*">>
      <3>1. n # <<"char*">>
        <4>1. Range(<<"char*">>) = {"char*"}
          BY DEF Range
        <4> QED
          BY <2>3, <4>1
      <3>2. Last(n \o <<"array">>) = "array"
        BY <2>3, JoinedWord
      <3>3. Last(<<"char*">>) = "char*"
        BY DEF Last
      <3> QED
        BY <3>1, <3>2, <3>3
    <2>5. CASE t = Plain(b) /\ u = Plain(c)
      <3>1. b = c
        BY <1>3, <2>4, <2>5, CTypesAre
      <3> QED
        BY <2>5, <3>1
    <2>6. CASE t = ArrayOf(b) /\ u = ArrayOf(c)
      <3>1. b \o <<"array">> = c \o <<"array">>
        BY <1>3, <2>6, CTypesAre
      <3>2. b = c
        BY <2>3, <3>1, JoinedWord
      <3> QED
        BY <2>6, <3>2
    <2>7. CASE t = Plain(b) /\ u = ArrayOf(c)
      <3>1. b = c \o <<"array">>
        BY <1>3, <2>4, <2>7, CTypesAre
      <3> QED
        BY <1>2, <3>1
    <2>8. CASE t = ArrayOf(b) /\ u = Plain(c)
      <3>1. c = b \o <<"array">>
        BY <1>3, <2>4, <2>8, CTypesAre
      <3> QED
        BY <1>2, <3>1
    <2> QED
      BY <2>1, <2>2, <2>5, <2>6, <2>7, <2>8
  <1>4. \A t \in AllTypes \cap FoundedTypes :
           PythonType[t] \cap {d.base : d \in {s \in Structs : IsTuple(s)}} \subseteq PythonNames
    BY PythonNamesClasses DEF TupleNames
  <1> QED
    BY <1>1, <1>3, <1>4 DEF NamesDeclared

-----------------------------------------------------------------------------
(* The parameters of the functions of OCaml                                *)

\* A list is made of its items.
LEMMA FlattenSingletons ==
  ASSUME NEW S, NEW s \in Seq(S)
  PROVE  FlattenSeq([i \in DOMAIN s |-> <<s[i]>>]) = s
  <1>1. PICK Q : Q = {x \in Seq(S) : FlattenSeq([i \in DOMAIN x |-> <<x[i]>>]) = x}
    OBVIOUS
  <1>2. <<>> \in Q
    <2>1. [i \in DOMAIN <<>> |-> <<(<<>>)[i]>>] = <<>>
      OBVIOUS
    <2>2. FlattenSeq(<<>>) = <<>> /\ <<>> \in Seq(S)
      BY EmptySeq DEF FlattenSeq
    <2> QED
      BY <1>1, <2>1, <2>2
  <1>3. ASSUME NEW x \in Seq(S), NEW e \in S, x \in Q PROVE Append(x, e) \in Q
    <2>1. PICK n \in Nat : n = Len(x)
      BY LenProperties
    <2>2. PICK y : y = Append(x, e)
      OBVIOUS
    <2>3. /\ y \in Seq(S) /\ Len(y) = n + 1 /\ DOMAIN y = 1 .. n + 1 /\ DOMAIN x = 1 .. n
          /\ \A i \in 1 .. n : y[i] = x[i]
          /\ y[n + 1] = e
      <3>1. y \in Seq(S) /\ Len(y) = n + 1 /\ y[n + 1] = e /\ \A i \in 1 .. n : y[i] = x[i]
        BY <2>1, <2>2, AppendProperties
      <3> QED
        BY <2>1, <3>1, LenProperties
    <2>4. PICK p : p = [i \in DOMAIN x |-> <<x[i]>>]
      OBVIOUS
    <2>5. PICK q : q = [i \in DOMAIN y |-> <<y[i]>>]
      OBVIOUS
    <2>6. \A i \in 1 .. n : x[i] \in S
      BY <2>1, ElementOfSeq
    <2>7. p \in Seq(Seq(S)) /\ Len(p) = n
      <3>1. p \in [1 .. n -> Seq(S)]
        BY <2>3, <2>4, <2>6, OneWord
      <3> QED
        BY <3>1, ListOf
    <2>8. q \in Seq(Seq(S)) /\ Len(q) = n + 1
      <3>1. \A i \in 1 .. n + 1 : y[i] \in S
        BY <2>3, ElementOfSeq
      <3>2. q \in [1 .. n + 1 -> Seq(S)]
        BY <2>3, <2>5, <3>1, OneWord
      <3> QED
        BY <3>2, ListOf
    <2>9. q = Append(p, <<e>>)
      <3>1. <<e>> \in Seq(S)
        BY OneWord
      <3>2. PICK r : r = Append(p, <<e>>)
        OBVIOUS
      <3>3. /\ r \in Seq(Seq(S)) /\ Len(r) = n + 1 /\ r[n + 1] = <<e>>
            /\ \A i \in 1 .. n : r[i] = p[i]
        BY <2>7, <3>1, <3>2, AppendProperties
      <3>4. \A i \in 1 .. n : r[i] = <<x[i]>> /\ q[i] = <<y[i]>>
        BY <2>3, <2>4, <2>5, <3>3
      <3>5. q[n + 1] = <<y[n + 1]>>
        BY <2>3, <2>5
      <3>6. ASSUME NEW i \in 1 .. n + 1 PROVE q[i] = r[i]
        <4>1. CASE i \in 1 .. n
          BY <2>3, <3>4, <4>1
        <4>2. CASE i = n + 1
          BY <2>3, <3>3, <3>5, <4>2
        <4> QED
          BY <4>1, <4>2
      <3> QED
        BY <2>8, <3>2, <3>3, <3>6, SeqEqual
    <2>10. FlattenSeq(q) = FlattenSeq(p) \o <<e>>
      BY <2>7, <2>9, OneWord, FlattenAppend
    <2>11. FlattenSeq(p) = x
      BY <1>1, <1>3, <2>4
    <2>12. x \o <<e>> = y
      BY <2>2, AppendIsConcat
    <2>13. FlattenSeq([i \in DOMAIN y |-> <<y[i]>>]) = y
      <3>1. FlattenSeq(q) = y
        BY <2>10, <2>11, <2>12
      <3> QED
        BY <3>1, <2>5
    <2>14. y \in Q
      BY <1>1, <2>3, <2>13
    <2> QED
      BY <2>2, <2>14
  <1>4. Seq(S) \subseteq Q
    BY <1>2, <1>3, ListInduction
  <1> QED
    BY <1>1, <1>4

\* The parameters that the first k macros declare.
DeclaredBy(p, k) == SubSeq(p, 1, IF 5 * k < Len(p) THEN 5 * k ELSE Len(p))

\* A macro declares one parameter to five, those that follow the earlier macros'.
LEMMA MacroIsChunk ==
  ASSUME NEW S, NEW p \in Seq(S), Len(p) >= 1,
         NEW k \in 1 .. (Len(p) + 4) \div 5
  PROVE  LET macro == SubSeq(p, 5 * k - 4, ChunkEnd(5 * k - 4, Len(p))) IN
         /\ macro \in Seq(S) /\ Len(macro) \in 1 .. 5
         /\ DeclaredBy(p, k - 1) \o macro = DeclaredBy(p, k)
  <1>1. PICK n \in Nat : n = Len(p) /\ n >= 1
    BY LenProperties
  <1>2. k \in Nat /\ k >= 1 /\ 5 * k - 4 <= n
    BY <1>1
  <1>3. PICK e : e = ChunkEnd(5 * k - 4, n)
    OBVIOUS
  <1>4. /\ e \in Nat /\ 5 * k - 4 <= e /\ e <= n /\ e <= 5 * k
        /\ e = (IF 5 * k < n THEN 5 * k ELSE n)
    <2>1. PICK h \in Nat : h = 5 * k - 4
      BY <1>2
    <2>2. h + 4 = 5 * k
      BY <1>2, <2>1
    <2>3. e = (IF h + 4 < n THEN h + 4 ELSE n)
      BY <1>3, <2>1 DEF ChunkEnd
    <2> QED
      BY <1>1, <1>2, <2>1, <2>2, <2>3
  <1>5. PICK a \in Nat : a = 5 * k - 4
    BY <1>2
  <1>6. PICK m : m = SubSeq(p, a, e)
    OBVIOUS
  <1>7. m \in Seq(S) /\ Len(m) = e - a + 1
    <2>1. \A i \in a .. e : p[i] \in S
      <3>1. \A i \in 1 .. Len(p) : p[i] \in S
        BY ElementOfSeq
      <3> QED
        BY <1>1, <1>2, <1>4, <1>5, <3>1
    <2>2. a <= e
      BY <1>4, <1>5
    <2> QED
      BY <1>4, <1>6, <2>1, <2>2, SubSeqProperties
  <1>8. Len(m) \in 1 .. 5
    BY <1>4, <1>5, <1>7
  <1>9. SubSeq(p, 1, a - 1) \o SubSeq(p, a, e) = SubSeq(p, 1, e)
    <2>1. PICK b \in Nat : b = a - 1
      BY <1>2, <1>5
    <2>2. b + 1 = a
      BY <2>1, <1>5
    <2>3. 1 \in 1 .. Len(p) + 1 /\ b \in 1 - 1 .. Len(p) /\ e \in b .. Len(p)
      BY <1>1, <1>2, <1>4, <1>5, <2>1
    <2>4. SubSeq(p, 1, b) \o SubSeq(p, b + 1, e) = SubSeq(p, 1, e)
      BY <2>3, ConcatAdjacentSubSeq
    <2> QED
      BY <2>1, <2>2, <2>4
  <1>10. DeclaredBy(p, k - 1) = SubSeq(p, 1, a - 1)
    <2>1. (IF 5 * (k - 1) < n THEN 5 * (k - 1) ELSE n) = a - 1
      BY <1>1, <1>2, <1>4, <1>5
    <2> QED
      BY <1>1, <2>1 DEF DeclaredBy
  <1>11. DeclaredBy(p, k) = SubSeq(p, 1, e)
    BY <1>1, <1>4 DEF DeclaredBy
  <1> QED
    BY <1>1, <1>3, <1>5, <1>6, <1>7, <1>8, <1>9, <1>10, <1>11

\* The macros declare all the parameters in their order, by induction over macros.
LEMMA MacrosDeclare ==
  ASSUME NEW S, NEW p \in Seq(S), Len(p) >= 1
  PROVE  /\ CamlParamMacro(p) # <<>>
         /\ \A k \in DOMAIN CamlParamMacro(p) : Len(CamlParamMacro(p)[k]) \in 1 .. 5
         /\ FlattenSeq(CamlParamMacro(p)) = p
  <1>1. PICK n \in Nat : n = Len(p) /\ n >= 1
    BY LenProperties
  <1>2. PICK K \in Nat : K = (n + 4) \div 5 /\ K >= 1 /\ 5 * K >= n
    BY <1>1
  <1>3. PICK m : m = CamlParamMacro(p)
    OBVIOUS
  <1>4. ASSUME NEW k \in 1 .. K
        PROVE  /\ m[k] \in Seq(S) /\ Len(m[k]) \in 1 .. 5
               /\ DeclaredBy(p, k - 1) \o m[k] = DeclaredBy(p, k)
    <2>1. m[k] = SubSeq(p, 5 * k - 4, ChunkEnd(5 * k - 4, Len(p)))
      BY <1>1, <1>2, <1>3 DEF CamlParamMacro
    <2>2. k \in 1 .. (Len(p) + 4) \div 5
      BY <1>1, <1>2
    <2> QED
      BY <2>1, <2>2, MacroIsChunk
  <1>5. DOMAIN m = 1 .. K
    BY <1>1, <1>2, <1>3 DEF CamlParamMacro
  <1>6. m = [i \in 1 .. K |-> m[i]]
    BY <1>1, <1>2, <1>3 DEF CamlParamMacro
  <1> DEFINE First(k) == [i \in 1 .. k |-> m[i]]
  <1>7. ASSUME NEW k \in 0 .. K
        PROVE  First(k) \in Seq(Seq(S)) /\ Len(First(k)) = k
    <2>1. First(k) \in [1 .. k -> Seq(S)]
      <3>1. \A i \in 1 .. k : m[i] \in Seq(S)
        <4>1. 1 .. k \subseteq 1 .. K
          BY <1>2
        <4>2. \A i \in 1 .. K : m[i] \in Seq(S)
          BY <1>4
        <4> QED
          BY <4>1, <4>2
      <3> QED
        BY <3>1
    <2> HIDE DEF First
    <2> QED
      BY <2>1, ListOf
  <1>8. PICK T : T = {k \in Nat : k <= K => FlattenSeq(First(k)) = DeclaredBy(p, k)}
    OBVIOUS
  <1>9. 0 \in T
    <2>1. First(0) = <<>>
      OBVIOUS
    <2>2. FlattenSeq(First(0)) = <<>>
      BY <2>1, EmptySeq, FlattenAppend
    <2>3. DeclaredBy(p, 0) = <<>>
      BY <1>1, SubSeqEmpty DEF DeclaredBy
    <2> QED
      BY <1>8, <2>2, <2>3
  <1>10. ASSUME NEW k \in Nat, k \in T PROVE k + 1 \in T
    <2>1. CASE k + 1 <= K
      <3>1. PICK x : x = First(k)
        OBVIOUS
      <3>2. PICK y : y = First(k + 1)
        OBVIOUS
      <3>3. x \in Seq(Seq(S)) /\ Len(x) = k /\ y \in Seq(Seq(S)) /\ Len(y) = k + 1
        <4>1. k \in 0 .. K /\ k + 1 \in 0 .. K
          BY <1>2, <2>1
        <4> QED
          BY <1>7, <3>1, <3>2, <4>1
      <3>4. PICK c : c = m[k + 1]
        OBVIOUS
      <3>5. c \in Seq(S) /\ DeclaredBy(p, k) \o c = DeclaredBy(p, k + 1)
        <4>1. k + 1 \in 1 .. K /\ (k + 1) - 1 = k
          BY <1>2, <2>1
        <4> QED
          BY <1>4, <3>4, <4>1
      <3>6. y = Append(x, c)
        <4>1. PICK z : z = Append(x, c)
          OBVIOUS
        <4>2. /\ z \in Seq(Seq(S)) /\ Len(z) = k + 1 /\ z[k + 1] = c
              /\ \A i \in 1 .. k : z[i] = x[i]
          BY <3>3, <3>5, <4>1, AppendProperties
        <4>3. \A i \in 1 .. k + 1 : y[i] = m[i]
          BY <3>2
        <4>4. \A i \in 1 .. k : x[i] = m[i]
          BY <3>1
        <4>5. \A i \in 1 .. k + 1 : y[i] = z[i]
          BY <3>4, <4>2, <4>3, <4>4
        <4> QED
          BY <3>3, <4>1, <4>2, <4>5, SeqEqual
      <3>7. FlattenSeq(y) = FlattenSeq(x) \o c
        BY <3>3, <3>5, <3>6, FlattenAppend
      <3>8. FlattenSeq(x) = DeclaredBy(p, k)
        BY <1>2, <1>8, <1>10, <2>1, <3>1
      <3>9. FlattenSeq(First(k + 1)) = DeclaredBy(p, k + 1)
        BY <3>2, <3>5, <3>7, <3>8
      <3> HIDE DEF First
      <3> QED
        BY <1>8, <3>9
    <2>2. CASE ~(k + 1 <= K)
      BY <1>8, <2>2
    <2> QED
      BY <2>1, <2>2
  <1>11. Nat \subseteq T
    BY <1>9, <1>10, SetInduction
  <1>12. FlattenSeq(First(K)) = DeclaredBy(p, K)
    <2>1. K \in T /\ K <= K
      BY <1>2, <1>11
    <2> HIDE DEF First
    <2> QED
      BY <1>8, <2>1
  <1>13. FlattenSeq(m) = DeclaredBy(p, K)
    BY <1>6, <1>12
  <1>14. DeclaredBy(p, K) = p
    <2>1. (IF 5 * K < n THEN 5 * K ELSE n) = n
      BY <1>1, <1>2
    <2>2. DeclaredBy(p, K) = SubSeq(p, 1, Len(p))
      BY <1>1, <2>1 DEF DeclaredBy
    <2> QED
      BY <2>2, SubSeqFull
  <1>15. m # <<>>
    <2>1. 1 \in DOMAIN m
      BY <1>2, <1>5
    <2>2. DOMAIN <<>> = {}
      OBVIOUS
    <2> QED
      BY <2>1, <2>2
  <1> HIDE DEF First
  <1> QED
    BY <1>3, <1>4, <1>5, <1>13, <1>14, <1>15

\* The primitives of a sound game declare their parameters once each.
LEMMA DeclaredParameters ==
  ASSUME SoundGame PROVE CamlParameters
  <1>1. ASSUME NEW f \in Range(game.function)
        PROVE  LET macros == CamlParamMacro(CamlParams(f)) IN
               /\ macros # <<>>
               /\ \A k \in DOMAIN macros : Len(macros[k]) \in 1 .. 5
               /\ FlattenSeq(macros) = CamlParams(f)
               /\ <<"unit">> \notin Range(Names(f.args)) => CamlCallArgs(f) = Names(f.args)
    <2>1. IsList(f.args)
      BY DEF SoundGame, Shaped
    <2>2. PICK p : p = CamlParams(f)
      OBVIOUS
    <2>3. PICK q : q = Names(f.args)
      OBVIOUS
    <2>4. IsList(q) /\ Len(q) = Len(f.args)
      BY <2>1, <2>3, NamesAreList
    <2>5. IsList(p) /\ Len(p) >= 1 /\ (f.args = <<>> \/ p = q)
      <3>1. CASE f.args = <<>>
        <4>1. p = << <<"unit">> >>
          BY <2>2, <3>1 DEF CamlParams
        <4>2. << <<"unit">> >> \in Seq({<<"unit">>}) /\ Range(<< <<"unit">> >>) = {<<"unit">>}
          BY OneWord DEF Range
        <4> QED
          BY <3>1, <4>1, <4>2 DEF IsList
      <3>2. CASE f.args # <<>>
        <4>1. p = q
          BY <2>2, <2>3, <3>2 DEF CamlParams
        <4>2. Len(f.args) >= 1
          BY <2>1, <3>2, EmptySeq DEF IsList
        <4> QED
          BY <2>4, <4>1, <4>2
      <3> QED
        BY <3>1, <3>2
    <2>6. /\ CamlParamMacro(p) # <<>>
          /\ \A k \in DOMAIN CamlParamMacro(p) : Len(CamlParamMacro(p)[k]) \in 1 .. 5
          /\ FlattenSeq(CamlParamMacro(p)) = p
      BY <2>5, MacrosDeclare DEF IsList
    <2>7. ASSUME <<"unit">> \notin Range(q) PROVE CamlCallArgs(f) = q
      <3>1. CASE f.args = <<>>
        <4>1. p = << <<"unit">> >>
          BY <2>2, <3>1 DEF CamlParams
        <4>2. CamlCallArgs(f) = FlattenSeq(<< <<>> >>)
          <5>1. [i \in DOMAIN p |-> IF p[i] = <<"unit">> THEN <<>> ELSE <<p[i]>>] = << <<>> >>
            BY <4>1
          <5> QED
            BY <2>2, <5>1 DEF CamlCallArgs
        <4>3. FlattenSeq(<< <<>> >>) = <<>>
          <5>1. <<>> \in Seq({}) /\ <<>> \in Seq(Seq({}))
            BY EmptySeq
          <5>2. << <<>> >> = Append(<<>>, <<>>)
            OBVIOUS
          <5>3. FlattenSeq(<< <<>> >>) = FlattenSeq(<<>>) \o <<>> /\ FlattenSeq(<<>>) = <<>>
            BY <5>1, <5>2, FlattenAppend
          <5> QED
            BY <5>1, <5>3, ConcatEmptySeq
        <4>4. q = <<>>
          BY <2>3, <3>1 DEF Names
        <4> QED
          BY <4>2, <4>3, <4>4
      <3>2. CASE f.args # <<>>
        <4>1. p = q
          BY <2>5, <3>2
        <4>2. \A i \in DOMAIN q : q[i] # <<"unit">>
          BY <2>7 DEF Range
        <4>3. [i \in DOMAIN q |-> IF q[i] = <<"unit">> THEN <<>> ELSE <<q[i]>>]
                = [i \in DOMAIN q |-> <<q[i]>>]
          BY <4>2
        <4>4. CamlCallArgs(f) = FlattenSeq([i \in DOMAIN q |-> <<q[i]>>])
          <5>1. CamlCallArgs(f) =
                  FlattenSeq([i \in DOMAIN p |-> IF p[i] = <<"unit">> THEN <<>> ELSE <<p[i]>>])
            BY <2>2 DEF CamlCallArgs
          <5> QED
            BY <4>1, <4>3, <5>1
        <4> QED
          BY <2>4, <4>4, FlattenSingletons DEF IsList
      <3> QED
        BY <3>1, <3>2
    <2> QED
      BY <2>2, <2>3, <2>6, <2>7
  <1> QED
    BY <1>1 DEF CamlParameters

-----------------------------------------------------------------------------
(* The array types of Haskell                                              *)

NoTwins(list) == \A i, j \in DOMAIN list : list[i] = list[j] => i = j

\* What WithoutTwins keeps of each item of a list.
OnceKept(list) ==
    [i \in DOMAIN list |->
       IF \E j \in 1 .. i - 1 : list[j] = list[i] THEN <<>> ELSE <<list[i]>>]

\* OnceKept gives a list of lists, one for each item.
LEMMA OnceKeptIs ==
  ASSUME NEW S, NEW s \in Seq(S)
  PROVE  OnceKept(s) \in Seq(Seq(S)) /\ Len(OnceKept(s)) = Len(s)
  <1>1. PICK n \in Nat : n = Len(s) /\ DOMAIN s = 1 .. n
    BY LenProperties
  <1>2. \A i \in 1 .. n : s[i] \in S
    BY <1>1, ElementOfSeq
  <1>3. <<>> \in Seq(S) /\ \A e \in S : <<e>> \in Seq(S)
    BY EmptySeq, OneWord
  <1>4. OnceKept(s) \in [1 .. n -> Seq(S)]
    BY <1>1, <1>2, <1>3 DEF OnceKept
  <1> QED
    BY <1>1, <1>4, ListOf

\* An item at the end of a list is kept if it is not there yet.
LEMMA OnceKeptAppend ==
  ASSUME NEW S, NEW x \in Seq(S), NEW e \in S, NEW last,
         last = IF e \in Range(x) THEN <<>> ELSE <<e>>
  PROVE  OnceKept(Append(x, e)) = Append(OnceKept(x), last)
  <1>1. PICK n \in Nat : n = Len(x)
    BY LenProperties
  <1>2. PICK y : y = Append(x, e)
    OBVIOUS
  <1>3. /\ y \in Seq(S) /\ Len(y) = n + 1 /\ DOMAIN y = 1 .. n + 1 /\ DOMAIN x = 1 .. n
        /\ \A i \in 1 .. n : y[i] = x[i]
        /\ y[n + 1] = e
    <2>1. y \in Seq(S) /\ Len(y) = n + 1 /\ y[n + 1] = e /\ \A i \in 1 .. n : y[i] = x[i]
      BY <1>1, <1>2, AppendProperties
    <2> QED
      BY <1>1, <2>1, LenProperties
  <1>4. PICK p : p = OnceKept(x)
    OBVIOUS
  <1>5. PICK q : q = OnceKept(y)
    OBVIOUS
  <1>6. p \in Seq(Seq(S)) /\ Len(p) = n /\ q \in Seq(Seq(S)) /\ Len(q) = n + 1
    BY <1>1, <1>3, <1>4, <1>5, OnceKeptIs
  <1>7. last \in Seq(S)
    BY OneWord, EmptySeq
  <1>8. PICK r : r = Append(p, last)
    OBVIOUS
  <1>9. /\ r \in Seq(Seq(S)) /\ Len(r) = n + 1 /\ r[n + 1] = last
        /\ \A i \in 1 .. n : r[i] = p[i]
    BY <1>6, <1>7, <1>8, AppendProperties
  <1>10. ASSUME NEW i \in 1 .. n + 1 PROVE q[i] = r[i]
    <2>1. q[i] = IF \E j \in 1 .. i - 1 : y[j] = y[i] THEN <<>> ELSE <<y[i]>>
      BY <1>3, <1>5 DEF OnceKept
    <2>2. CASE i \in 1 .. n
      <3>1. p[i] = IF \E j \in 1 .. i - 1 : x[j] = x[i] THEN <<>> ELSE <<x[i]>>
        BY <1>3, <1>4, <2>2 DEF OnceKept
      <3>2. y[i] = x[i] /\ \A j \in 1 .. i - 1 : y[j] = x[j]
        <4>1. 1 .. i - 1 \subseteq 1 .. n
          BY <2>2
        <4> QED
          BY <1>3, <2>2, <4>1
      <3>3. q[i] = p[i]
        BY <2>1, <3>1, <3>2
      <3> QED
        BY <1>9, <2>2, <3>3
    <2>3. CASE i = n + 1
      <3>1. (\E j \in 1 .. i - 1 : y[j] = y[i]) <=> e \in Range(x)
        <4>1. 1 .. i - 1 = 1 .. n
          BY <2>3
        <4>2. Range(x) = {x[j] : j \in 1 .. n}
          BY <1>3 DEF Range
        <4>3. (\E j \in 1 .. n : y[j] = y[i]) <=> \E j \in 1 .. n : x[j] = e
          BY <1>3, <2>3
        <4> QED
          BY <4>1, <4>2, <4>3
      <3>2. y[i] = e /\ r[i] = last
        BY <1>3, <1>9, <2>3
      <3> QED
        BY <2>1, <3>1, <3>2
    <2> QED
      BY <2>2, <2>3
  <1> QED
    BY <1>2, <1>4, <1>5, <1>6, <1>8, <1>9, <1>10, SeqEqual

\* A list without twins has the same items, each once.
LEMMA TwinsAreLeft ==
  ASSUME NEW S, NEW s \in Seq(S)
  PROVE  /\ WithoutTwins(s) \in Seq(S)
         /\ Range(WithoutTwins(s)) = Range(s)
         /\ NoTwins(WithoutTwins(s))
  <1>1. PICK Q : Q = {x \in Seq(S) : /\ FlattenSeq(OnceKept(x)) \in Seq(S)
                                     /\ Range(FlattenSeq(OnceKept(x))) = Range(x)
                                     /\ NoTwins(FlattenSeq(OnceKept(x)))}
    OBVIOUS
  <1>2. <<>> \in Q
    <2>1. OnceKept(<<>>) = <<>>
      BY DEF OnceKept
    <2>2. FlattenSeq(<<>>) = <<>> /\ <<>> \in Seq(S)
      BY EmptySeq DEF FlattenSeq
    <2>3. NoTwins(<<>>)
      BY DEF NoTwins
    <2> QED
      BY <1>1, <2>1, <2>2, <2>3
  <1>3. ASSUME NEW x \in Seq(S), NEW e \in S, x \in Q PROVE Append(x, e) \in Q
    <2>1. PICK last : last = IF e \in Range(x) THEN <<>> ELSE <<e>>
      OBVIOUS
    <2>2. PICK z : z = FlattenSeq(OnceKept(x))
      OBVIOUS
    <2>3. z \in Seq(S) /\ Range(z) = Range(x) /\ NoTwins(z)
      BY <1>1, <1>3, <2>2
    <2>4. PICK y : y = Append(x, e)
      OBVIOUS
    <2>5. PICK w : w = FlattenSeq(OnceKept(y))
      OBVIOUS
    <2>6. last \in Seq(S)
      BY <2>1, OneWord, EmptySeq
    <2>7. w = z \o last
      <3>1. OnceKept(y) = Append(OnceKept(x), last)
        BY <2>1, <2>4, OnceKeptAppend
      <3> QED
        BY <2>2, <2>5, <2>6, <3>1, OnceKeptIs, FlattenAppend
    <2>8. y \in Seq(S) /\ Range(y) = Range(x) \cup {e}
      <3>1. y = x \o <<e>> /\ <<e>> \in Seq(S) /\ y \in Seq(S)
        BY <2>4, AppendIsConcat, AppendProperties, OneWord
      <3>2. Range(<<e>>) = {e}
        BY DEF Range
      <3>3. Range(x \o <<e>>) = Range(x) \cup Range(<<e>>)
        <4>1. <<e>> \in Seq(S)
          BY <3>1
        <4>2. \A u, v \in Seq(S) : Range(u \o v) = Range(u) \cup Range(v)
          BY RangeConcatenation
        <4> QED
          BY <4>1, <4>2
      <3> QED
        BY <3>1, <3>2, <3>3
    <2>9. w \in Seq(S) /\ Range(w) = Range(y) /\ NoTwins(w)
      <3>1. CASE e \in Range(x)
        <4>1. w = z
          BY <2>1, <2>3, <2>7, <3>1, ConcatEmptySeq
        <4> QED
          BY <2>3, <2>8, <3>1, <4>1
      <3>2. CASE e \notin Range(x)
        <4>1. w = Append(z, e)
          BY <2>1, <2>3, <2>7, <3>2, AppendIsConcat
        <4>2. PICK n \in Nat : n = Len(z) /\ DOMAIN z = 1 .. n
          BY <2>3, LenProperties
        <4>3. /\ w \in Seq(S) /\ Len(w) = n + 1 /\ w[n + 1] = e
              /\ \A i \in 1 .. n : w[i] = z[i]
          BY <2>3, <4>1, <4>2, AppendProperties
        <4>4. DOMAIN w = 1 .. n + 1
          BY <4>3, LenProperties
        <4>5. \A i \in 1 .. n : z[i] # e
          BY <2>3, <3>2, <4>2 DEF Range
        <4>6. NoTwins(w)
          <5>1. \A i, j \in 1 .. n : z[i] = z[j] => i = j
            BY <2>3, <4>2 DEF NoTwins
          <5>2. \A i \in 1 .. n + 1 : i \in 1 .. n \/ i = n + 1
            BY <4>2
          <5> QED
            BY <4>3, <4>4, <4>5, <5>1, <5>2 DEF NoTwins
        <4>7. Range(w) = Range(z) \cup {e}
          <5>1. w = z \o <<e>> /\ <<e>> \in Seq(S)
            BY <2>3, <4>1, AppendIsConcat, OneWord
          <5>2. Range(<<e>>) = {e}
            BY DEF Range
          <5>3. z \in Seq(S) /\ <<e>> \in Seq(S)
            BY <2>3, <5>1
          <5>4. Range(z \o <<e>>) = Range(z) \cup Range(<<e>>)
            <6>1. \A u, v \in Seq(S) : Range(u \o v) = Range(u) \cup Range(v)
              BY RangeConcatenation
            <6> QED
              BY <5>3, <6>1
          <5> QED
            BY <5>1, <5>2, <5>4
        <4> QED
          BY <2>3, <2>8, <4>3, <4>6, <4>7
      <3> QED
        BY <3>1, <3>2
    <2> QED
      BY <1>1, <2>4, <2>5, <2>8, <2>9
  <1>4. Seq(S) \subseteq Q
    BY <1>2, <1>3, ListInduction
  <1>5. WithoutTwins(s) = FlattenSeq(OnceKept(s))
    BY DEF WithoutTwins, OnceKept
  <1> QED
    BY <1>1, <1>4, <1>5

\* The types that HaskellArrays goes through: those the game uses.
MetTypes ==
    FlattenSeq([i \in DOMAIN game.struct |-> FieldTypes(game.struct[i])])
      \o FlattenSeq([i \in DOMAIN AllFunctions(game) |->
                       <<AllFunctions(game)[i].ret>>
                         \o FieldTypes([fields |-> AllFunctions(game)[i].args])])

\* FlattenItems, for lists of anything.
LEMMA FlattenLists ==
  ASSUME NEW seqs, IsList(seqs), \A i \in DOMAIN seqs : IsList(seqs[i])
  PROVE  /\ IsList(FlattenSeq(seqs))
         /\ Range(FlattenSeq(seqs)) = UNION {Range(seqs[i]) : i \in DOMAIN seqs}
  <1>1. PICK S : S = UNION {Range(seqs[i]) : i \in DOMAIN seqs}
    OBVIOUS
  <1>2. PICK n \in Nat : n = Len(seqs) /\ DOMAIN seqs = 1 .. n
    BY LenProperties DEF IsList
  <1>3. ASSUME NEW i \in 1 .. n PROVE seqs[i] \in Seq(S)
    <2>1. seqs[i] \in Seq(Range(seqs[i]))
      BY <1>2 DEF IsList
    <2>2. Range(seqs[i]) \subseteq S
      BY <1>1, <1>2
    <2> QED
      BY <2>1, <2>2, SeqMonotonic
  <1>4. seqs \in Seq(Seq(S))
    <2>1. seqs \in [1 .. n -> Seq(S)]
      <3>1. seqs \in [1 .. n -> Range(seqs)]
        BY <1>2, LenProperties DEF IsList
      <3>2. \A i \in 1 .. n : seqs[i] \in Seq(S)
        BY <1>3
      <3> QED
        BY <3>1, <3>2
    <2> QED
      BY <2>1, ListOf
  <1>5. /\ FlattenSeq(seqs) \in Seq(S)
        /\ Range(FlattenSeq(seqs)) = UNION {Range(seqs[i]) : i \in DOMAIN seqs}
    <2>1. \A C : \A q \in Seq(Seq(C)) :
             /\ FlattenSeq(q) \in Seq(C)
             /\ Range(FlattenSeq(q)) = UNION {Range(q[i]) : i \in DOMAIN q}
      BY FlattenItems
    <2> QED
      BY <1>4, <2>1
  <1> QED
    BY <1>1, <1>5 DEF IsList

\* The types of a list of fields or arguments.
LEMMA FieldTypesAre ==
  ASSUME NEW r, IsList(r.fields)
  PROVE  IsList(FieldTypes(r)) /\ Range(FieldTypes(r)) = {e.type : e \in Range(r.fields)}
  <1>1. PICK l : l = r.fields
    OBVIOUS
  <1>2. PICK n \in Nat : n = Len(l) /\ DOMAIN l = 1 .. n
    BY <1>1, LenProperties DEF IsList
  <1>3. FieldTypes(r) = [i \in 1 .. n |-> l[i].type]
    BY <1>1, <1>2 DEF FieldTypes
  <1>4. PICK m : m = FieldTypes(r)
    OBVIOUS
  <1>5. m \in [1 .. n -> Range(m)]
    <2>1. m = [i \in 1 .. n |-> l[i].type]
      BY <1>3, <1>4
    <2> QED
      BY <2>1 DEF Range
  <1>6. IsList(m)
    BY <1>5, ListOf DEF IsList
  <1>7. Range(m) = {e.type : e \in Range(l)}
    <2>1. Range(l) = {l[i] : i \in 1 .. n}
      BY <1>2 DEF Range
    <2>2. Range(m) = {l[i].type : i \in 1 .. n}
      BY <1>3, <1>4 DEF Range
    <2> QED
      BY <2>1, <2>2
  <1> QED
    BY <1>1, <1>4, <1>6, <1>7

\* The types of a signature.
LEMMA SignaturesAre ==
  ASSUME NEW f, IsList(f.args)
  PROVE  LET s == <<f.ret>> \o FieldTypes([fields |-> f.args]) IN
         IsList(s) /\ Range(s) = {f.ret} \cup {e.type : e \in Range(f.args)}
  <1>1. PICK l : l = FieldTypes([fields |-> f.args])
    OBVIOUS
  <1>2. IsList(l) /\ Range(l) = {e.type : e \in Range(f.args)}
    <2>1. PICK r : r = [fields |-> f.args]
      OBVIOUS
    <2>2. r.fields = f.args
      BY <2>1
    <2> QED
      BY <1>1, <2>1, <2>2, FieldTypesAre
  <1>3. IsList(<<f.ret>>) /\ Range(<<f.ret>>) = {f.ret}
    <2>1. Range(<<f.ret>>) = {f.ret}
      BY DEF Range
    <2> QED
      BY <2>1, OneWord DEF IsList
  <1>4. IsList(<<f.ret>> \o l) /\ Range(<<f.ret>> \o l) = Range(<<f.ret>>) \cup Range(l)
    BY <1>2, <1>3, JoinedLists
  <1> QED
    BY <1>1, <1>2, <1>3, <1>4

\* haskell_get_array_types goes through every type the game uses.
LEMMA MetTypesAre ==
  ASSUME SoundGame
  PROVE  IsList(MetTypes) /\ Range(MetTypes) = TypesUsedBy(game)
  <1>1. PICK L : L = game.struct
    OBVIOUS
  <1>2. PICK F : F = AllFunctions(game)
    OBVIOUS
  <1>3. IsList(L) /\ \A s \in Range(L) : IsList(s.fields)
    <2>1. IsList(game.struct)
      BY ShapedLists DEF SoundGame
    <2> QED
      BY <1>1, <2>1 DEF SoundGame, Shaped
  <1>4. IsList(F) /\ Range(F) = ListedFunctions(game)
    <2>1. IsList(game.function) /\ IsList(game.user_function)
      BY ShapedLists DEF SoundGame
    <2> QED
      BY <1>2, <2>1, JoinedLists DEF AllFunctions, ListedFunctions
  <1>5. \A f \in Range(F) : IsList(f.args)
    BY <1>4 DEF SoundGame, Shaped, ListedFunctions
  <1>6. PICK a : a = [i \in DOMAIN L |-> FieldTypes(L[i])]
    OBVIOUS
  <1>7. PICK b : b = [i \in DOMAIN F |-> <<F[i].ret>> \o FieldTypes([fields |-> F[i].args])]
    OBVIOUS
  <1>8. \A i \in DOMAIN L :
           IsList(a[i]) /\ Range(a[i]) = {e.type : e \in Range(L[i].fields)}
    <2>1. ASSUME NEW i \in DOMAIN L
          PROVE  IsList(a[i]) /\ Range(a[i]) = {e.type : e \in Range(L[i].fields)}
      <3>1. PICK s : s = L[i]
        OBVIOUS
      <3>2. IsList(s.fields)
        BY <1>3, <3>1 DEF Range
      <3>3. a[i] = FieldTypes(s)
        BY <1>6, <3>1
      <3> QED
        BY <3>1, <3>2, <3>3, FieldTypesAre
    <2> QED
      BY <2>1
  <1>9. \A i \in DOMAIN F :
           IsList(b[i]) /\ Range(b[i]) = {F[i].ret} \cup {e.type : e \in Range(F[i].args)}
    <2>1. ASSUME NEW i \in DOMAIN F
          PROVE  IsList(b[i]) /\ Range(b[i]) = {F[i].ret} \cup {e.type : e \in Range(F[i].args)}
      <3>1. PICK f : f = F[i]
        OBVIOUS
      <3>2. IsList(f.args)
        BY <1>5, <3>1 DEF Range
      <3>3. b[i] = <<f.ret>> \o FieldTypes([fields |-> f.args])
        BY <1>7, <3>1
      <3> QED
        BY <3>1, <3>2, <3>3, SignaturesAre
    <2> QED
      BY <2>1
  <1>10. /\ IsList(FlattenSeq(a))
         /\ Range(FlattenSeq(a)) = UNION {Range(a[i]) : i \in DOMAIN L}
    <2>1. IsList(a) /\ DOMAIN a = DOMAIN L
      BY <1>3, <1>6, AlongList
    <2>2. \A i \in DOMAIN a : IsList(a[i])
      BY <1>8, <2>1
    <2> QED
      BY <2>1, <2>2, FlattenLists
  <1>11. /\ IsList(FlattenSeq(b))
         /\ Range(FlattenSeq(b)) = UNION {Range(b[i]) : i \in DOMAIN F}
    <2>1. IsList(b) /\ DOMAIN b = DOMAIN F
      BY <1>4, <1>7, AlongList
    <2>2. \A i \in DOMAIN b : IsList(b[i])
      BY <1>9, <2>1
    <2> QED
      BY <2>1, <2>2, FlattenLists
  <1>12. MetTypes = FlattenSeq(a) \o FlattenSeq(b)
    <2>1. a = [i \in DOMAIN game.struct |-> FieldTypes(game.struct[i])]
      BY <1>1, <1>6
    <2>2. b = [i \in DOMAIN AllFunctions(game) |->
                 <<AllFunctions(game)[i].ret>>
                   \o FieldTypes([fields |-> AllFunctions(game)[i].args])]
      BY <1>2, <1>7
    <2> QED
      BY <2>1, <2>2 DEF MetTypes
  <1>13. /\ IsList(MetTypes)
         /\ Range(MetTypes) = Range(FlattenSeq(a)) \cup Range(FlattenSeq(b))
    BY <1>10, <1>11, <1>12, JoinedLists
  <1>14. TypesUsedBy(game) =
           {e.type : e \in UNION {Range(s.fields) : s \in Range(L)}}
             \cup {f.ret : f \in Range(F)}
             \cup {e.type : e \in UNION {Range(f.args) : f \in Range(F)}}
    BY <1>1, <1>2 DEF TypesUsedBy
  <1>15. UNION {Range(a[i]) : i \in DOMAIN L} =
           {e.type : e \in UNION {Range(s.fields) : s \in Range(L)}}
    <2>1. \A i \in DOMAIN L : Range(a[i]) = {e.type : e \in Range(L[i].fields)}
      BY <1>8
    <2>2. Range(L) = {L[i] : i \in DOMAIN L}
      BY DEF Range
    <2>3. PICK A : A = UNION {Range(s.fields) : s \in Range(L)}
      OBVIOUS
    <2>4. UNION {Range(a[i]) : i \in DOMAIN L} \subseteq {e.type : e \in A}
      <3>1. ASSUME NEW i \in DOMAIN L PROVE Range(a[i]) \subseteq {e.type : e \in A}
        <4>1. PICK s \in Range(L) : s = L[i]
          BY <2>2
        <4>2. Range(s.fields) \subseteq A
          BY <2>3
        <4> QED
          BY <2>1, <4>1, <4>2
      <3> QED
        BY <3>1
    <2>5. {e.type : e \in A} \subseteq UNION {Range(a[i]) : i \in DOMAIN L}
      <3>1. ASSUME NEW s \in Range(L)
            PROVE  {e.type : e \in Range(s.fields)} \subseteq UNION {Range(a[i]) : i \in DOMAIN L}
        <4>1. PICK i \in DOMAIN L : s = L[i]
          BY <2>2
        <4>2. Range(a[i]) = {e.type : e \in Range(s.fields)}
          BY <2>1, <4>1
        <4> QED
          BY <4>2
      <3>2. \A e \in A : \E s \in Range(L) : e \in Range(s.fields)
        BY <2>3
      <3> QED
        BY <3>1, <3>2
    <2> QED
      BY <2>3, <2>4, <2>5
  <1>16. UNION {Range(b[i]) : i \in DOMAIN F} =
           {f.ret : f \in Range(F)}
             \cup {e.type : e \in UNION {Range(f.args) : f \in Range(F)}}
    <2>1. \A i \in DOMAIN F :
             Range(b[i]) = {F[i].ret} \cup {e.type : e \in Range(F[i].args)}
      BY <1>9
    <2>2. Range(F) = {F[i] : i \in DOMAIN F}
      BY DEF Range
    <2>3. PICK A : A = UNION {Range(f.args) : f \in Range(F)}
      OBVIOUS
    <2>4. UNION {Range(b[i]) : i \in DOMAIN F} \subseteq
            {f.ret : f \in Range(F)} \cup {e.type : e \in A}
      <3>1. ASSUME NEW i \in DOMAIN F
            PROVE  Range(b[i]) \subseteq {f.ret : f \in Range(F)} \cup {e.type : e \in A}
        <4>1. PICK f \in Range(F) : f = F[i]
          BY <2>2
        <4>2. Range(f.args) \subseteq A
          BY <2>3
        <4>3. Range(b[i]) = {f.ret} \cup {e.type : e \in Range(f.args)}
          BY <2>1, <4>1
        <4> QED
          BY <4>2, <4>3
      <3> QED
        BY <3>1
    <2>5. {f.ret : f \in Range(F)} \cup {e.type : e \in A} \subseteq
            UNION {Range(b[i]) : i \in DOMAIN F}
      <3>1. ASSUME NEW f \in Range(F)
            PROVE  {f.ret} \cup {e.type : e \in Range(f.args)} \subseteq
                     UNION {Range(b[i]) : i \in DOMAIN F}
        <4>1. PICK i \in DOMAIN F : f = F[i]
          BY <2>2
        <4>2. Range(b[i]) = {f.ret} \cup {e.type : e \in Range(f.args)}
          BY <2>1, <4>1
        <4> QED
          BY <4>2
      <3>2. \A e \in A : \E f \in Range(F) : e \in Range(f.args)
        BY <2>3
      <3> QED
        BY <3>1, <3>2
    <2> QED
      BY <2>3, <2>4, <2>5
  <1> QED
    BY <1>10, <1>11, <1>13, <1>14, <1>15, <1>16

\* It adds a pair for each array it meets.
LEMMA PairsAre ==
  ASSUME NEW list, IsList(list), NEW pairs,
         pairs = FlattenSeq([i \in DOMAIN list |-> AddArrayType(list[i])])
  PROVE  /\ IsList(pairs)
         /\ Range(pairs) = {<<HaskellCType(t), t>> : t \in {u \in Range(list) : u.array}}
  <1>1. PICK d : d = [i \in DOMAIN list |-> AddArrayType(list[i])]
    OBVIOUS
  <1>2. IsList(d) /\ DOMAIN d = DOMAIN list
    BY <1>1, AlongList
  <1>3. ASSUME NEW i \in DOMAIN list, NEW t, t = list[i]
        PROVE  /\ IsList(d[i])
               /\ t.array => Range(d[i]) = {<<HaskellCType(t), t>>}
               /\ ~t.array => Range(d[i]) = {}
    <2>1. PICK pair : pair = <<HaskellCType(t), t>>
      OBVIOUS
    <2>2. d[i] = IF t.array THEN <<pair>> ELSE <<>>
      BY <1>1, <1>3, <2>1 DEF AddArrayType
    <2>3. <<pair>> \in Seq({pair}) /\ Range(<<pair>>) = {pair}
      BY OneWord DEF Range
    <2>4. <<>> \in Seq({}) /\ Range(<<>>) = {}
      BY EmptySeq DEF Range
    <2> QED
      BY <2>1, <2>2, <2>3, <2>4 DEF IsList
  <1>4. IsList(FlattenSeq(d)) /\ Range(FlattenSeq(d)) = UNION {Range(d[i]) : i \in DOMAIN list}
    <2>1. \A i \in DOMAIN d : IsList(d[i])
      BY <1>2, <1>3
    <2> QED
      BY <1>2, <2>1, FlattenLists
  <1>5. PICK R : R = {<<HaskellCType(t), t>> : t \in {u \in Range(list) : u.array}}
    OBVIOUS
  <1>6. PICK U : U = UNION {Range(d[i]) : i \in DOMAIN list}
    OBVIOUS
  <1>7. U \subseteq R
    <2>1. ASSUME NEW i \in DOMAIN list PROVE Range(d[i]) \subseteq R
      <3>1. PICK t : t = list[i]
        OBVIOUS
      <3>2. t \in Range(list)
        BY <3>1 DEF Range
      <3>3. CASE t.array
        <4>1. <<HaskellCType(t), t>> \in R
          BY <1>5, <3>2, <3>3
        <4> QED
          BY <1>3, <3>1, <3>3, <4>1
      <3>4. CASE ~t.array
        BY <1>3, <3>1, <3>4
      <3> QED
        BY <3>3, <3>4
    <2> QED
      BY <1>6, <2>1
  <1>8. R \subseteq U
    <2>1. ASSUME NEW t \in Range(list), t.array PROVE <<HaskellCType(t), t>> \in U
      <3>1. PICK i \in DOMAIN list : t = list[i]
        BY DEF Range
      <3>2. <<HaskellCType(t), t>> \in Range(d[i])
        BY <1>3, <2>1, <3>1
      <3> QED
        BY <1>6, <3>2
    <2> QED
      BY <1>5, <2>1
  <1> QED
    BY <1>1, <1>4, <1>5, <1>6, <1>7, <1>8

\* It returns a pair for each array type of the game, once.
LEMMA ArraysAre ==
  ASSUME SoundGame
  PROVE  /\ IsList(HaskellArrays) /\ NoTwins(HaskellArrays)
         /\ Range(HaskellArrays) =
              {<<HaskellCType(t), t>> : t \in {u \in TypesUsedBy(game) : u.array}}
  <1>1. PICK met : met = MetTypes
    OBVIOUS
  <1>2. PICK pairs : pairs = FlattenSeq([i \in DOMAIN met |-> AddArrayType(met[i])])
    OBVIOUS
  <1>3. HaskellArrays = WithoutTwins(pairs)
    BY <1>1, <1>2 DEF HaskellArrays, MetTypes
  <1>4. IsList(met) /\ Range(met) = TypesUsedBy(game)
    BY <1>1, MetTypesAre
  <1>5. IsList(pairs) /\ Range(pairs) = {<<HaskellCType(t), t>> : t \in {u \in Range(met) : u.array}}
    BY <1>2, <1>4, PairsAre
  <1>6. PICK S : S = Range(pairs)
    OBVIOUS
  <1>7. pairs \in Seq(S)
    BY <1>5, <1>6 DEF IsList
  <1>8. /\ WithoutTwins(pairs) \in Seq(S) /\ Range(WithoutTwins(pairs)) = Range(pairs)
        /\ NoTwins(WithoutTwins(pairs))
    BY <1>7, TwinsAreLeft
  <1>9. IsList(HaskellArrays) /\ NoTwins(HaskellArrays) /\ Range(HaskellArrays) = Range(pairs)
    BY <1>3, <1>6, <1>8 DEF IsList
  <1> QED
    BY <1>4, <1>5, <1>9

\* Two array types have two Haskell names.
LEMMA HaskellNamesDiffer ==
  ASSUME SoundGame, NEW t \in TypesUsedBy(game), NEW u \in TypesUsedBy(game),
         t.array, u.array, HaskellCType(t) = HaskellCType(u)
  PROVE  t = u
  <1>1. ASSUME NEW v \in TypesUsedBy(game), v.array
        PROVE  v = ArrayOf(v.base) /\ IsList(v.base)
               /\ HaskellCType(v) = (<<"capital">> \o v.base) \o <<"array">>
    <2>1. IsType(v) /\ v.base \in types
      BY DEF SoundGame
    <2>2. v = ArrayOf(v.base)
      BY <1>1, <2>1, TypeShape, DeclaredTypes
    <2>3. IsList(v.base)
      BY <2>1, TypeNamesAreNames
    <2> QED
      BY <1>1, <2>2, <2>3 DEF HaskellCType, Capitalised
  <1>2. PICK b : b = t.base
    OBVIOUS
  <1>3. PICK c : c = u.base
    OBVIOUS
  <1>4. t = ArrayOf(b) /\ u = ArrayOf(c) /\ IsList(b) /\ IsList(c)
        /\ (<<"capital">> \o b) \o <<"array">> = (<<"capital">> \o c) \o <<"array">>
    BY <1>1, <1>2, <1>3
  <1>5. IsList(<<"capital">>)
    <2>1. Range(<<"capital">>) = {"capital"}
      BY DEF Range
    <2> QED
      BY <2>1, OneWord DEF IsList
  <1>6. IsList(<<"capital">> \o b) /\ IsList(<<"capital">> \o c)
    BY <1>4, <1>5, JoinedLists
  <1>7. <<"capital">> \o b = <<"capital">> \o c
    BY <1>4, <1>6, JoinedWord
  <1>8. b = c
    BY <1>4, <1>7, JoinedWord
  <1> QED
    BY <1>4, <1>8

\* Each array type of a sound game has its instance, once.
LEMMA InstancesOfHaskell ==
  ASSUME SoundGame PROVE HaskellInstances
  <1>1. PICK h : h = HaskellArrays
    OBVIOUS
  <1>2. PICK A : A = {t \in TypesUsedBy(game) : t.array}
    OBVIOUS
  <1>3. IsList(h) /\ NoTwins(h) /\ Range(h) = {<<HaskellCType(t), t>> : t \in A}
    BY <1>1, <1>2, ArraysAre
  <1>4. PICK n \in Nat : n = Len(h) /\ DOMAIN h = 1 .. n
    BY <1>3, LenProperties DEF IsList
  <1>5. \A i \in 1 .. n : h[i][2] \in A /\ h[i] = <<HaskellCType(h[i][2]), h[i][2]>>
    <2>1. ASSUME NEW i \in 1 .. n
          PROVE  h[i][2] \in A /\ h[i] = <<HaskellCType(h[i][2]), h[i][2]>>
      <3>1. h[i] \in Range(h)
        BY <1>4 DEF Range
      <3>2. PICK t \in A : h[i] = <<HaskellCType(t), t>>
        BY <1>3, <3>1
      <3> QED
        BY <3>2
    <2> QED
      BY <2>1
  <1>6. \A t \in A : \E i \in 1 .. n : h[i][2] = t
    <2>1. ASSUME NEW t \in A PROVE \E i \in 1 .. n : h[i][2] = t
      <3>1. <<HaskellCType(t), t>> \in Range(h)
        BY <1>3
      <3>2. PICK i \in 1 .. n : h[i] = <<HaskellCType(t), t>>
        BY <1>4, <3>1 DEF Range
      <3> QED
        BY <3>2
    <2> QED
      BY <2>1
  <1>7. ASSUME NEW i \in 1 .. n, NEW j \in 1 .. n, h[i][1] = h[j][1] \/ h[i][2] = h[j][2]
        PROVE  i = j
    <2>1. PICK t : t = h[i][2]
      OBVIOUS
    <2>2. PICK u : u = h[j][2]
      OBVIOUS
    <2>3. /\ t \in A /\ h[i] = <<HaskellCType(t), t>>
          /\ u \in A /\ h[j] = <<HaskellCType(u), u>>
      BY <1>5, <2>1, <2>2
    <2>4. t = u
      <3>1. CASE h[i][2] = h[j][2]
        BY <2>1, <2>2, <3>1
      <3>2. CASE h[i][1] = h[j][1]
        <4>1. HaskellCType(t) = HaskellCType(u)
          BY <2>3, <3>2
        <4> QED
          BY <1>2, <2>3, <4>1, HaskellNamesDiffer
      <3> QED
        BY <1>7, <3>1, <3>2
    <2>5. h[i] = h[j]
      BY <2>3, <2>4
    <2> QED
      BY <1>3, <1>4, <2>5 DEF NoTwins
  <1>8. Cardinality(A) = n
    <2>1. PICK f : f = [i \in 1 .. n |-> h[i][2]]
      OBVIOUS
    <2>2. f \in [1 .. n -> A]
      BY <1>5, <2>1
    <2>3. \A i, j \in 1 .. n : f[i] = f[j] => i = j
      BY <1>7, <2>1
    <2>4. \A t \in A : \E i \in 1 .. n : f[i] = t
      BY <1>6, <2>1
    <2>5. f \in Bijection(1 .. n, A)
      BY <2>2, <2>3, <2>4 DEF Bijection, Injection, IsInjective, Surjection
    <2>6. ExistsBijection(1 .. n, A)
      BY <2>5 DEF ExistsBijection
    <2> QED
      BY <2>6, FS_CountingElements
  <1>9. {pair[2] : pair \in Range(h)} = A
    <2>1. Range(h) = {h[i] : i \in 1 .. n}
      BY <1>4 DEF Range
    <2>2. {pair[2] : pair \in Range(h)} = {h[i][2] : i \in 1 .. n}
      BY <2>1
    <2>3. \A i \in 1 .. n : h[i][2] \in A
      BY <1>5
    <2> QED
      BY <1>6, <2>2, <2>3
  <1>10. \A i, j \in DOMAIN h : h[i][1] = h[j][1] => i = j
    BY <1>4, <1>7
  <1> QED
    BY <1>1, <1>2, <1>4, <1>8, <1>9, <1>10 DEF HaskellInstances

-----------------------------------------------------------------------------
\* What is generated for C, Haskell, OCaml and Rust from an accepted game
\* respects the rules its compiler, or its collector, relies on, whatever the
\* files: every array type has its name and its instance, every parameter of
\* a primitive is declared once, traits are those of what a struct is made of
\* (filters/c.py, haskell.py, caml.py, rust.py).
THEOREM LanguageRules == Spec => []LanguageRulesKept
  <1>1. Progress /\ LoaderInv /\ UsedTypesKept => LanguageRulesKept
    <2> SUFFICES ASSUME Progress, LoaderInv, UsedTypesKept PROVE LanguageRulesKept
      OBVIOUS
    <2>1. CASE phase = "accepted"
      <3>1. SoundGame
        BY <2>1, AcceptedIsSound
      <3> QED
        BY <3>1, DeclaredNames, InstancesOfHaskell, DeclaredParameters, RustOwns
           DEF LanguageRulesKept
    <2>2. CASE phase # "accepted"
      BY <2>2 DEF LanguageRulesKept, NamesDeclared, HaskellInstances, CamlParameters,
                  RustOwnership
    <2> QED
      BY <2>1, <2>2
  <1> QED
    BY <1>1, ProgressInvariant, LoaderInvariant, UsedTypesInvariant, PTL
=============================================================================

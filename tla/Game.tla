-------------------------------- MODULE Game --------------------------------
(***************************************************************************)
(* The loading of a game file by the generators: Game.load in              *)
(* tools/generator/game.py.  A file declares constants, enums, structs and *)
(* functions; loading completes it (missing lists, types of the constants, *)
(* a display function per type) and rejects it at the first mistake, each  *)
(* pass seeing only what the passes before it have built.                  *)
(*                                                                         *)
(* A name is the sequence of its words, so that display_name is            *)
(* <<"display", "name">>.  Constants are spelt in upper case and all the   *)
(* rest in lower case: two names that differ in case only are the same     *)
(* sequence of words, which is what the loader compares.                   *)
(***************************************************************************)
EXTENDS Naturals, FiniteSets, SequencesExt

CONSTANTS
    Files,               \* the game files, parsed
    Reserved,            \* names that a target language keeps for itself
    ReservedCapitalised  \* names that one does once they are capitalised

VARIABLES
    file,       \* the file being loaded
    game,       \* Game.game, the file and what loading adds to it
    types,      \* Game.types
    usedTypes,  \* Game.used_types
    phase,      \* the next pass, or how loading ended
    error       \* the mistake reported

vars == <<file, game, types, usedTypes, phase, error>>

BuiltinNames == << <<"void">>, <<"int">>, <<"double">>, <<"bool">>, <<"string">> >>
Builtin == Range(BuiltinNames)

\* A type, and an array of it: "t array".
Plain(t) == [base |-> t, array |-> FALSE]
ArrayOf(t) == [base |-> t, array |-> TRUE]

NoError == [kind |-> "none", about |-> <<>>]

Lists == {"struct", "enum", "function", "user_function"}

IsList(list) == list \in Seq(Range(list))

\* A file that YAML can hold has a list, if anything, where lists are meant, and
\* its constants are named.
ASSUME FilesAssumption ==
    \A f \in Files :
       /\ \A k \in DOMAIN f \cap (Lists \cup {"constant"}) : IsList(f[k])
       /\ "constant" \in DOMAIN f => \A c \in Range(f.constant) : "name" \in DOMAIN c
       /\ \A k \in DOMAIN f \cap {"enum", "struct"} : \A t \in Range(f[k]) : IsList(t.fields)
       /\ \A k \in DOMAIN f \cap {"function", "user_function"} :
             \A fct \in Range(f[k]) : IsList(fct.args)

\* The lists a file does not mention are empty; constants must be mentioned.
WithDefaults(f) ==
    [k \in DOMAIN f \cup Lists |-> IF k \in DOMAIN f THEN f[k] ELSE <<>>]

AllFunctions(g) == g.function \o g.user_function

Names(list) == [i \in DOMAIN list |-> list[i].name]

\* The names a list of enums or of structs declares, each with its fields.
Declared(list) ==
    FlattenSeq([i \in DOMAIN list |-> <<list[i].name>> \o Names(list[i].fields)])

TypeNames(g) == Names(g.enum) \o Names(g.struct)

\* A field or an argument is a list of `size` items: name, type, comment.  A
\* list that is too long has no schema for its last item, one that is too
\* short is only found out when it is unpacked.
FitsSchema(entries, size) == \A i \in DOMAIN entries : entries[i].size <= size
Unpacks(entry, size) == entry.size = size

SchemaAccepts(g) ==
    /\ {"name", "constant"} \cup Lists \subseteq DOMAIN g
    /\ \A e \in Range(g.enum) : FitsSchema(e.fields, 2)
    /\ \A s \in Range(g.struct) : FitsSchema(s.fields, 3)
    /\ \A f \in Range(AllFunctions(g)) : FitsSchema(f.args, 3)

\* The type of a constant comes from its value; None when no type fits, as for
\* the booleans the schema lets through as integers.
TypeOfValue == [int |-> "int", str |-> "string", float |-> "double", bool |-> "none"]

\* Display functions of the types of a file.
Display(t) ==
    [name |-> <<"afficher">> \o t,
     ret |-> Plain(<<"void">>),
     args |-> <<[name |-> <<"v">>, type |-> Plain(t), size |-> 3]>>]

\* Every name of a game but those of arguments, in the order they are met.
NameUses(g) ==
    BuiltinNames \o Names(g.constant) \o Declared(g.struct) \o Declared(g.enum)
        \o Names(AllFunctions(g))
-----------------------------------------------------------------------------
Init ==
    /\ file \in Files
    /\ game = file
    /\ types = {}
    /\ usedTypes = {}
    /\ phase = "schema"
    /\ error = NoError

\* The exception leaves the constructor: what was built is dropped.
Reject(kind, about) ==
    /\ phase' = "rejected"
    /\ error' = [kind |-> kind, about |-> about]
    /\ UNCHANGED <<file, game, types, usedTypes>>

\* i is where a pass over a list stops.
IsFirst(Wrong(_), i) == Wrong(i) /\ \A j \in 1 .. i - 1 : ~Wrong(j)

ValidateSchema ==
    /\ phase = "schema"
    /\ game' = WithDefaults(game)
    /\ IF SchemaAccepts(WithDefaults(game))
         THEN phase' = "constants" /\ error' = error
         ELSE phase' = "rejected" /\ error' = [kind |-> "schema", about |-> <<>>]
    /\ UNCHANGED <<file, types, usedTypes>>

ConstantIsWrong(c) ==
    \/ TypeOfValue[c.val] = "none"
    \/ c.type \notin {"none", TypeOfValue[c.val]}

Typed(c) == [c EXCEPT !.type = TypeOfValue[c.val]]

LoadConstants ==
    /\ phase = "constants"
    /\ LET Wrong(i) == ConstantIsWrong(game.constant[i]) IN
       \/ /\ \A i \in DOMAIN game.constant : ~Wrong(i)
          /\ game' = [game EXCEPT !.constant = [i \in DOMAIN @ |-> Typed(@[i])]]
          /\ phase' = "base_types"
          /\ UNCHANGED <<file, types, usedTypes, error>>
       \/ \E i \in DOMAIN game.constant :
             IsFirst(Wrong, i) /\ Reject("constant", game.constant[i].name)

LoadBaseTypes ==
    /\ phase = "base_types"
    /\ LET names == TypeNames(game)
           Twice(i) == names[i] \in Builtin \/ \E j \in 1 .. i - 1 : names[j] = names[i]
       IN  \/ /\ \A i \in DOMAIN names : ~Twice(i)
              /\ types' = Builtin \cup Range(names)
              /\ phase' = "used_types"
              /\ UNCHANGED <<file, game, usedTypes, error>>
           \/ \E i \in DOMAIN names : IsFirst(Twice, i) /\ Reject("type_twice", names[i])

\* Mutant: an array is not looked into.
KnowsArrays(t) == t.array \/ t.base \in types

\* An array is known when what it is made of is.
Knows(t) == t.base \in types

\* What stops the pass over a list of fields or arguments.
EntryIsWrong(entry) == ~Unpacks(entry, 3) \/ ~Knows(entry.type)
RejectEntry(entries) ==
    LET Wrong(i) == EntryIsWrong(entries[i]) IN
    \E i \in DOMAIN entries :
       /\ IsFirst(Wrong, i)
       /\ IF Unpacks(entries[i], 3) THEN Reject("unknown_type", entries[i].type.base)
                                    ELSE Reject("unpack", <<>>)

FieldsAreWrong(s) == \E i \in DOMAIN s.fields : EntryIsWrong(s.fields[i])
SignatureIsWrong(f) == ~Knows(f.ret) \/ \E i \in DOMAIN f.args : EntryIsWrong(f.args[i])

TypesUsedBy(g) ==
    {e.type : e \in UNION {Range(s.fields) : s \in Range(g.struct)}}
      \cup {f.ret : f \in Range(AllFunctions(g))}
      \cup {e.type : e \in UNION {Range(f.args) : f \in Range(AllFunctions(g))}}

LoadUsedTypes ==
    /\ phase = "used_types"
    /\ LET fs == AllFunctions(game)
           WrongStruct(i) == FieldsAreWrong(game.struct[i])
           WrongFunction(i) == SignatureIsWrong(fs[i])
       IN  \/ /\ \A i \in DOMAIN game.struct : ~WrongStruct(i)
              /\ \A i \in DOMAIN fs : ~WrongFunction(i)
              /\ usedTypes' = TypesUsedBy(game)
              /\ phase' = "functions"
              /\ UNCHANGED <<file, game, types, error>>
           \/ \E i \in DOMAIN game.struct :
                IsFirst(WrongStruct, i) /\ RejectEntry(game.struct[i].fields)
           \/ /\ \A i \in DOMAIN game.struct : ~WrongStruct(i)
              /\ \E i \in DOMAIN fs :
                   /\ IsFirst(WrongFunction, i)
                   /\ IF Knows(fs[i].ret) THEN RejectEntry(fs[i].args)
                                          ELSE Reject("unknown_type", fs[i].ret.base)

LoadFunctions ==
    /\ phase = "functions"
    /\ LET names == Names(AllFunctions(game))
           Twice(i) == \E j \in 1 .. i - 1 : names[j] = names[i]
       IN  \/ /\ \A i \in DOMAIN names : ~Twice(i)
              /\ phase' = "generated"
              /\ UNCHANGED <<file, game, types, usedTypes, error>>
           \/ \E i \in DOMAIN names : IsFirst(Twice, i) /\ Reject("function_twice", names[i])

\* Mutant: enums are not displayed.
DisplayStructs(g) == [i \in DOMAIN g.struct |-> Display(g.struct[i].name)]

Displays(g) == [i \in DOMAIN TypeNames(g) |-> Display(TypeNames(g)[i])]

LoadGeneratedFunctions ==
    /\ phase = "generated"
    /\ game' = [game EXCEPT !.function = @ \o Displays(game)]
    /\ phase' = "unicity"
    /\ UNCHANGED <<file, types, usedTypes, error>>

\* check_func_args: the arguments of one function.
ArgumentIsWrong(args, i) ==
    args[i].name \in types \/ \E j \in 1 .. i - 1 : args[j].name = args[i].name
ArgumentsAreWrong(f) == \E i \in DOMAIN f.args : ArgumentIsWrong(f.args, i)

\* Fields of enums are unpacked on the way.
CheckNameUnicity ==
    /\ phase = "unicity"
    /\ LET uses == NameUses(game)
           fs == AllFunctions(game)
           short == \E e \in Range(game.enum) : \E i \in DOMAIN e.fields :
                       ~Unpacks(e.fields[i], 2)
           WrongFunction(i) == ArgumentsAreWrong(fs[i])
           Conflict(i) == \E j \in DOMAIN uses : j # i /\ uses[j] = uses[i]
       IN  \/ /\ short
              /\ Reject("unpack", <<>>)
           \/ /\ ~short
              /\ \E i \in DOMAIN fs :
                   /\ IsFirst(WrongFunction, i)
                   /\ LET Wrong(k) == ArgumentIsWrong(fs[i].args, k) IN
                      \E k \in DOMAIN fs[i].args :
                         IsFirst(Wrong, k) /\ Reject("argument", fs[i].args[k].name)
           \/ /\ ~short
              /\ \A i \in DOMAIN fs : ~WrongFunction(i)
              /\ \/ /\ \A i \in DOMAIN uses : ~Conflict(i)
                    /\ phase' = "keywords"
                    /\ UNCHANGED <<file, game, types, usedTypes, error>>
                 \/ \E i \in DOMAIN uses : IsFirst(Conflict, i) /\ Reject("conflict", uses[i])

\* throw_if_conflicts for a name in lower case, and for one in upper case,
\* which is a keyword only once capitalised (SELF).
IsKeyword(name) == name \in Reserved \cup ReservedCapitalised
ConstantIsKeyword(name) == name \in ReservedCapitalised

\* Mutant: arguments are not looked at.
IdentifiersButArguments(g) ==
    Declared(g.enum) \o Declared(g.struct) \o Names(AllFunctions(g))

Identifiers(g) ==
    Declared(g.enum) \o Declared(g.struct)
        \o FlattenSeq([i \in DOMAIN AllFunctions(g) |->
              <<AllFunctions(g)[i].name>> \o Names(AllFunctions(g)[i].args)])

CheckReservedKeywords ==
    /\ phase = "keywords"
    /\ LET constants == Names(game.constant)
           names == Identifiers(game)
           WrongConstant(i) == ConstantIsKeyword(constants[i])
           WrongName(i) == IsKeyword(names[i])
           NoConstant == \A i \in DOMAIN constants : ~WrongConstant(i)
       IN  \/ IsKeyword(game.name) /\ Reject("keyword", game.name)
           \/ /\ ~IsKeyword(game.name)
              /\ \E i \in DOMAIN constants :
                   IsFirst(WrongConstant, i) /\ Reject("keyword", constants[i])
           \/ /\ ~IsKeyword(game.name) /\ NoConstant
              /\ \E i \in DOMAIN names : IsFirst(WrongName, i) /\ Reject("keyword", names[i])
           \/ /\ ~IsKeyword(game.name) /\ NoConstant
              /\ \A i \in DOMAIN names : ~WrongName(i)
              /\ phase' = "accepted"
              /\ UNCHANGED <<file, game, types, usedTypes, error>>

Terminated == phase \in {"accepted", "rejected"} /\ UNCHANGED vars

Next ==
    \/ ValidateSchema
    \/ LoadConstants
    \/ LoadBaseTypes
    \/ LoadUsedTypes
    \/ LoadFunctions
    \/ LoadGeneratedFunctions
    \/ CheckNameUnicity
    \/ CheckReservedKeywords
    \/ Terminated

Spec == Init /\ [][Next]_vars
-----------------------------------------------------------------------------
(* What a well-formed file is, stated on the file alone and whatever the   *)
(* passes of the loader.                                                   *)

Places(kind, names) == {[at |-> <<kind, i>>, name |-> names[i]] : i \in DOMAIN names}

FieldPlaces(kind, list) ==
    UNION {{[at |-> <<kind, i, j>>, name |-> list[i].fields[j].name] :
               j \in DOMAIN list[i].fields} : i \in DOMAIN list}

ShownNames(list) == [i \in DOMAIN list |-> <<"afficher">> \o list[i].name]

\* Each declaration with its place; display functions are declared by types.
TypePlaces(f) ==
    Places("enum", Names(f.enum)) \cup FieldPlaces("enum_field", f.enum)
      \cup Places("struct", Names(f.struct)) \cup FieldPlaces("str_field", f.struct)
FunctionPlaces(f) ==
    Places("function", Names(f.function)) \cup Places("user_function", Names(f.user_function))
      \cup Places("display_enum", ShownNames(f.enum))
      \cup Places("display_struct", ShownNames(f.struct))
Declarations(f) ==
    Places("constant", Names(f.constant)) \cup TypePlaces(f) \cup FunctionPlaces(f)

\* What has a type: fields of structs and arguments.
TypedEntries(f) ==
    (UNION {Range(s.fields) : s \in Range(f.struct)})
      \cup (UNION {Range(fct.args) : fct \in Range(f.function) \cup Range(f.user_function)})

WellFormed(raw) ==
    LET f == WithDefaults(raw)
        fs == Range(f.function) \cup Range(f.user_function)
        declared == {t.name : t \in Range(f.enum) \cup Range(f.struct)}
        known == Builtin \cup declared
        keywords == Reserved \cup ReservedCapitalised
    IN  /\ {"name", "constant"} \subseteq DOMAIN raw
        /\ \A c \in Range(f.constant) : ~ConstantIsWrong(c) /\ ~ConstantIsKeyword(c.name)
        /\ \A e \in TypedEntries(f) : e.size = 3 /\ e.type.base \in known
        /\ \A e \in UNION {Range(t.fields) : t \in Range(f.enum)} : e.size = 2
        /\ \A fct \in fs : fct.ret.base \in known
        /\ \A d, e \in Declarations(f) : d.name = e.name => d.at = e.at
        /\ \A d \in Declarations(f) : d.name \notin Builtin
        /\ \A fct \in fs : \A i, j \in DOMAIN fct.args :
              /\ fct.args[i].name \notin known
              /\ i # j => fct.args[i].name # fct.args[j].name
        /\ f.name \notin keywords
        /\ \A d \in TypePlaces(f) \cup FunctionPlaces(f) \cup TypedEntries(f) :
              d.name \notin keywords
        /\ declared # {} => <<"v">> \notin known \cup keywords  \* what is displayed

(* Properties                                                              *)

\* Loading accepts the well-formed files and no other, although each pass only
\* looks at what the passes before it have built: types before the functions
\* that mention them, display functions before names are compared
\* (game.py:40-53).
LoaderDecides ==
    /\ phase = "accepted" => WellFormed(file)
    /\ phase = "rejected" => ~WellFormed(file)

\* The generators look up each type they meet, display functions included: it
\* is a builtin type, an enum or a struct, and only one of the three
\* (get_enum, get_struct, game.py:234-254).
TypesResolve ==
    phase = "accepted" =>
       /\ \A t \in TypesUsedBy(game) : t.base \in Builtin \cup Range(TypeNames(game))
       /\ \A t \in Range(TypeNames(game)) :
             /\ t \notin Builtin
             /\ Cardinality({i \in DOMAIN TypeNames(game) : TypeNames(game)[i] = t}) = 1

=============================================================================

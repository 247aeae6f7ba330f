------------------------------ MODULE Languages ------------------------------
(***************************************************************************)
(* What the generators make of the types of a loaded game in each language *)
(* of champions: the filters of tools/generator/filters and the templates  *)
(* of the interfaces that use them.  The interface of a language wraps the *)
(* C++ function api_f of each function f of the game: it converts the      *)
(* arguments to C++, calls api_f and converts what it returns.             *)
(*                                                                         *)
(* A generated type is a sequence of words too: <<"std::vector", "pos">>   *)
(* is std::vector<pos>, <<"pos", "array">> is pos_array.                   *)
(***************************************************************************)
EXTENDS Game

\* Signs that generated types are made with and that no name has in it.
Signs == {"[]", "char*"}

\* A type is a name or an array of it, and the names of types are identifiers
\* (TYPE and IDENTIFIER, game.py:362-364).
ASSUME TypesAssumption ==
    \A f \in Files :
       /\ \A name \in Range(TypeNames(WithDefaults(f))) :
             IsList(name) /\ Range(name) \cap Signs = {}
       /\ \A t \in TypesUsedBy(WithDefaults(f)) :
             t = [base |-> t.base, array |-> t.array] /\ t.array \in BOOLEAN

BoolType == Plain(<<"bool">>)
DoubleType == Plain(<<"double">>)
IntType == Plain(<<"int">>)
StringType == Plain(<<"string">>)
VoidType == Plain(<<"void">>)

Scalars == {BoolType, DoubleType, IntType}

\* get_array_inner; a type that is no array is its own element.
Element(t) == Plain(t.base)
IsStruct(t) == ~t.array /\ \E s \in Range(game.struct) : s.name = t.base
IsEnum(t) == ~t.array /\ \E e \in Range(game.enum) : e.name = t.base
StructOf(t) == CHOOSE s \in Range(game.struct) : s.name = t.base
FieldTypes(s) == [i \in DOMAIN s.fields |-> s.fields[i].type]
IsTuple(t) == StructOf(t).tuple

Structs == {Plain(s.name) : s \in Range(game.struct)}
Enums == {Plain(e.name) : e \in Range(game.enum)}

\* What a struct holds, were it in an array.
HeldTypes(s) == {Element(t) : t \in Range(FieldTypes(StructOf(s)))}

\* The structs that do not hold themselves, at any depth, nor a struct of no
\* field: the least set of those that hold no other.  Filters that recurse over
\* structs do not end, or fail, on the others.
FoundedStructs ==
    {s \in Structs :
       \A C \in SUBSET Structs :
          (\A u \in Structs :
              StructOf(u).fields # <<>> /\ HeldTypes(u) \cap Structs \subseteq C => u \in C)
            => s \in C}

FoundedTypes ==
    {t \in {Plain(b) : b \in types} \cup {ArrayOf(b) : b \in types} :
       Element(t) \in Structs => Element(t) \in FoundedStructs}

CamelCase(name) == <<"camel">> \o name
Capitalised(name) == <<"capital">> \o name
Pointer(type) == type \o <<"*">>
Vector(type) == <<"std::vector">> \o type

SignatureTypes(f) == {f.ret} \cup {f.args[i].type : i \in DOMAIN f.args}

\* generic_prototype: one mapping for what is returned and for the arguments.
Prototype(f, prefix, mapped) ==
    [name |-> prefix \o f.name, ret |-> mapped[f.ret],
     args |-> [i \in DOMAIN f.args |-> mapped[f.args[i].type]]]

\* The instance of the conversion templates that a filter names: the type it
\* takes (or gives) on the side of the language, the C++ one, and the instance
\* for one item that the array templates call.
ArrayConversion(lang, item, cxxItem) ==
    [lang |-> lang, cxx |-> Vector(cxxItem), item |-> <<item, cxxItem>>]
ItemConversion(lang, cxx) == [lang |-> lang, cxx |-> cxx, item |-> <<lang, cxx>>]
-----------------------------------------------------------------------------
CxxType(t) ==
    LET name == IF t.base = <<"string">> THEN <<"std::string">> ELSE t.base IN
    IF t.array THEN Vector(name) ELSE name

CxxPrototype(f) ==
    Prototype(f, <<"api">>, [t \in SignatureTypes(f) |-> CxxType(t)])

(* C *)

\* Mutant: arrays of strings are named as the arrays of any other type.
CTypeWithoutStringArray(t) ==
    LET name == IF t.base = <<"string">> THEN <<"char*">> ELSE t.base IN
    IF t.array THEN name \o <<"array">> ELSE name

CType(t) ==
    CASE t = StringType -> <<"char*">>
      [] t.array -> t.base \o <<"array">>
      [] OTHER -> t.base

\* The interface has C++ structs of its own, under other names.
CInternalCxxType(t) ==
    LET name == IF IsStruct(Element(t)) THEN <<"internal">> \o t.base ELSE CxxType(Element(t))
    IN  IF t.array THEN Vector(name) ELSE name

CPrototype(f) ==
    Prototype(f, <<>>, [t \in SignatureTypes(f) |-> CType(t)])

CInternalCxxPrototype(f) ==
    Prototype(f, <<"api">>, [t \in SignatureTypes(f) |-> CInternalCxxType(t)])

\* c_to_cxx and cxx_to_c.
CConversion(t) ==
    IF t.array THEN ArrayConversion(CType(t), CType(Element(t)), CInternalCxxType(Element(t)))
               ELSE ItemConversion(CType(t), CInternalCxxType(t))

\* The type api.h gives to arrays, for every element type used_array_types lists.
UsedArrayTypes == {t.base : t \in {u \in usedTypes : u.array}}
CArrays == {b \o <<"array">> : b \in UsedArrayTypes}

\* c_to_cxx: the general template returns what it is given.
CTemplates ==
    {<<CxxType(t), CxxType(t)>> : t \in Scalars \cup Enums}
      \cup {<< <<"char*">>, <<"std::string">> >>}
      \cup {<<t.base, <<"internal">> \o t.base>> : t \in Structs}

(* Haskell, through the C types *)

\* Mutant: only structs are passed by pointer.
CptrTypeOfStructs(t) == IF IsStruct(t) THEN Pointer(CType(t)) ELSE CType(t)

CptrType(t) == IF t.array \/ IsStruct(t) THEN Pointer(CType(t)) ELSE CType(t)

HaskellCPrototype(f) ==
    Prototype(f, <<"hs">>, [t \in SignatureTypes(f) |-> CptrType(t)])

\* cptr_to_cxx and cxx_to_cptr, which use pointers in the wrappers and not for
\* the fields of structs.
CptrConversion(t, usePtr) ==
    IF t.array
      THEN ArrayConversion(IF usePtr THEN Pointer(CType(t)) ELSE CType(t),
                           CType(Element(t)), CInternalCxxType(Element(t)))
      ELSE ItemConversion(IF usePtr THEN CptrType(t) ELSE CType(t), CInternalCxxType(t))

HaskellTemplates ==
    CTemplates \cup {<<Pointer(t.base), <<"internal">> \o t.base>> : t \in Structs}

HaskellCType(t) ==
    IF t.array THEN Capitalised(t.base) \o <<"array">> ELSE Capitalised(t.base)

\* Mutant: an array that several functions use is declared several times.
WithTwins(list) == list

WithoutTwins(list) ==
    FlattenSeq([i \in DOMAIN list |->
       IF \E j \in 1 .. i - 1 : list[j] = list[i] THEN <<>> ELSE <<list[i]>>])

AddArrayType(t) == IF t.array THEN << <<HaskellCType(t), t>> >> ELSE <<>>

\* haskell_get_array_types: the storable instances that CApi.hsc declares.
HaskellArrays ==
    LET signature(f) == <<f.ret>> \o FieldTypes([fields |-> f.args])
        met == FlattenSeq([i \in DOMAIN game.struct |-> FieldTypes(game.struct[i])])
                 \o FlattenSeq([i \in DOMAIN AllFunctions(game) |->
                                  signature(AllFunctions(game)[i])])
    IN  WithoutTwins(FlattenSeq([i \in DOMAIN met |-> AddArrayType(met[i])]))

(* Java *)

JavaType(t) ==
    LET name == CASE t.base = <<"bool">> -> <<"boolean">>
                  [] t.base = <<"string">> -> <<"String">>
                  [] t.base \in {<<"void">>, <<"int">>, <<"double">>} -> t.base
                  [] OTHER -> CamelCase(t.base)
    IN  IF t.array THEN name \o <<"[]">> ELSE name

JType(t) ==
    CASE t = BoolType -> <<"jboolean">>
      [] t = DoubleType -> <<"jdouble">>
      [] t = IntType -> <<"jint">>
      [] t = StringType -> <<"jstring">>
      [] OTHER -> CamelCase(t.base)

\* java_to_cxx and cxx_to_java.  The template that reads an array takes any
\* object; arrays are created as jarray.
JavaConversion(t) ==
    CASE t.array -> ArrayConversion(<<"jarray">>, JType(Element(t)), CxxType(Element(t)))
      [] t \in Scalars \cup {StringType} -> ItemConversion(JType(t), CxxType(t))
      [] OTHER -> ItemConversion(<<"jobject">>, CxxType(t))

JniType(t) ==
    CASE t = BoolType -> <<"jboolean">>
      [] t = DoubleType -> <<"jdouble">>
      [] t = IntType -> <<"jint">>
      [] t = StringType -> <<"jstring">>
      [] t.array -> <<"jarray">>
      [] t = VoidType -> <<"void">>
      [] OTHER -> <<"jobject">>

\* The native method that RegisterNatives binds.
JniPrototype(f) ==
    Prototype(f, <<>>, [t \in SignatureTypes(f) |-> JniType(t)])

\* Mutant: the signature of a boolean is missing from the table.
ClassSignature(t) ==
    LET name == CASE t.base = <<"int">> -> <<"I">>
                  [] t.base = <<"double">> -> <<"D">>
                  [] t.base = <<"void">> -> <<"V">>
                  [] t.base = <<"string">> -> <<"L", "java/lang/String">>
                  [] OTHER -> <<"L">> \o CamelCase(t.base)
    IN  IF t.array THEN <<"[">> \o name ELSE name

JniTypeSignature(t) ==
    LET name == CASE t.base = <<"bool">> -> <<"Z">>
                  [] t.base = <<"int">> -> <<"I">>
                  [] t.base = <<"double">> -> <<"D">>
                  [] t.base = <<"void">> -> <<"V">>
                  [] t.base = <<"string">> -> <<"L", "java/lang/String">>
                  [] OTHER -> <<"L">> \o CamelCase(t.base)
    IN  IF t.array THEN <<"[">> \o name ELSE name

\* The family of Get<T>Field, Set<T>Field and Call<T>Method.
JavaTypeMethodCall(t) ==
    CASE t = IntType -> "Int"
      [] t = DoubleType -> "Double"
      [] t = BoolType -> "Boolean"
      [] t = VoidType -> "Void"
      [] OTHER -> "Object"

JavaTemplates ==
    {<<JType(t), CxxType(t)>> : t \in Scalars \cup {StringType}}
      \cup {<< <<"jobject">>, t.base>> : t \in Enums \cup Structs}
      \cup {<<CamelCase(t.base), t.base>> : t \in Enums \cup Structs}

(* C# *)

CsType(t) ==
    LET name == IF IsStruct(Element(t)) \/ IsEnum(Element(t)) THEN CamelCase(t.base) ELSE t.base
    IN  IF t.array THEN name \o <<"[]">> ELSE name

CsIsReftype(t) == t.array \/ t = StringType \/ IsStruct(t)

CsMonoType(t) ==
    CASE t.array -> <<"MonoArray", "*">>
      [] IsStruct(t) -> <<"MonoObject", "*">>
      [] IsEnum(t) \/ t \in {IntType, BoolType} -> <<"gint32">>
      [] t = StringType -> <<"MonoString", "*">>
      [] t \in {VoidType, DoubleType} -> t.base

CsMonoPrototype(f) ==
    Prototype(f, <<"cs">>, [t \in SignatureTypes(f) |-> CsMonoType(t)])

\* cs_to_cxx and cxx_to_cs.
CsConversion(t) ==
    IF t.array
      THEN ArrayConversion(<<"MonoArray", "*">>, CsMonoType(Element(t)), CxxType(Element(t)))
      ELSE ItemConversion(CsMonoType(t), CxxType(t))

CsTemplates ==
    {<< <<"MonoString", "*">>, <<"std::string">> >>, << <<"double">>, <<"double">> >>}
      \cup {<< <<"gint32">>, t.base>> : t \in Enums \cup {IntType, BoolType}}
      \cup {<< <<"MonoObject", "*">>, t.base>> : t \in Structs}

(* OCaml, PHP and Python have one type for every value *)

\* caml_to_cxx and cxx_to_caml.
CamlConversion(t) ==
    IF t.array THEN ArrayConversion(<<"value">>, <<"value">>, CxxType(Element(t)))
               ELSE ItemConversion(<<"value">>, CxxType(t))
\* php_to_cxx and cxx_to_php, with the zval it writes or a pointer to read it.
PhpConversion(t) ==
    IF t.array THEN ArrayConversion(<<"zval">>, <<"zval">>, CxxType(Element(t)))
               ELSE ItemConversion(<<"zval">>, CxxType(t))
\* python_to_cxx and cxx_to_python.
PythonConversion(t) ==
    IF t.array THEN ArrayConversion(<<"PyObject*">>, <<"PyObject*">>, CxxType(Element(t)))
               ELSE ItemConversion(<<"PyObject*">>, CxxType(t))

ValueTemplates(value) ==
    {<<value, CxxType(t)>> : t \in Scalars \cup {StringType} \cup Enums \cup Structs}

\* The names a type hint mentions; a tuple is spelt out, api.py has no class for it.
PythonType[t \in FoundedTypes] ==
    CASE t.array -> {<<"List">>} \cup PythonType[Element(t)]
      [] IsStruct(t) /\ IsTuple(t) ->
           {<<"Tuple">>} \cup UNION {PythonType[f.type] : f \in Range(StructOf(t).fields)}
      [] t = VoidType -> {<<"None">>}
      [] t = DoubleType -> {<<"float">>}
      [] t = StringType -> {<<"str">>}
      [] OTHER -> {t.base}

PythonNames == {<<"None">>, <<"float">>, <<"str">>, <<"List">>, <<"Tuple">>}

\* A unit parameter stands for no parameter.
CamlParams(f) == IF f.args = <<>> THEN << <<"unit">> >> ELSE Names(f.args)

\* Mutant: a chunk of six.
ChunkEndLate(first, n) == IF first + 5 < n THEN first + 5 ELSE n

ChunkEnd(first, n) == IF first + 4 < n THEN first + 4 ELSE n

\* The parameters that each CAMLparam macro declares to the collector.
CamlParamMacro(params) ==
    [k \in 1 .. (Len(params) + 4) \div 5 |->
        SubSeq(params, 5 * k - 4, ChunkEnd(5 * k - 4, Len(params)))]

\* The call skips the parameter that stands for none by its name.
CamlCallArgs(f) ==
    LET params == CamlParams(f) IN
    FlattenSeq([i \in DOMAIN params |->
       IF params[i] = <<"unit">> THEN <<>> ELSE <<params[i]>>])

(* Rust *)

RustIsCopy[t \in FoundedTypes] ==
    IF IsStruct(t) /\ IsTuple(t)
      THEN \A f \in Range(StructOf(t).fields) : RustIsCopy[f.type]
      ELSE IsEnum(t) \/ t \in Scalars \cup {VoidType}

\* Mutant: an array has all the traits of its elements.
AllTraits(inherited) == inherited

TraitsOfArray(inherited) == inherited \ {"Copy"}

EveryTrait == {"Copy", "Clone", "Debug", "Eq", "Hash", "Ord", "PartialEq", "PartialOrd"}

\* The traits api.rs derives for a struct.
RustAutoTraits[t \in FoundedTypes] ==
    CASE IsStruct(t) ->
           {trait \in EveryTrait :
               \A f \in Range(StructOf(t).fields) : trait \in RustAutoTraits[f.type]}
      [] t.array -> TraitsOfArray(RustAutoTraits[Element(t)])
      [] t = DoubleType -> EveryTrait \ {"Eq", "Hash", "Ord"}
      [] t = StringType -> EveryTrait \ {"Copy"}
      [] OTHER -> EveryTrait

RustFfiType(t) ==
    LET name == CASE t.base = <<"bool">> -> <<"c_bool">>
                  [] t.base = <<"double">> -> <<"c_double">>
                  [] t.base = <<"int">> -> <<"c_int">>
                  [] t.base = <<"string">> -> <<"RawString">>
                  [] t.base = <<"void">> -> <<"()">>
                  [] OTHER -> CamelCase(t.base)
    IN  IF t.array THEN <<"Array">> \o name ELSE name

RustApiOutputType(t) ==
    LET name == CASE t.base = <<"bool">> -> <<"bool">>
                  [] t.base = <<"double">> -> <<"f64">>
                  [] t.base = <<"int">> -> <<"i32">>
                  [] t.base = <<"string">> -> <<"String">>
                  [] t.base = <<"void">> -> <<"()">>
                  [] OTHER -> CamelCase(t.base)
    IN  IF t.array THEN <<"Vec">> \o name ELSE name

\* Arguments are values, or references to what the champion keeps.
RustApiInputType(t) ==
    CASE t = StringType -> <<"&", "str">>
      [] t.array /\ t.base = <<"string">> -> <<"&", "[impl AsRef]", "str">>
      [] t.array /\ t.base # <<"string">> ->
           <<"&", "[impl Borrow]">> \o RustApiOutputType(Element(t))
      [] RustIsCopy[t] -> RustApiOutputType(t)
      [] OTHER -> <<"&">> \o RustApiOutputType(t)

\* A function of api.rs and the foreign function it calls.
RustPrototype(f, ffi) ==
    [name |-> f.name,
     ret |-> IF ffi THEN RustFfiType(f.ret) ELSE RustApiOutputType(f.ret),
     args |-> [i \in DOMAIN f.args |->
                  IF ffi THEN RustFfiType(f.args[i].type) ELSE RustApiInputType(f.args[i].type)]]

\* What a function of api.rs does with an argument: to_c() on the value, or a
\* cell that is read for the call and frees what it owns afterwards.
RustPassed(t) == IF RustIsCopy[t] THEN "value" ELSE "cell"
-----------------------------------------------------------------------------
(* Properties of the games the loader accepts                              *)

\* What the functions of the API take and give back, and the fields of structs.
CrossingTypes ==
    UNION {{f.ret} \cup Range(FieldTypes([fields |-> f.args])) : f \in Range(game.function)}
      \ {VoidType}
InnerTypes == UNION {Range(FieldTypes(s)) : s \in Range(game.struct)}

\* void is a type like another for the loader, but no value has it.
VoidIsHeld ==
    \/ \E e \in TypedEntries(game) : e.type = VoidType
    \/ ArrayOf(<<"void">>) \in TypesUsedBy(game)

\* A conversion takes (gives) what is declared on each side, item by item.
Fits(outer, conversion, cxx, templates) ==
    /\ conversion.lang = outer
    /\ conversion.cxx = cxx
    /\ conversion.item \in templates

\* The wrapper of f: its prototype, the conversions it names and the prototype
\* of api_f.
WrapperFits(f, wrapper, api, Conversion(_), templates) ==
    /\ \A i \in DOMAIN f.args :
          Fits(wrapper.args[i], Conversion(f.args[i].type), api.args[i], templates)
    /\ f.ret # VoidType => Fits(wrapper.ret, Conversion(f.ret), api.ret, templates)

\* In every language a wrapper takes what its conversions take, calls api_
\* functions with the types they are declared with, and only asks for
\* conversions that the interface knows: an array is converted item by item,
\* by the instance its items have (filters and interface.cc.jinja2 of each
\* language; the wrappers of Rust are the C ones).
InterfacesMeet ==
    LET ByPointer(t) == CptrConversion(t, TRUE)
        Hosted(f, value) ==
            Prototype(f, <<>>, [t \in SignatureTypes(f) |-> value])
    IN
    phase = "accepted" /\ ~VoidIsHeld =>
       /\ \A f \in Range(game.function) :
            /\ WrapperFits(f, CPrototype(f), CInternalCxxPrototype(f), CConversion, CTemplates)
            /\ WrapperFits(f, HaskellCPrototype(f), CInternalCxxPrototype(f), ByPointer,
                           HaskellTemplates)
            /\ WrapperFits(f, JniPrototype(f), CxxPrototype(f), JavaConversion, JavaTemplates)
            /\ WrapperFits(f, CsMonoPrototype(f), CxxPrototype(f), CsConversion, CsTemplates)
            /\ WrapperFits(f, Hosted(f, <<"value">>), CxxPrototype(f), CamlConversion,
                           ValueTemplates(<<"value">>))
            /\ WrapperFits(f, Hosted(f, <<"zval">>), CxxPrototype(f), PhpConversion,
                           ValueTemplates(<<"zval">>))
            /\ WrapperFits(f, Hosted(f, <<"PyObject*">>), CxxPrototype(f), PythonConversion,
                           ValueTemplates(<<"PyObject*">>))
       /\ \A t \in InnerTypes :
            /\ Fits(CType(t), CConversion(t), CInternalCxxType(t), CTemplates)
            /\ Fits(CType(t), CptrConversion(t, FALSE), CInternalCxxType(t), HaskellTemplates)
            /\ Fits(JniType(t), JavaConversion(t), CxxType(t), JavaTemplates)
            /\ Fits(CsMonoType(t), CsConversion(t), CxxType(t), CsTemplates)

\* The types below a type: what its fields and its items are made of.
Below[t \in FoundedTypes] ==
    {t} \cup (IF t.array THEN Below[Element(t)] ELSE {})
      \cup (IF IsStruct(t) THEN UNION {Below[f.type] : f \in Range(StructOf(t).fields)} ELSE {})

AllTypes == CrossingTypes \cup InnerTypes \cup Structs

\* A file names the types it declares: api.h has a type for every array met in
\* signatures and fields, display functions included, two types never share
\* a name unless one's own name ends in _array, and the hints of api.py only
\* mention classes it has (used_array_types, game.py:123-127).
NamesDeclared ==
    phase = "accepted" =>
       /\ \A t \in CrossingTypes \cup InnerTypes : t.array => CType(t) \in CArrays
       /\ \A t, u \in AllTypes :
             CType(t) = CType(u) =>
                t = u \/ \E d \in Enums \cup Structs : Last(d.base) = "array"
       /\ \A t \in AllTypes \cap FoundedTypes :
             PythonType[t] \cap {d.base : d \in {s \in Structs : IsTuple(s)}}
                \subseteq PythonNames

\* CApi.hsc gives each array type of the game its instance once: none is
\* missing, and an instance given twice is refused (haskell_get_array_types).
HaskellInstances ==
    phase = "accepted" =>
       LET arrays == {t \in TypesUsedBy(game) : t.array} IN
       /\ Len(HaskellArrays) = Cardinality(arrays)
       /\ {pair[2] : pair \in Range(HaskellArrays)} = arrays
       /\ \A i, j \in DOMAIN HaskellArrays :
             HaskellArrays[i][1] = HaskellArrays[j][1] => i = j

\* What a type of Java is to the virtual machine.
Descriptor(type) ==
    LET isArray == Last(type) = "[]"
        name == IF isArray THEN Front(type) ELSE type
        letter == CASE name = <<"boolean">> -> <<"Z">>
                    [] name = <<"int">> -> <<"I">>
                    [] name = <<"double">> -> <<"D">>
                    [] name = <<"void">> -> <<"V">>
                    [] name = <<"String">> -> <<"L", "java/lang/String">>
                    [] OTHER -> <<"L">> \o name
    IN  IF isArray THEN <<"[">> \o letter ELSE letter

Primitive(type) == Descriptor(type) \in {<<"Z">>, <<"I">>, <<"D">>}

\* The C++ side looks the members of a Java or C# class up under the type they
\* were declared with: the signature is the one of java_type, the family of
\* accessors and the JNI type are those of a primitive exactly when it is one,
\* and C# fields are written through a pointer exactly when they are references
\* (java.py, cs.py).
HostTypesAgree ==
    phase = "accepted" =>
       \A t \in CrossingTypes \cup InnerTypes :
          /\ JniTypeSignature(t) = Descriptor(JavaType(t))
          /\ Primitive(JavaType(t)) <=> JavaTypeMethodCall(t) \notin {"Object", "Void"}
          /\ Primitive(JavaType(t)) <=> JniType(t) \in {JType(u) : u \in Scalars}
          /\ CsIsReftype(t) <=> Last(CsMonoType(t)) = "*"
          /\ Last(CsType(t)) = "[]" <=> CsMonoType(t) = <<"MonoArray", "*">>

\* The traits a Rust struct derives are those all it is made of has, however
\* deep: no more, or api.rs would not compile, and no fewer.  What is passed by
\* value is Copy and owns no memory, what is passed by reference is read from
\* a cell that frees it (rust_auto_traits, rust_is_copy, rust_ffi_call).
RustOwnership ==
    phase = "accepted" =>
       \A t \in AllTypes \cap FoundedTypes :
          LET below == Below[t]
              owns == \E u \in below : u.array \/ u = StringType
          IN  /\ RustAutoTraits[t] =
                    EveryTrait \ ((IF owns THEN {"Copy"} ELSE {})
                       \cup (IF DoubleType \in below THEN {"Eq", "Hash", "Ord"} ELSE {}))
              /\ RustPassed(t) = "value" => "Copy" \in RustAutoTraits[t] /\ ~owns
              /\ \A f \in Range(game.function) : \A i \in DOMAIN f.args :
                    LET given == RustPrototype(f, FALSE).args[i]
                        taken == RustPrototype(f, TRUE).args[i]
                    IN  f.args[i].type = t =>
                          /\ RustPassed(t) = "cell" <=> Head(given) = "&"
                          /\ Head(taken) \in {"Array", "RawString"} => RustPassed(t) = "cell"

\* Every parameter of an OCaml primitive is declared to the collector once, by
\* macros of five at most, and every argument reaches the API in its place
\* (caml_param_macro, caml_cxx_args), unless an argument is itself named unit.
CamlParameters ==
    phase = "accepted" =>
       \A f \in Range(game.function) :
          LET macros == CamlParamMacro(CamlParams(f)) IN
          /\ macros # <<>>
          /\ \A k \in DOMAIN macros : Len(macros[k]) \in 1 .. 5
          /\ FlattenSeq(macros) = CamlParams(f)
          /\ <<"unit">> \notin Range(Names(f.args)) => CamlCallArgs(f) = Names(f.args)

\* The two sides of each binding agree: on the conversions of the values that
\* cross it, and on the members that are looked up at run time.
BindingsAgree == InterfacesMeet /\ HostTypesAgree

\* What is generated for C, Haskell, OCaml and Rust respects the rules of the
\* language that its compiler, or its collector, relies on.
LanguageRulesKept ==
    NamesDeclared /\ HaskellInstances /\ CamlParameters /\ RustOwnership

=============================================================================

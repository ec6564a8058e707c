------------------------------- MODULE Members -------------------------------
(***************************************************************************)
(* What a type has inside of it and who may name it: the fields and the    *)
(* methods of `value.name` (DotVisitor), the parts of `type::name`         *)
(* (SubVisitor), and what the pragmas say of a type (PragmaVisitor).       *)
(*                                                                         *)
(* A structure is the sequence of its fields, an enumeration that of its   *)
(* members, a class has its own fields, methods and constructors, and an   *)
(* ancestor.  A context is the class whose code is validated, or NoClass.  *)
(***************************************************************************)
EXTENDS RunTime

CONSTANTS Structs,      \* [name -> <<[name, type, mut, default : SUBSET values]>>]
          Enums,        \* [name -> [inner, members : <<[name, value]>>]]
          Classes,      \* [name -> [ancestor, fields, methods, constructors]]
          NoClass

\* Types that are not scalars, and types without their mutability.
Float(size)      == [is |-> "float", size |-> size]
PointerTo(t)     == [is |-> "pointer", inner |-> t]
SliceOf(t)       == [is |-> "slice", inner |-> t]
ArrayOf(t, n)    == [is |-> "array", inner |-> t, len |-> n]
TupleType(ts)    == [is |-> "tuple", inners |-> ts]
StructRef(s)     == [is |-> "struct", name |-> s]
EnumRef(e)       == [is |-> "enum", name |-> e]
ClassPtr(c)      == [is |-> "class", name |-> c, proxy |-> FALSE]
ClassProxy(c)    == [is |-> "class", name |-> c, proxy |-> TRUE]
OptionOf(t)      == [is |-> "option", inner |-> t]
RangeType(t)     == [is |-> "range", inner |-> t]

Part(v, type)    == [value |-> v, type |-> type]
Refused          == [is |-> "refused"]
Halted           == [is |-> "halted"]
IsType(t)        == [is |-> "type", type |-> t]
IsValue(v, t)    == [is |-> "value", value |-> v, type |-> t]

-----------------------------------------------------------------------------
(* Classes.                                                                *)

Ancestor(c) == Classes[c].ancestor

\* A class and its ancestors, from the nearest to the farthest.
Lineage[c \in DOMAIN Classes] ==
    <<c>> \o (IF Ancestor(c) = NoClass THEN <<>> ELSE Lineage[Ancestor(c)])

IsHeir(c, a) == c # NoClass /\ Contains(Lineage[c], a)

LocalFields(c) == Classes[c].fields

\* The fields that are inherited come first.
Fields[c \in DOMAIN Classes] ==
    (IF Ancestor(c) = NoClass THEN <<>> ELSE Fields[Ancestor(c)]) \o LocalFields(c)

Named(members, n) == SelectSeq(members, LAMBDA f : f.name = n)

\* Mutant: an heir is taken for the class itself.
ContextOfHeirs(context, c) == [prv |-> IsHeir(context, c), prot |-> IsHeir(context, c)]

\* What the context may do with the members of a class.
GetClassContext(context, c) ==
    [prv  |-> context = c,
     prot |-> context = c \/ (context # NoClass /\ Contains(Tail(Lineage[context]), c))]

\* getFieldType, getFieldTypeProtected, getFieldTypePublic: the field that this
\* class has of its own, when it is marked as the access may see it.
FieldType(c, n)          == Named(LocalFields(c), n)
FieldTypeProtected(c, n) == SelectSeq(FieldType(c, n), LAMBDA f : f.prot # "prv")
FieldTypePublic(c, n)    == SelectSeq(FieldType(c, n), LAMBDA f : f.prot = "pub")

FieldAt(i, c, n, may) ==
    CASE i = 1 /\ may.prv -> FieldType(c, n)
      [] may.prot -> FieldTypeProtected(c, n)
      [] OTHER -> FieldTypePublic(c, n)

\* The walk up the ancestors stops at the class that has the field, seen or not.
ValidateClassFieldAccess(c, n, may) ==
    LET line == Lineage[c]
        has == {i \in DOMAIN line : FieldType(line[i], n) # <<>>}
    IN  IF has = {} THEN <<>> ELSE FieldAt(Min(has), line[Min(has)], n, may)

\* Of an access through a proxy, nothing is in the class itself.
MayOf(context, c, proxy) ==
    [GetClassContext(context, c) EXCEPT !.prv = @ /\ ~proxy]

-----------------------------------------------------------------------------
(* Methods: [name, prot, by, override, template], "by" tells two of a name  *)
(* apart.                                                                  *)

\* The table of a class: the method of a class that overrides takes the place
\* of the one that it inherits, and a new one comes last.
Overriding(table, m) ==
    IF m.override
    THEN [i \in DOMAIN table |-> IF table[i].name = m.name THEN m ELSE table[i]]
    ELSE Append(table, m)

Methods(c, template) == SelectSeq(Classes[c].methods, LAMBDA m : m.template = template)

Table[c \in DOMAIN Classes] ==
    FoldLeft(Overriding, IF Ancestor(c) = NoClass THEN <<>> ELSE Table[Ancestor(c)],
             Methods(c, FALSE))

Sees(may, prot) == may.prv \/ (may.prot /\ prot = "prot") \/ prot = "pub"

\* A class that is finalized answers from its table, with every method of it.
InTable(c, n, may) ==
    {m.by : m \in {x \in Range(Table[c]) : x.name = n /\ Sees(may, x.prot)}}

\* The methods, or the templates, that the i-th class of a lineage declares.
At(line, i, n, may, template) ==
    {m \in Range(Methods(line[i], template)) :
        m.name = n /\ Sees([may EXCEPT !.prv = @ /\ i = 1], m.prot)}

\* One that is not, from the nearest class that has a method that is seen.
InSymbols(c, n, may) ==
    LET line == Lineage[c]
        some == {i \in DOMAIN line : At(line, i, n, may, FALSE) # {}}
    IN  IF some = {} THEN {} ELSE {m.by : m \in At(line, Min(some), n, may, FALSE)}

\* The templates have no place in a table: those of every ancestor are there.
Templates(c, n, may) ==
    LET line == Lineage[c]
    IN  {m.by : m \in UNION {At(line, i, n, may, TRUE) : i \in DOMAIN line}}

ValidateMethod(c, n, may, finalized) ==
    Templates(c, n, may) \cup (IF finalized THEN InTable(c, n, may) ELSE InSymbols(c, n, may))

-----------------------------------------------------------------------------
(* Constructors.  `C::new` asks for all of them, `C::name` for those that   *)
(* have this name.  A class that is abstract leaves a note only.           *)

Constructors(c, n) ==
    {k \in Classes[c].constructors : n = "new" \/ k.name = n}

GetClassConstructors(context, c, n) ==
    {k \in Constructors(c, n) : Sees(GetClassContext(context, c), k.prot)}

ValidateSuper(c) ==
    IF Ancestor(c) = NoClass THEN Refused ELSE IsType(ClassPtr(Ancestor(c)))

\* __name__ stands for name, but for super and the constructors that have one.
Name(base, wrapped) == [base |-> base, wrapped |-> wrapped]
RemoveUnders(n)     == n.base
Plain(n)            == IF n.wrapped THEN "other" ELSE n.base

ValidateConstructors(context, c, n) ==
    LET found == GetClassConstructors(context, c, IF RemoveUnders(n) = "new" THEN "new" ELSE Plain(n))
    IN  IF found = {} THEN Refused ELSE [is |-> "constructors", of |-> found]

ValidateClass(context, c, n) ==
    CASE RemoveUnders(n) \in {"typeid", "typeinfo"} -> IsValue(RemoveUnders(n), ClassPtr(c))
      [] Plain(n) = "super" -> ValidateSuper(c)
      [] OTHER -> ValidateConstructors(context, c, n)

\* `value::super` and `value::Ancestor` need the code of the class itself.
ValidateClassValue(context, type, n) ==
    LET c == type.name
        may == MayOf(context, c, type.proxy)
    IN  CASE RemoveUnders(n) = "typeinfo" -> IsValue("typeinfo", type)
          [] Plain(n) = "super" /\ may.prv /\ Ancestor(c) # NoClass ->
                IsValue("proxy", ClassProxy(Ancestor(c)))
          [] Plain(n) \in DOMAIN Classes /\ may.prv /\ IsHeir(c, Plain(n)) ->
                IsValue("proxy", ClassProxy(Plain(n)))
          [] OTHER -> Refused

-----------------------------------------------------------------------------
(* The first value of a type.  The answer is {} when a part has none.      *)

RECURSIVE InitOf(_)

Whole(parts) == IF {} \in Range(parts) THEN {} ELSE {[i \in DOMAIN parts |-> CHOOSE p \in parts[i] : TRUE]}

ValidateStructInit(s) ==
    Whole([i \in DOMAIN Structs[s] |->
        IF Structs[s][i].default # {} THEN Structs[s][i].default ELSE InitOf(Structs[s][i].type)])

\* A value whose type is an enumeration starts as one of the type inside; the
\* type inside an array has a first value even if the array has no element.
InitOf(t) ==
    CASE t.is = "int"    -> {Part(0, t)}
      [] t.is = "bool"   -> {Part(FALSE, t)}
      [] t.is = "char"   -> {Part(0, t)}
      [] t.is = "float"  -> {Part("nan", t)}
      [] t.is = "slice"  -> {Part(<<>>, t)}
      [] t.is = "enum"   -> {Part(p.value, t) : p \in InitOf(Enums[t.name].inner)}
      [] t.is = "array"  -> IF InitOf(t.inner) = {} THEN {}
                            ELSE {Part(p, t) : p \in Whole([i \in 1 .. t.len |-> InitOf(t.inner)])}
      [] t.is = "tuple"  -> {Part(p, t) : p \in Whole([i \in DOMAIN t.inners |-> InitOf(t.inners[i])])}
      [] t.is = "struct" -> {Part(p, t) : p \in ValidateStructInit(t.name)}
      [] OTHER -> {}

-----------------------------------------------------------------------------
(* The parts of a type.                                                    *)

OneOf(S, t) == IF S = {} THEN Refused ELSE IsValue((CHOOSE v \in S : TRUE).value, t)

ValidateInteger(t, name) ==
    CASE name = "init" -> IsValue(0, t)
      [] name = "min" /\ ~t.signed -> IsValue(0, t)
      [] name \in {"min", "max"} /\ t.size = 0 -> Halted
      [] name = "max" -> IsValue(MaxOf(t), t)
      [] name = "min" -> IsValue(MinOf(t), t)
      [] OTHER -> Refused

ValidateFloat(t, name) ==
    CASE name \in {"init", "inf", "min", "max", "nan", "epsilon"} -> IsValue(name, t)
      [] name \in {"dig", "mant_dig", "max_10_exp", "max_exp", "min_10_exp", "min_exp"} ->
            IsValue(name, Integer(4, FALSE))
      [] OTHER -> Refused

ArrayPart(t, name) ==
    CASE name = "inner" -> IsType(t.inner)
      [] name = "len" -> IsValue(t.len, ULong)
      [] name = "init" -> OneOf(InitOf(t), t)
      [] OTHER -> Refused

SlicePart(t, name) ==
    CASE name = "inner" -> IsType(t.inner)
      [] name = "init" -> IsValue(<<>>, t)
      [] OTHER -> Refused

ValidateTuple(t, name) ==
    CASE name = "arity" -> IsValue(Len(t.inners), Integer(4, FALSE))
      [] name = "init" -> OneOf(InitOf(t), t)
      [] OTHER -> Refused

\* An index that the compiler knows: the one after the last is let through.
ValidateTupleIndex(t, index) ==
    IF index < 0 \/ index > Len(t.inners) THEN Refused
    ELSE IF index = Len(t.inners) THEN [is |-> "undefined"]
    ELSE IsType(t.inners[index + 1])

ValidateOption(t, name) ==
    IF name = "err" THEN IsValue("null", t)
    ELSE IF name = "typeid" THEN IsValue("typeid", t) ELSE Refused

EnumValue(e, m) == IsValue(m.value, EnumRef(e))

ValidateEnum(e, n) ==
    LET field == Named(Enums[e].members, n)
        name == RemoveUnders(n)
    IN  CASE field # <<>> -> EnumValue(e, Head(field))
          [] name = "members" ->
                IsValue([i \in DOMAIN Enums[e].members |-> Enums[e].members[i].value],
                        SliceOf(EnumRef(e)))
          [] name \in {"typeid", "typeinfo"} -> IsValue(name, EnumRef(e))
          [] name = "inner" -> IsType(Enums[e].inner)
          [] OTHER -> Refused

\* Types that have no name in TypeIDs end the compiler.
NoTypeInfo == {"option", "range", "delegate"}

TypeInners(t) ==
    CASE t.is \in {"pointer", "slice", "array", "option", "range"} -> <<t.inner>>
      [] t.is = "tuple" -> t.inners
      [] t.is = "class" /\ Ancestor(t.name) # NoClass -> <<ClassPtr(Ancestor(t.name))>>
      [] OTHER -> <<>>

RECURSIVE ValidateTypeInfo(_)
ValidateTypeInfo(type) ==
    LET t == IF type.is = "enum" THEN Enums[type.name].inner ELSE type
        inners == [i \in DOMAIN TypeInners(t) |-> ValidateTypeInfo(TypeInners(t)[i])]
    IN  IF t.is \in NoTypeInfo \/ Halted \in Range(inners) THEN Halted
        ELSE [is |-> "info", of |-> t.is, inners |-> inners]

OfAnyType(t, name) ==
    CASE name = "typeid" -> IsValue("typeid", t)
      [] name = "typeinfo" -> ValidateTypeInfo(t)
      [] OTHER -> Refused

OfTheType(t, name) ==
    CASE t.is = "int"     -> ValidateInteger(t, name)
      [] t.is = "float"   -> ValidateFloat(t, name)
      [] t.is = "array"   -> ArrayPart(t, name)
      [] t.is = "slice"   -> SlicePart(t, name)
      [] t.is = "tuple"   -> ValidateTuple(t, name)
      [] t.is = "pointer" -> IF name = "inner" THEN IsType(t.inner) ELSE Refused
      [] t.is \in {"bool", "char", "struct"} /\ name = "init" -> OneOf(InitOf(t), t)
      [] OTHER -> Refused

ValidateType(t, name) ==
    IF OfTheType(t, name) # Refused THEN OfTheType(t, name) ELSE OfAnyType(t, name)

\* SubVisitor::validate, of a type and a name.
ValidateSub(context, t, n) ==
    CASE t.is = "enum"   -> ValidateEnum(t.name, n)
      [] t.is = "class"  -> ValidateClass(context, t.name, n)
      [] t.is = "option" -> ValidateOption(t, RemoveUnders(n))
      [] OTHER -> ValidateType(t, RemoveUnders(n))

-----------------------------------------------------------------------------
(* The pragmas.  A field is told by its name; a list of fields is a         *)
(* sequence, and a tuple made of them can not be modified.                 *)

Seen(context, c, proxy, fields) ==
    SelectSeq(fields, LAMBDA f :
        ValidateClassFieldAccess(c, f.name, MayOf(context, c, proxy)) # <<>>)

Names(fields) == [i \in DOMAIN fields |-> fields[i].name]

\* The type of the field as an access gives it, and as a part of a tuple.
Accessed(f, mutable) == [name |-> f.name, type |-> f.type, mut |-> f.mut /\ mutable]
Parts(fields)        == [i \in DOMAIN fields |-> Accessed(fields[i], FALSE)]

ValidateStructFieldNames(s)   == Names(Structs[s])
ValidateStructFieldOffsets(s) == [i \in DOMAIN Structs[s] |-> SelectInSeq(Structs[s], LAMBDA f : f.name = Structs[s][i].name)]
ValidateStructTupleOf(s)      == Parts(Structs[s])
ValidateStructHasDefault(s)   == [i \in DOMAIN Structs[s] |-> Structs[s][i].default # {}]

ValidateEnumFieldNames(e) == Names(Enums[e].members)

ValidateClassFieldNames(context, c)     == Names(Seen(context, c, FALSE, LocalFields(c)))
ValidateClassTupleOf(context, c, proxy) == Parts(Seen(context, c, proxy, Fields[c]))

\* What is local is for the code of the class.
ValidateClassLocalTupleOf(context, c, proxy) ==
    IF MayOf(context, c, proxy).prv THEN {Parts(Seen(context, c, proxy, LocalFields(c)))} ELSE {}
ValidateClassLocalFieldOffsets(context, c, proxy) ==
    IF MayOf(context, c, proxy).prv THEN {Names(LocalFields(c))} ELSE {}

ValidateTupleFieldOffsets(t) == [i \in DOMAIN t.inners |-> i]

\* The pragmas that are given a name, or an index, which CompileTime retrieves.
ValidateStructHasField(s, n) == Named(Structs[s], n) # <<>>
ValidateStructHasDefaultNamed(s, n) ==
    {f.default # {} : f \in Range(Named(Structs[s], n))}
ValidateStructDefaultValue(s, n) == UNION {f.default : f \in Range(Named(Structs[s], n))}
ValidateStructFieldType(s, n, mutable) ==
    {Accessed(f, mutable) : f \in Range(Named(Structs[s], n))}
ValidateTupleFieldType(t, index) ==
    IF Wrapped(ULong, index) >= Len(t.inners) THEN {} ELSE {t.inners[Wrapped(ULong, index) + 1]}

-----------------------------------------------------------------------------
(* What is right.                                                          *)

\* What a class declares is for everyone, for its heirs, or for itself.
Permits(context, owner, prot) ==
    prot = "pub" \/ (prot = "prot" /\ IsHeir(context, owner)) \/ context = owner

\* A field is found where it is declared, never by code that it is hidden from,
\* and always by the code of the object's class when it is not an ancestor's own.
FieldsAreGuarded(context, c, proxy) ==
    \A owner \in Range(Lineage[c]) : \A f \in Range(LocalFields(owner)) :
        LET found == ValidateClassFieldAccess(c, f.name, MayOf(context, c, proxy))
        IN  /\ found \in {<<>>, <<f>>}
            /\ found # <<>> => Permits(context, owner, f.prot)
            /\ (f.prot = "pub" \/ (context = c /\ f.prot = "prot")
                \/ (context = c /\ owner = c /\ ~proxy)) => found # <<>>

\* So is a method, but that the table of a class has the methods that are its
\* ancestors' own, and the code of the class reaches them there.
MethodsAreGuarded(context, c, proxy) ==
    \A owner \in Range(Lineage[c]) : \A m \in Range(Classes[owner].methods) :
        \A finalized \in BOOLEAN :
            LET may == MayOf(context, c, proxy)
            IN  m.by \in ValidateMethod(c, m.name, may, finalized) =>
                    \/ Permits(context, owner, m.prot)
                    \/ finalized /\ may.prv /\ m.prot = "prv" /\ ~m.template

ConstructorsAreGuarded(context, c) ==
    \A n \in {k.name : k \in Classes[c].constructors} \cup {"new"} :
        LET answer == ValidateClass(context, c, Name(n, FALSE))
        IN  answer.is = "constructors" =>
                \A k \in answer.of : Permits(context, c, k.prot)

\* Code takes an object for its ancestor in the class of the object only.
ProxiesAreGuarded(context, c, proxy) ==
    \A n \in DOMAIN Classes \cup {"super"} :
        LET type == IF proxy THEN ClassProxy(c) ELSE ClassPtr(c)
            answer == ValidateClassValue(context, type, Name(n, FALSE))
        IN  answer # Refused =>
                /\ context = c /\ ~proxy /\ answer.type.proxy
                /\ answer.type.name \in Range(Lineage[c])

\* The pragmas list what an access finds, no more and no less, and those that
\* only list what is local list the same fields in the same order.
ClassPragmasAgree(context, c, proxy) ==
    LET found == {f \in Range(Fields[c]) :
                    ValidateClassFieldAccess(c, f.name, MayOf(context, c, proxy)) # <<>>}
        parts == ValidateClassLocalTupleOf(context, c, proxy)
    IN  /\ Range(Names(ValidateClassTupleOf(context, c, proxy))) = {f.name : f \in found}
        /\ Len(ValidateClassTupleOf(context, c, proxy)) = Cardinality(found)
        /\ ~proxy => IsSuffix(ValidateClassFieldNames(context, c),
                              Names(ValidateClassTupleOf(context, c, proxy)))
        /\ parts # {} => context = c
        /\ {Names(p) : p \in parts} = ValidateClassLocalFieldOffsets(context, c, proxy)
        /\ parts # {} => {Names(p) : p \in parts} = {ValidateClassFieldNames(context, c)}

\* What is listed of a structure and what is said of a name are the same.
StructPragmasAgree(s, n) ==
    LET names == ValidateStructFieldNames(s)
        i == SelectInSeq(names, LAMBDA m : m = n)
    IN  /\ ValidateStructFieldOffsets(s) = [k \in DOMAIN names |-> k]
        /\ ValidateStructHasField(s, n) = (i # 0)
        /\ ValidateStructHasDefaultNamed(s, n) = (IF i = 0 THEN {} ELSE {ValidateStructHasDefault(s)[i]})
        /\ (ValidateStructDefaultValue(s, n) # {}) = (i # 0 /\ ValidateStructHasDefault(s)[i])
        /\ ValidateStructFieldType(s, n, FALSE) = (IF i = 0 THEN {} ELSE {ValidateStructTupleOf(s)[i]})
        /\ \A f \in ValidateStructFieldType(s, n, TRUE) : f.mut => Structs[s][i].mut
        /\ i # 0 /\ ValidateStructHasDefault(s)[i] =>
              \A p \in InitOf(StructRef(s)) : {p.value[i]} = ValidateStructDefaultValue(s, n)

\* The members of an enumeration are listed in the order of their names.
EnumPragmasAgree(e) ==
    LET names == ValidateEnumFieldNames(e)
        all == ValidateEnum(e, Name("members", TRUE))
    IN  /\ Len(names) = Len(all.value)
        /\ \A i \in DOMAIN names : ValidateEnum(e, names[i]) = IsValue(all.value[i], EnumRef(e))

\* An index of a tuple is in it, but for `type::index`, which has no test for
\* the one after the last and reads what is not there.
IndexIsGuarded(t, index) ==
    /\ ValidateTupleIndex(t, index).is = "undefined" => index = Len(t.inners)
    /\ ValidateTupleIndex(t, index).is = "type" <=> ValidateTupleFieldType(t, index) # {}
    /\ Len(ValidateTupleFieldOffsets(t)) = ValidateTuple(t, "arity").value

RECURSIVE OfType(_, _)

\* A value of a type, all the way down.  A field that is an enumeration may
\* start with a value that is none of its members.
OfType(p, t) ==
    /\ p.type = t
    /\ CASE t.is = "array" ->
              DOMAIN p.value = 1 .. t.len /\ \A i \in DOMAIN p.value : OfType(p.value[i], t.inner)
         [] t.is = "tuple" ->
              /\ DOMAIN p.value = DOMAIN t.inners
              /\ \A i \in DOMAIN p.value : OfType(p.value[i], t.inners[i])
         [] t.is = "struct" ->
              /\ DOMAIN p.value = DOMAIN Structs[t.name]
              /\ \A i \in DOMAIN p.value : OfType(p.value[i], Structs[t.name][i].type)
         [] t.is = "int" -> Fits(t, p.value)
         [] OTHER -> TRUE

\* The simple types that a first value of t is made of, whatever the lengths.
RECURSIVE MadeOf(_)
MadeOf(t) ==
    CASE t.is = "array"  -> MadeOf(t.inner)
      [] t.is = "tuple"  -> UNION {MadeOf(inner) : inner \in Range(t.inners)}
      [] t.is = "enum"   -> MadeOf(Enums[t.name].inner)
      [] t.is = "struct" -> UNION {MadeOf(f.type) : f \in {x \in Range(Structs[t.name]) : x.default = {}}}
      [] OTHER -> {t}

\* `type::init` is a value of the type, and there is one exactly when all that it
\* is made of has one (a pointer, an object, an option or a range has none); the
\* compiler ends on a part of a type only for the ends of isize and usize, and
\* for an option or a range inside.
RECURSIVE HoldsOption(_)
HoldsOption(t) ==
    t.is \in NoTypeInfo \/ \E i \in DOMAIN TypeInners(t) : HoldsOption(TypeInners(t)[i])

PartsAreRight(context, t, n) ==
    LET answer == ValidateSub(context, t, n)
    IN  /\ \A p \in InitOf(t) : OfType(p, t)
        /\ RemoveUnders(n) = "init" /\ t.is \notin {"enum", "class", "option"} =>
              (answer.is = "value" <=> \A m \in MadeOf(t) : m.is \in {"int", "bool", "char", "float", "slice"})
        /\ answer.is = "halted" =>
              \/ t.is = "int" /\ t.size = 0 /\ RemoveUnders(n) \in {"min", "max"}
              \/ HoldsOption(t) /\ RemoveUnders(n) = "typeinfo"
=============================================================================

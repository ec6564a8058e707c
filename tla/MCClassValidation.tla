-------------------------- MODULE MCClassValidation --------------------------
(* Instances of ClassValidation for TLC: the source programs of each run.   *)
EXTENDS ClassValidation

CONSTANTS A, B, C

Three == {A, B, C}

\* Single inheritance without cycles, up to a renaming of the classes.
Inheritance ==
    {anc \in [Class -> Class \cup {NoClass}] :
        /\ anc[A] = NoClass /\ anc[B] \in {NoClass, A} /\ anc[C] \in {NoClass, A, B}
        /\ anc[B] = NoClass => anc[C] = NoClass}

AtMostOne == {S \in SUBSET Class : Cardinality(S) <= 1}
NoMention == [c \in Class |-> {}]
OneMention == {[NoMention EXCEPT ![c] = {d}] : c \in Class, d \in Class}

Clean(anc, sig, fld, mod) ==
    [ancestor |-> anc, sigs |-> sig, defaults |-> NoMention, fieldTypes |-> fld, module |-> mod,
     instances |-> {}, final |-> {}, badAssert |-> {}, badVtable |-> {},
     clash |-> {}, bodyUses |-> 0]

\* Every acyclic inheritance, and methods that mention any one class each, or
\* one method and one field that mention a class; no declaration is erroneous.
AnyMention ==
    {Clean(anc, sig, NoMention, Class) : anc \in Inheritance, sig \in [Class -> AtMostOne]}
    \cup {Clean(anc, sig, fld, Class) : anc \in Inheritance, sig \in OneMention, fld \in OneMention}

\* Programs with one faulty declaration: an erroneous method, a field that
\* redeclares one of the ancestor, or an ancestor marked final.
Faults ==
    {[badVtable |-> {x}, clash |-> {}, final |-> {}] : x \in Class}
    \cup {[badVtable |-> {}, clash |-> {x}, final |-> {}] : x \in Class \ {A}}
    \cup {[badVtable |-> {}, clash |-> {}, final |-> {x}] : x \in Class \ {C}}

FaultyProgram ==
    {[Clean(anc, sig, NoMention, Class) EXCEPT !.bodyUses = 1,
        !.badVtable = f.badVtable, !.clash = f.clash, !.final = f.final] :
        anc \in {i \in Inheritance : i[B] = A},
        sig \in OneMention \cup {m \in [Class -> AtMostOne] : m[C] = {}}, f \in Faults}

\* Two classes with any mentions and any combination of faults, failing
\* assertions included.
Pairs == {i \in Inheritance : i[C] = NoClass}

FaultyPair ==
    {[Clean(anc, sig, NoMention, mod) EXCEPT !.bodyUses = 1, !.instances = {A, B} \ mod,
        !.final = fin, !.badAssert = bad \ vt, !.badVtable = vt] :
        anc \in Pairs, sig \in {f \in [Class -> SUBSET {A, B}] : f[C] = {}},
        mod \in {{A}, {B}, {A, B}}, fin \in {{}, {A}},
        bad \in {{}, {A}, {B}}, vt \in {{}, {A}, {B}}}

\* Solutions of templates, in the declaration of one another or in the body of
\* a function, of which one or a class of another module is erroneous, and a
\* default value: errors that a speculative caller drops.
FaultySolution ==
    {[Clean(anc, sig, NoMention, {}) EXCEPT !.bodyUses = 1, !.instances = ins,
        !.defaults = val, !.badVtable = {x}] :
        anc \in {i \in Inheritance : i[B] = NoClass \/ i[C] = B},
        sig \in OneMention, val \in {NoMention, [NoMention EXCEPT ![B] = {A}]},
        ins \in {{C}, {A, B}, {B, C}}, x \in Class}

ErroneousProgram == FaultyProgram \cup FaultyPair \cup FaultySolution

\* Programs in which a class mentions only itself and classes before it: no
\* class mentions one of its heirs.
Before(c) == CASE c = A -> {A} [] c = B -> {A, B} [] c = C -> {A, B, C}

LayeredMentions ==
    [ancestor : Inheritance,
     sigs : {f \in [Class -> SUBSET Class] : \A c \in Class : f[c] \subseteq Before(c)},
     defaults : {NoMention}, fieldTypes : {NoMention},
     module : {{B}, Class}, instances : {{}}, final : {{}}, badAssert : {{}},
     badVtable : {{}}, clash : {{}}, bodyUses : {0}]

\* Two of the three classes, or one of them, are solutions of templates, met in
\* the declaration of another class or only in the body of a function.
WithInstances ==
    {[Clean(anc, sig, NoMention, Class \ ins) EXCEPT !.instances = ins, !.bodyUses = 1] :
        anc \in Inheritance, sig \in OneMention \cup {m \in [Class -> AtMostOne] : m[B] = {}}, ins \in {{C}, {A, B}}}

\* A default value mentions a class: it is validated later than its method.
WithDefaults ==
    {[Clean(anc, sig, NoMention, Class) EXCEPT !.defaults = val] :
        anc \in Inheritance, sig \in {NoMention} \cup OneMention, val \in OneMention}

ValidProgram == AnyMention \cup LayeredMentions \cup WithInstances \cup WithDefaults

MCProgram == ValidProgram \cup ErroneousProgram

\* Programs whose classes all mention each other.
Chain  == [c \in Class |-> CASE c = A -> NoClass [] c = B -> A [] c = C -> B]
Mutual == [ancestor : {Chain}, sigs : [Class -> SUBSET Class], defaults : {NoMention},
           fieldTypes : {NoMention}, module : {Class}, instances : {{}}, final : {{}}, badAssert : {{}},
           badVtable : {{}}, clash : {{}}, bodyUses : {0}]

=============================================================================

------------------------ MODULE ScopeProtocol_proofs ------------------------
(***************************************************************************)
(* If every function, read on its own, keeps its scopes balanced           *)
(* (Disciplined), then so does every execution: however many functions     *)
(* there are, however deep they call each other, wherever errors are       *)
(* thrown and caught.                                                      *)
(***************************************************************************)
EXTENDS ScopeProtocol, SequenceTheorems, TLAPS

-----------------------------------------------------------------------------
(* Scopes, and what is held on top of the scopes of a caller.               *)

LEMMA KindCases ==
    ASSUME NEW k \in Kind
    PROVE  \/ k \in Counter /\ k \notin Local /\ k # "classdef" /\ k # "foreign"
           \/ k \in Local /\ k \notin Counter /\ k # "classdef" /\ k # "foreign"
           \/ k = "foreign" /\ k \notin Local /\ k \notin Counter
           \/ k = "classdef" /\ k \notin Local /\ k \notin Counter
    BY DEF Kind, Counter, Local

LEMMA NoScopeType == NoScope \in Scope /\ NoScope \in HeldScope
  <1>1. <<EmptyFrame>> \in Seq(Frame) \ {<<>>}
    BY DEF EmptyFrame, Frame
  <1> QED BY <1>1 DEF NoScope, Scope, HeldScope

LEMMA OpenedType ==
    ASSUME NEW s \in Scope, NEW k \in Kind, NEW y \in Symbol
    PROVE  Opened(s, k, y) \in Scope
  <1>1. CASE k \in Counter
    <2>1. [s.count EXCEPT ![k] = @ + 1] \in [Counter -> Nat]
      BY <1>1 DEF Scope
    <2>2. Opened(s, k, y) = [s EXCEPT !.count = [s.count EXCEPT ![k] = @ + 1]]
      BY <1>1, KindCases DEF Opened, Scope
    <2> QED BY <2>1, <2>2 DEF Scope
  <1>2. CASE k = "classdef"
    <2>1. Append(s.classes, y) \in Seq(Symbol)
      BY DEF Scope
    <2> QED BY <1>2, <2>1, KindCases DEF Opened, Scope
  <1>3. CASE k = "foreign"
    <2>1. Append(s.frames, EmptyFrame) \in Seq(Frame) \ {<<>>}
      BY DEF Scope, EmptyFrame, Frame
    <2> QED BY <1>3, <2>1, KindCases DEF Opened, Scope
  <1>4. CASE k \in Local
    <2> DEFINE fs == s.frames
               n  == Len(fs)
    <2>1. fs \in Seq(Frame) /\ n \in 1..Len(fs)
      BY DEF Scope
    <2>2. [fs[n] EXCEPT ![k] = @ + 1] \in Frame
      BY <2>1, <1>4 DEF Frame
    <2>3. [fs EXCEPT ![n] = [fs[n] EXCEPT ![k] = @ + 1]] \in Seq(Frame) \ {<<>>}
      BY <2>1, <2>2
    <2>4. Opened(s, k, y) = [s EXCEPT !.frames = [fs EXCEPT ![n] = [fs[n] EXCEPT ![k] = @ + 1]]]
      BY <1>4, KindCases, <2>1 DEF Opened, Scope
    <2> QED BY <2>3, <2>4 DEF Scope
  <1> QED BY <1>1, <1>2, <1>3, <1>4, KindCases

LEMMA ClosedType ==
    ASSUME NEW s \in Scope, NEW k \in Kind, NEW y, Closable(s, k, y)
    PROVE  Closed(s, k) \in Scope
  <1>1. CASE k \in Counter
    <2>0. s.count[k] > 0
      BY <1>1, KindCases DEF Closable
    <2>1. [s.count EXCEPT ![k] = @ - 1] \in [Counter -> Nat]
      BY <1>1, <2>0 DEF Scope
    <2>2. Closed(s, k) = [s EXCEPT !.count = [s.count EXCEPT ![k] = @ - 1]]
      BY <1>1, KindCases DEF Closed, Scope
    <2> QED BY <2>1, <2>2 DEF Scope
  <1>2. CASE k = "classdef"
    <2>1. DropLast(s.classes) \in Seq(Symbol)
      BY <1>2, KindCases DEF Scope, Closable, DropLast
    <2> QED BY <1>2, <2>1, KindCases DEF Closed, Scope
  <1>3. CASE k = "foreign"
    <2>0. s.frames \in Seq(Frame) /\ Len(s.frames) > 1
      BY <1>3, KindCases DEF Closable, Scope
    <2>1. DropLast(s.frames) \in Seq(Frame) /\ Len(DropLast(s.frames)) = Len(s.frames) - 1
      BY <2>0 DEF DropLast
    <2>2. DropLast(s.frames) \in Seq(Frame) \ {<<>>}
      BY <2>0, <2>1
    <2> QED BY <1>3, <2>2, KindCases DEF Closed, Scope
  <1>4. CASE k \in Local
    <2> DEFINE fs == s.frames
               n  == Len(fs)
    <2>1. fs \in Seq(Frame) /\ n \in 1..Len(fs)
      BY DEF Scope
    <2>2. [fs[n] EXCEPT ![k] = @ - 1] \in Frame
      BY <2>1, <1>4, KindCases DEF Frame, Closable
    <2>3. [fs EXCEPT ![n] = [fs[n] EXCEPT ![k] = @ - 1]] \in Seq(Frame) \ {<<>>}
      BY <2>1, <2>2
    <2>4. Closed(s, k) = [s EXCEPT !.frames = [fs EXCEPT ![n] = [fs[n] EXCEPT ![k] = @ - 1]]]
      BY <1>4, KindCases, <2>1 DEF Closed, Scope
    <2> QED BY <2>3, <2>4 DEF Scope
  <1> QED BY <1>1, <1>2, <1>3, <1>4, KindCases

-----------------------------------------------------------------------------
(* The parts of Extend. *)

LEMMA OneOrMore ==
    ASSUME NEW n \in Nat \ {0}
    PROVE  n = 1 \/ n > 1
    OBVIOUS

LEMMA LastDropped ==
    ASSUME NEW S, NEW s \in Seq(S), Len(s) > 0
    PROVE  /\ DropLast(s) \in Seq(S)
           /\ Len(DropLast(s)) = Len(s) - 1
           /\ \A n \in 1..(Len(s) - 1) : DropLast(s)[n] = s[n]
  <1>1. \A n \in 1..(Len(s) - 1) : s[n] \in S
    OBVIOUS
  <1>2. 1 \in Int /\ Len(s) - 1 \in Int
    OBVIOUS
  <1>3. /\ DropLast(s) \in Seq(S)
        /\ Len(DropLast(s)) = IF 1 <= Len(s) - 1 THEN Len(s) - 1 - 1 + 1 ELSE 0
        /\ \A n \in 1..(Len(s) - 1 - 1 + 1) : DropLast(s)[n] = s[1 + n - 1]
    BY <1>1, <1>2, SubSeqProperties DEF DropLast
  <1>4. Len(DropLast(s)) = Len(s) - 1
    <2>1. Len(s) \in Nat \ {0}
      OBVIOUS
    <2>2. Len(s) = 1 \/ Len(s) > 1
      BY <2>1, OneOrMore
    <2>3. CASE Len(s) = 1
      BY <1>3, <2>3
    <2>4. CASE Len(s) > 1
      BY <1>3, <2>1, <2>4
    <2> QED BY <2>2, <2>3, <2>4
  <1>5. ASSUME NEW n \in 1..(Len(s) - 1) PROVE DropLast(s)[n] = s[n]
    <2>1. n \in 1..(Len(s) - 1 - 1 + 1) /\ 1 + n - 1 = n
      OBVIOUS
    <2> QED BY <2>1, <1>3
  <1> QED BY <1>3, <1>4, <1>5

LEMMA ClassesAdded ==
    ASSUME NEW c \in Nat, NEW d \in Seq(Symbol), NEW y \in Symbol
    PROVE  /\ AddClasses(c, d, y) \in Seq(Symbol)
           /\ Len(AddClasses(c, d, y)) = c + Len(d)
           /\ \A n \in 1..(c + Len(d)) :
                 AddClasses(c, d, y)[n] = IF n <= Len(d) THEN d[n] ELSE y
  <1>1. \A n \in 1..(c + Len(d)) : (IF n <= Len(d) THEN d[n] ELSE y) \in Symbol
    OBVIOUS
  <1> QED BY <1>1 DEF AddClasses

LEMMA ClassPushed ==
    ASSUME NEW c \in Nat, NEW d \in Seq(Symbol), NEW y \in Symbol
    PROVE  Append(AddClasses(c, d, y), y) = AddClasses(c + 1, d, y)
  <1>0. c + 1 \in Nat
    OBVIOUS
  <1>1. PICK s : s = AddClasses(c, d, y)
    OBVIOUS
  <1>2. PICK t : t = AddClasses(c + 1, d, y)
    OBVIOUS
  <1>3. /\ s \in Seq(Symbol) /\ Len(s) = c + Len(d)
        /\ \A n \in 1..(c + Len(d)) : s[n] = IF n <= Len(d) THEN d[n] ELSE y
    BY <1>1, ClassesAdded
  <1>4. /\ t \in Seq(Symbol) /\ Len(t) = c + 1 + Len(d)
        /\ \A n \in 1..(c + 1 + Len(d)) : t[n] = IF n <= Len(d) THEN d[n] ELSE y
    BY <1>0, <1>2, ClassesAdded
  <1>5. /\ Append(s, y) \in Seq(Symbol) /\ Len(Append(s, y)) = Len(s) + 1
        /\ \A n \in 1..Len(s) : Append(s, y)[n] = s[n]
        /\ Append(s, y)[Len(s) + 1] = y
    BY <1>3, AppendProperties
  <1>6. \A n \in 1..Len(t) : Append(s, y)[n] = t[n]
    BY <1>3, <1>4, <1>5
  <1>7. Append(s, y) = t
    BY <1>3, <1>4, <1>5, <1>6, SeqEqual
  <1> QED BY <1>1, <1>2, <1>7

LEMMA ClassPopped ==
    ASSUME NEW c \in Nat \ {0}, NEW d \in Seq(Symbol), NEW y \in Symbol
    PROVE  /\ AddClasses(c, d, y) # <<>>
           /\ AddClasses(c, d, y)[Len(AddClasses(c, d, y))] = y
           /\ DropLast(AddClasses(c, d, y)) = AddClasses(c - 1, d, y)
  <1>0. c \in Nat /\ c - 1 \in Nat /\ Len(d) \in Nat
    OBVIOUS
  <1>1. PICK s : s = AddClasses(c, d, y)
    OBVIOUS
  <1>2. PICK t : t = AddClasses(c - 1, d, y)
    OBVIOUS
  <1>3. /\ s \in Seq(Symbol) /\ Len(s) = c + Len(d)
        /\ \A n \in 1..(c + Len(d)) : s[n] = IF n <= Len(d) THEN d[n] ELSE y
    BY <1>0, <1>1, ClassesAdded
  <1>4. /\ t \in Seq(Symbol) /\ Len(t) = c - 1 + Len(d)
        /\ \A n \in 1..(c - 1 + Len(d)) : t[n] = IF n <= Len(d) THEN d[n] ELSE y
    BY <1>0, <1>2, ClassesAdded
  <1>5. s # <<>> /\ s[Len(s)] = y
    BY <1>0, <1>3
  <1>6. /\ DropLast(s) \in Seq(Symbol) /\ Len(DropLast(s)) = Len(s) - 1
        /\ \A n \in 1..(Len(s) - 1) : DropLast(s)[n] = s[n]
    <2>1. Len(s) > 0
      BY <1>0, <1>3
    <2> QED BY <2>1, <1>3, LastDropped
  <1>7. \A n \in 1..Len(t) : DropLast(s)[n] = t[n]
    BY <1>0, <1>3, <1>4, <1>6
  <1>8. Len(DropLast(s)) = Len(t)
    BY <1>0, <1>3, <1>4, <1>6
  <1>9. DropLast(s) = t
    BY <1>4, <1>6, <1>7, <1>8, SeqEqual
  <1> QED BY <1>1, <1>2, <1>5, <1>9

Frames == Seq(Frame) \ {<<>>}

LEMMA FrameAdded ==
    ASSUME NEW f \in Frame, NEW g \in Frame
    PROVE  AddFrame(f, g) \in Frame
    BY DEF AddFrame, Frame

LEMMA FramesAdded ==
    ASSUME NEW f \in Frames, NEW g \in Frames
    PROVE  /\ AddFrames(f, g) \in Frames
           /\ Len(AddFrames(f, g)) = Len(f) + Len(g) - 1
           /\ \A n \in 1..(Len(f) + Len(g) - 1) :
                 AddFrames(f, g)[n] = IF n < Len(f) THEN f[n]
                                      ELSE IF n = Len(f) THEN AddFrame(f[n], g[1])
                                      ELSE g[n + 1 - Len(f)]
  <1>1. /\ f \in Seq(Frame) /\ Len(f) \in Nat \ {0}
        /\ g \in Seq(Frame) /\ Len(g) \in Nat \ {0}
    BY DEF Frames
  <1>2. Len(f) + Len(g) - 1 \in Nat \ {0}
    BY <1>1
  <1>3. ASSUME NEW n \in 1..(Len(f) + Len(g) - 1)
        PROVE  (IF n < Len(f) THEN f[n]
                ELSE IF n = Len(f) THEN AddFrame(f[n], g[1])
                ELSE g[n + 1 - Len(f)]) \in Frame
    <2>1. CASE n < Len(f)
      BY <2>1, <1>1
    <2>2. CASE n = Len(f)
      <3>1. f[n] \in Frame /\ g[1] \in Frame
        BY <2>2, <1>1
      <3> QED BY <3>1, <2>2, <1>1, FrameAdded
    <2>3. CASE n > Len(f)
      BY <2>3, <1>1
    <2> QED BY <2>1, <2>2, <2>3, <1>1
  <1>4. /\ AddFrames(f, g) \in Seq(Frame)
        /\ Len(AddFrames(f, g)) = Len(f) + Len(g) - 1
    BY <1>2, <1>3 DEF AddFrames
  <1>5. AddFrames(f, g) # <<>>
    BY <1>2, <1>4
  <1> QED BY <1>4, <1>5 DEF AddFrames, Frames

LEMMA NothingAdded ==
    ASSUME NEW f \in Frames
    PROVE  AddFrames(f, <<EmptyFrame>>) = f
  <1>1. PICK g : g = <<EmptyFrame>>
    OBVIOUS
  <1>2. g \in Frames /\ Len(g) = 1 /\ g[1] = EmptyFrame /\ EmptyFrame \in Frame
    BY <1>1 DEF Frames, EmptyFrame, Frame
  <1>3. f \in Seq(Frame) /\ Len(f) \in Nat \ {0}
    BY DEF Frames
  <1>4. PICK s : s = AddFrames(f, g)
    OBVIOUS
  <1>a. /\ s \in Seq(Frame) /\ Len(s) = Len(f) + Len(g) - 1
        /\ \A n \in 1..(Len(f) + Len(g) - 1) :
              s[n] = IF n < Len(f) THEN f[n]
                     ELSE IF n = Len(f) THEN AddFrame(f[n], g[1])
                     ELSE g[n + 1 - Len(f)]
    BY <1>2, <1>4, FramesAdded DEF Frames
  <1>5. /\ s \in Seq(Frame) /\ Len(s) = Len(f) + 1 - 1
        /\ \A n \in 1..(Len(f) + 1 - 1) :
              s[n] = IF n < Len(f) THEN f[n]
                     ELSE IF n = Len(f) THEN AddFrame(f[n], g[1])
                     ELSE g[n + 1 - Len(f)]
    BY <1>a, <1>2
  <1>6. AddFrame(f[Len(f)], EmptyFrame) = f[Len(f)]
    BY <1>3 DEF AddFrame, EmptyFrame, Frame
  <1>7. Len(s) = Len(f)
    BY <1>3, <1>5
  <1>8. \A n \in 1..Len(s) : s[n] = f[n]
    BY <1>2, <1>3, <1>5, <1>6, <1>7
  <1>9. s = f
    BY <1>3, <1>5, <1>7, <1>8, SeqEqual
  <1> QED BY <1>1, <1>4, <1>9

LEMMA FramePushed ==
    ASSUME NEW f \in Frames, NEW g \in Frames
    PROVE  Append(AddFrames(f, g), EmptyFrame) = AddFrames(f, Append(g, EmptyFrame))
  <1>0. EmptyFrame \in Frame
    BY DEF EmptyFrame, Frame
  <1>1. /\ f \in Seq(Frame) /\ Len(f) \in Nat \ {0}
        /\ g \in Seq(Frame) /\ Len(g) \in Nat \ {0}
    BY DEF Frames
  <1>2. PICK a : a = Append(g, EmptyFrame)
    OBVIOUS
  <1>3. /\ a \in Frames /\ Len(a) = Len(g) + 1
        /\ \A n \in 1..Len(g) : a[n] = g[n]
        /\ a[Len(g) + 1] = EmptyFrame
    BY <1>0, <1>1, <1>2, AppendProperties DEF Frames
  <1>4. PICK s : s = AddFrames(f, g)
    OBVIOUS
  <1>5. PICK t : t = AddFrames(f, a)
    OBVIOUS
  <1>6. /\ s \in Seq(Frame) /\ Len(s) = Len(f) + Len(g) - 1
        /\ \A n \in 1..(Len(f) + Len(g) - 1) :
              s[n] = IF n < Len(f) THEN f[n]
                     ELSE IF n = Len(f) THEN AddFrame(f[n], g[1])
                     ELSE g[n + 1 - Len(f)]
    BY <1>4, FramesAdded DEF Frames
  <1>7. /\ t \in Seq(Frame) /\ Len(t) = Len(f) + Len(a) - 1
        /\ \A n \in 1..(Len(f) + Len(a) - 1) :
              t[n] = IF n < Len(f) THEN f[n]
                     ELSE IF n = Len(f) THEN AddFrame(f[n], a[1])
                     ELSE a[n + 1 - Len(f)]
    BY <1>3, <1>5, FramesAdded DEF Frames
  <1>8. /\ Append(s, EmptyFrame) \in Seq(Frame)
        /\ Len(Append(s, EmptyFrame)) = Len(s) + 1
        /\ \A n \in 1..Len(s) : Append(s, EmptyFrame)[n] = s[n]
        /\ Append(s, EmptyFrame)[Len(s) + 1] = EmptyFrame
    BY <1>0, <1>6, AppendProperties
  <1>9. Len(Append(s, EmptyFrame)) = Len(t)
    BY <1>1, <1>3, <1>6, <1>7, <1>8
  <1>10. ASSUME NEW n \in 1..Len(t) PROVE Append(s, EmptyFrame)[n] = t[n]
    <2>1. CASE n < Len(f)
      <3>1. n \in 1..Len(s) /\ n \in 1..(Len(f) + Len(g) - 1) /\ n \in 1..(Len(f) + Len(a) - 1)
        BY <2>1, <1>1, <1>3, <1>6, <1>7
      <3> QED BY <2>1, <3>1, <1>6, <1>7, <1>8
    <2>2. CASE n = Len(f)
      <3>1. a[1] = g[1]
        BY <1>1, <1>3
      <3>2. n \in 1..Len(s) /\ n \in 1..(Len(f) + Len(g) - 1) /\ n \in 1..(Len(f) + Len(a) - 1)
        BY <2>2, <1>1, <1>3, <1>6
      <3> QED BY <2>2, <3>1, <3>2, <1>6, <1>7, <1>8
    <2>3. CASE n > Len(f) /\ n <= Len(s)
      <3>1. n + 1 - Len(f) \in 1..Len(g)
        BY <2>3, <1>1, <1>6
      <3>2. /\ n \in 1..Len(s) /\ n \in 1..(Len(f) + Len(g) - 1)
            /\ n \in 1..(Len(f) + Len(a) - 1) /\ ~(n < Len(f)) /\ n # Len(f)
        BY <2>3, <1>1, <1>3, <1>6, <1>7
      <3>3. s[n] = g[n + 1 - Len(f)] /\ t[n] = a[n + 1 - Len(f)]
        BY <3>2, <1>6, <1>7
      <3>4. a[n + 1 - Len(f)] = g[n + 1 - Len(f)]
        BY <3>1, <1>3
      <3> QED BY <3>2, <3>3, <3>4, <1>8
    <2>4. CASE n = Len(s) + 1
      <3>1. n + 1 - Len(f) = Len(g) + 1 /\ n > Len(f)
        BY <2>4, <1>1, <1>6
      <3>2. n \in 1..(Len(f) + Len(a) - 1) /\ ~(n < Len(f)) /\ n # Len(f)
        BY <2>4, <1>1, <1>3, <1>6
      <3>3. t[n] = a[Len(g) + 1]
        BY <3>1, <3>2, <1>7
      <3> QED BY <2>4, <3>3, <1>3, <1>8
    <2> QED BY <2>1, <2>2, <2>3, <2>4, <1>1, <1>3, <1>6, <1>7
  <1>11. Append(s, EmptyFrame) = t
    BY <1>7, <1>8, <1>9, <1>10, SeqEqual
  <1> QED BY <1>2, <1>4, <1>5, <1>11

LEMMA FramePopped ==
    ASSUME NEW f \in Frames, NEW g \in Frames, Len(g) > 1
    PROVE  /\ Len(AddFrames(f, g)) > 1
           /\ DropLast(AddFrames(f, g)) = AddFrames(f, DropLast(g))
  <1>1. /\ f \in Seq(Frame) /\ Len(f) \in Nat \ {0}
        /\ g \in Seq(Frame) /\ Len(g) \in Nat \ {0}
    BY DEF Frames
  <1>2. PICK a : a = DropLast(g)
    OBVIOUS
  <1>a. /\ a \in Seq(Frame) /\ Len(a) = Len(g) - 1
        /\ \A n \in 1..(Len(g) - 1) : a[n] = g[n]
    BY <1>1, <1>2, LastDropped
  <1>3. a \in Frames
    BY <1>1, <1>a DEF Frames
  <1>4. PICK s : s = AddFrames(f, g)
    OBVIOUS
  <1>5. PICK t : t = AddFrames(f, a)
    OBVIOUS
  <1>6. /\ s \in Seq(Frame) /\ Len(s) = Len(f) + Len(g) - 1
        /\ \A n \in 1..(Len(f) + Len(g) - 1) :
              s[n] = IF n < Len(f) THEN f[n]
                     ELSE IF n = Len(f) THEN AddFrame(f[n], g[1])
                     ELSE g[n + 1 - Len(f)]
    BY <1>4, FramesAdded DEF Frames
  <1>7. /\ t \in Seq(Frame) /\ Len(t) = Len(f) + Len(a) - 1
        /\ \A n \in 1..(Len(f) + Len(a) - 1) :
              t[n] = IF n < Len(f) THEN f[n]
                     ELSE IF n = Len(f) THEN AddFrame(f[n], a[1])
                     ELSE a[n + 1 - Len(f)]
    BY <1>3, <1>5, FramesAdded DEF Frames
  <1>b. Len(s) > 1 /\ Len(s) - 1 = Len(t)
    BY <1>1, <1>a, <1>6, <1>7
  <1>8. /\ DropLast(s) \in Seq(Frame) /\ Len(DropLast(s)) = Len(s) - 1
        /\ \A n \in 1..(Len(s) - 1) : DropLast(s)[n] = s[n]
    <2>1. Len(s) > 0
      BY <1>1, <1>6
    <2> QED BY <1>6, <2>1, LastDropped
  <1>10. ASSUME NEW n \in 1..Len(t) PROVE DropLast(s)[n] = t[n]
    <2>0. /\ n \in 1..(Len(s) - 1) /\ n \in 1..(Len(f) + Len(g) - 1)
          /\ n \in 1..(Len(f) + Len(a) - 1)
      BY <1>1, <1>a, <1>6, <1>7, <1>b
    <2>1. CASE n < Len(f)
      BY <2>0, <2>1, <1>6, <1>7, <1>8
    <2>2. CASE n = Len(f)
      <3>1. a[1] = g[1]
        BY <1>1, <1>a
      <3> QED BY <2>0, <2>2, <3>1, <1>6, <1>7, <1>8
    <2>3. CASE n > Len(f)
      <3>1. n + 1 - Len(f) \in 1..(Len(g) - 1)
        BY <2>0, <2>3, <1>1, <1>a
      <3> QED BY <2>0, <2>3, <3>1, <1>1, <1>a, <1>6, <1>7, <1>8
    <2> QED BY <2>0, <2>1, <2>2, <2>3, <1>1
  <1>11. DropLast(s) = t
    BY <1>7, <1>8, <1>b, <1>10, SeqEqual
  <1> QED BY <1>2, <1>4, <1>5, <1>b, <1>11

\* The counts of the last frame change alike in g and on top of f.
LastChanged(f, k, d) ==
    [f EXCEPT ![Len(f)] = [f[Len(f)] EXCEPT ![k] = f[Len(f)][k] + d]]

LEMMA FrameUpdated ==
    ASSUME NEW f \in Frames, NEW g \in Frames, NEW k \in Local, NEW d \in Int,
           g[Len(g)][k] + d \in Nat
    PROVE  /\ AddFrames(f, g)[Len(AddFrames(f, g))][k] >= g[Len(g)][k]
           /\ LastChanged(AddFrames(f, g), k, d) = AddFrames(f, LastChanged(g, k, d))
  <1>1. /\ f \in Seq(Frame) /\ Len(f) \in Nat \ {0}
        /\ g \in Seq(Frame) /\ Len(g) \in Nat \ {0}
    BY DEF Frames
  <1>2. PICK u : u = [g[Len(g)] EXCEPT ![k] = g[Len(g)][k] + d]
    OBVIOUS
  <1>3. g[Len(g)] \in Frame /\ u \in Frame
    BY <1>1, <1>2 DEF Frame
  <1>4. PICK a : a = [g EXCEPT ![Len(g)] = u]
    OBVIOUS
  <1>5. /\ a \in Frames /\ Len(a) = Len(g)
        /\ \A n \in 1..Len(g) : a[n] = IF n = Len(g) THEN u ELSE g[n]
    BY <1>1, <1>3, <1>4 DEF Frames
  <1>6. PICK s : s = AddFrames(f, g)
    OBVIOUS
  <1>7. PICK t : t = AddFrames(f, a)
    OBVIOUS
  <1>8. /\ s \in Seq(Frame) /\ Len(s) = Len(f) + Len(g) - 1
        /\ \A n \in 1..(Len(f) + Len(g) - 1) :
              s[n] = IF n < Len(f) THEN f[n]
                     ELSE IF n = Len(f) THEN AddFrame(f[n], g[1])
                     ELSE g[n + 1 - Len(f)]
    BY <1>6, FramesAdded DEF Frames
  <1>9. /\ t \in Seq(Frame) /\ Len(t) = Len(f) + Len(g) - 1
        /\ \A n \in 1..(Len(f) + Len(g) - 1) :
              t[n] = IF n < Len(f) THEN f[n]
                     ELSE IF n = Len(f) THEN AddFrame(f[n], a[1])
                     ELSE a[n + 1 - Len(f)]
    <2>1. /\ t \in Seq(Frame) /\ Len(t) = Len(f) + Len(a) - 1
          /\ \A n \in 1..(Len(f) + Len(a) - 1) :
                t[n] = IF n < Len(f) THEN f[n]
                       ELSE IF n = Len(f) THEN AddFrame(f[n], a[1])
                       ELSE a[n + 1 - Len(f)]
      BY <1>5, <1>7, FramesAdded DEF Frames
    <2> QED BY <2>1, <1>5
  <1>10. Len(s) \in 1..Len(s) /\ Len(s) >= Len(f)
    BY <1>1, <1>8
  <1>11. /\ s[Len(s)][k] >= g[Len(g)][k]
         /\ t[Len(s)] = [s[Len(s)] EXCEPT ![k] = s[Len(s)][k] + d]
    <2>1. CASE Len(g) = 1
      <3>1. Len(s) = Len(f) /\ g[1] \in Frame /\ f[Len(f)] \in Frame /\ a[1] = u
        <4>1. Len(s) = Len(f) /\ f[Len(f)] \in Frame
          BY <2>1, <1>1, <1>8
        <4>2. g[1] \in Frame
          BY <2>1, <1>3
        <4>3. a[1] = u
          BY <2>1, <1>5
        <4> QED BY <4>1, <4>2, <4>3
      <3>2. s[Len(s)] = AddFrame(f[Len(f)], g[1]) /\ t[Len(s)] = AddFrame(f[Len(f)], u)
        BY <3>1, <1>8, <1>9, <1>10
      <3>3. AddFrame(f[Len(f)], g[1])[k] = f[Len(f)][k] + g[1][k]
        BY DEF AddFrame
      <3>4. AddFrame(f[Len(f)], u) = [AddFrame(f[Len(f)], g[1]) EXCEPT ![k] = f[Len(f)][k] + g[1][k] + d]
        <4>1. u = [g[1] EXCEPT ![k] = g[1][k] + d]
          BY <1>2, <2>1
        <4>2. \A j \in Local : u[j] = IF j = k THEN g[1][k] + d ELSE g[1][j]
          BY <3>1, <4>1 DEF Frame
        <4>3. f[Len(f)][k] + (g[1][k] + d) = f[Len(f)][k] + g[1][k] + d
          BY <3>1 DEF Frame
        <4> QED BY <3>1, <4>2, <4>3 DEF AddFrame, Frame
      <3>5. f[Len(f)][k] + g[1][k] >= g[1][k]
        BY <3>1 DEF Frame
      <3> QED BY <2>1, <3>2, <3>3, <3>4, <3>5
    <2>2. CASE Len(g) > 1
      <3>1. Len(s) > Len(f) /\ Len(s) + 1 - Len(f) = Len(g)
        BY <2>2, <1>1, <1>8
      <3>2. s[Len(s)] = g[Len(g)] /\ t[Len(s)] = a[Len(g)]
        BY <3>1, <1>1, <1>8, <1>9, <1>10
      <3>3. a[Len(g)] = u /\ g[Len(g)][k] \in Nat
        BY <1>1, <1>3, <1>5 DEF Frame
      <3> QED BY <3>2, <3>3, <1>2
    <2>3. Len(g) = 1 \/ Len(g) > 1
      BY <1>1, OneOrMore
    <2> QED BY <2>1, <2>2, <2>3
  <1>12. PICK w : w = [s EXCEPT ![Len(s)] = [s[Len(s)] EXCEPT ![k] = s[Len(s)][k] + d]]
    OBVIOUS
  <1>13. ASSUME NEW n \in 1..Len(s), n # Len(s) PROVE s[n] = t[n]
    <2>0. n \in 1..(Len(f) + Len(g) - 1)
      BY <1>8
    <2>1. CASE n < Len(f)
      BY <2>0, <2>1, <1>8, <1>9
    <2>2. CASE n = Len(f)
      <3>1. a[1] = g[1]
        BY <2>2, <1>1, <1>5, <1>8, <1>13
      <3> QED BY <2>0, <2>2, <3>1, <1>8, <1>9
    <2>3. CASE n > Len(f)
      <3>1. n + 1 - Len(f) \in 1..Len(g) /\ n + 1 - Len(f) # Len(g)
        BY <2>0, <2>3, <1>1, <1>8, <1>13
      <3>2. a[n + 1 - Len(f)] = g[n + 1 - Len(f)]
        BY <3>1, <1>5
      <3> QED BY <2>0, <2>3, <3>2, <1>1, <1>8, <1>9
    <2> QED BY <2>0, <2>1, <2>2, <2>3, <1>1
  <1>14. w = t
    <2>1. t[Len(s)] \in Frame /\ Len(t) = Len(s)
      BY <1>8, <1>9, <1>10
    <2>2. /\ w \in Seq(Frame) /\ Len(w) = Len(s)
          /\ \A n \in 1..Len(s) : w[n] = IF n = Len(s) THEN t[Len(s)] ELSE s[n]
      BY <2>1, <1>8, <1>10, <1>11, <1>12
    <2>3. \A n \in 1..Len(s) : w[n] = t[n]
      BY <2>2, <1>13
    <2> QED BY <2>1, <2>2, <2>3, <1>9, SeqEqual
  <1>15. LastChanged(g, k, d) = a /\ LastChanged(s, k, d) = w
    BY <1>2, <1>4, <1>12, Zenon DEF LastChanged
  <1>16. LastChanged(s, k, d) = AddFrames(f, LastChanged(g, k, d))
    BY <1>7, <1>14, <1>15
  <1> QED BY <1>6, <1>11, <1>16

-----------------------------------------------------------------------------
(* A function that enters and quits scopes does to those of the Visitor     *)
(* what it does to those it holds.                                          *)

LEMMA HeldParts ==
    ASSUME NEW h \in HeldScope
    PROVE  /\ h.count \in [Counter -> Nat] /\ h.frames \in Frames
           /\ h.classes \in Seq({"self"}) /\ Len(h.classes) \in Nat
           /\ h = [count |-> h.count, frames |-> h.frames, classes |-> h.classes]
    BY DEF HeldScope, Frames

LEMMA ScopeParts ==
    ASSUME NEW e \in Scope
    PROVE  /\ e.count \in [Counter -> Nat] /\ e.frames \in Frames
           /\ e.classes \in Seq(Symbol)
           /\ e = [count |-> e.count, frames |-> e.frames, classes |-> e.classes]
    BY DEF Scope, Frames

LEMMA ExtendNothing ==
    ASSUME NEW e \in Scope, NEW y \in Symbol
    PROVE  Extend(e, NoScope, y) = e
  <1>1. AddCounts(e.count, NoScope.count) = e.count
    BY ScopeParts DEF AddCounts, NoScope
  <1>2. AddFrames(e.frames, NoScope.frames) = e.frames
    BY ScopeParts, NothingAdded DEF NoScope
  <1>3. AddClasses(Len(NoScope.classes), e.classes, y) = e.classes
    <2>1. Len(NoScope.classes) = 0
      BY DEF NoScope
    <2> QED BY <2>1, ScopeParts DEF AddClasses
  <1> QED BY <1>1, <1>2, <1>3, ScopeParts DEF Extend

CountChanged(c, k, d) == [c EXCEPT ![k] = c[k] + d]


LEMMA OpenedParts ==
    ASSUME NEW s, NEW c, NEW f, NEW l, NEW y, NEW k \in Kind,
           s = [count |-> c, frames |-> f, classes |-> l]
    PROVE  /\ k \in Counter =>
                Opened(s, k, y) = [count |-> CountChanged(c, k, 1), frames |-> f, classes |-> l]
           /\ k = "classdef" =>
                Opened(s, k, y) = [count |-> c, frames |-> f, classes |-> Append(l, y)]
           /\ k = "foreign" =>
                Opened(s, k, y) = [count |-> c, frames |-> Append(f, EmptyFrame), classes |-> l]
           /\ k \in Local =>
                Opened(s, k, y) = [count |-> c, frames |-> LastChanged(f, k, 1), classes |-> l]
  <1>1. k \in Counter => Opened(s, k, y) = [s EXCEPT !.count[k] = @ + 1]
    BY KindCases DEF Opened
  <1>2. k = "classdef" => Opened(s, k, y) = [s EXCEPT !.classes = Append(@, y)]
    BY KindCases DEF Opened
  <1>3. k = "foreign" => Opened(s, k, y) = [s EXCEPT !.frames = Append(@, EmptyFrame)]
    BY KindCases DEF Opened
  <1>4. k \in Local => Opened(s, k, y) = [s EXCEPT !.frames[Len(s.frames)][k] = @ + 1]
    BY KindCases DEF Opened
  <1>5. s.count = c /\ s.frames = f /\ s.classes = l
    OBVIOUS
  <1>6. [s EXCEPT !.count[k] = @ + 1] = [count |-> CountChanged(c, k, 1), frames |-> f, classes |-> l]
    BY DEF CountChanged
  <1>7. [s EXCEPT !.classes = Append(@, y)] = [count |-> c, frames |-> f, classes |-> Append(l, y)]
    OBVIOUS
  <1>8. [s EXCEPT !.frames = Append(@, EmptyFrame)] = [count |-> c, frames |-> Append(f, EmptyFrame), classes |-> l]
    OBVIOUS
  <1>9. [s EXCEPT !.frames[Len(s.frames)][k] = @ + 1] = [count |-> c, frames |-> LastChanged(f, k, 1), classes |-> l]
    BY DEF LastChanged
  <1> QED BY <1>1, <1>2, <1>3, <1>4, <1>6, <1>7, <1>8, <1>9

LEMMA ClosedParts ==
    ASSUME NEW s, NEW c, NEW f \in Frames, NEW l, NEW k \in Kind,
           k \in Counter => c[k] \in Nat,
           s = [count |-> c, frames |-> f, classes |-> l]
    PROVE  /\ k \in Counter =>
                Closed(s, k) = [count |-> CountChanged(c, k, -1), frames |-> f, classes |-> l]
           /\ k = "classdef" =>
                Closed(s, k) = [count |-> c, frames |-> f, classes |-> DropLast(l)]
           /\ k = "foreign" =>
                Closed(s, k) = [count |-> c, frames |-> DropLast(f), classes |-> l]
           /\ k \in Local =>
                Closed(s, k) = [count |-> c, frames |-> LastChanged(f, k, -1), classes |-> l]
  <1>1. k \in Counter => Closed(s, k) = [s EXCEPT !.count[k] = @ - 1]
    BY KindCases DEF Closed
  <1>2. k = "classdef" => Closed(s, k) = [s EXCEPT !.classes = DropLast(@)]
    BY KindCases DEF Closed
  <1>3. k = "foreign" => Closed(s, k) = [s EXCEPT !.frames = DropLast(@)]
    BY KindCases DEF Closed
  <1>4. k \in Local => Closed(s, k) = [s EXCEPT !.frames[Len(s.frames)][k] = @ - 1]
    BY KindCases DEF Closed
  <1>5. s.count = c /\ s.frames = f /\ s.classes = l
    OBVIOUS
  <1>6. k \in Counter => [s EXCEPT !.count[k] = @ - 1] = [count |-> CountChanged(c, k, -1), frames |-> f, classes |-> l]
    <2>1. k \in Counter => c[k] - 1 = c[k] + (-1)
      OBVIOUS
    <2>2. [s EXCEPT !.count[k] = @ - 1] = [count |-> [c EXCEPT ![k] = c[k] - 1], frames |-> f, classes |-> l]
      OBVIOUS
    <2> QED BY <2>1, <2>2 DEF CountChanged
  <1>7. [s EXCEPT !.classes = DropLast(@)] = [count |-> c, frames |-> f, classes |-> DropLast(l)]
    OBVIOUS
  <1>8. [s EXCEPT !.frames = DropLast(@)] = [count |-> c, frames |-> DropLast(f), classes |-> l]
    OBVIOUS
  <1>9. ASSUME k \in Local
        PROVE  [s EXCEPT !.frames[Len(s.frames)][k] = @ - 1] =
                 [count |-> c, frames |-> LastChanged(f, k, -1), classes |-> l]
    <2>1. f[Len(f)][k] - 1 = f[Len(f)][k] + (-1)
      BY <1>9 DEF Frames, Frame
    <2>2. [s EXCEPT !.frames[Len(s.frames)][k] = @ - 1] =
            [count |-> c, classes |-> l,
             frames |-> [f EXCEPT ![Len(f)] = [f[Len(f)] EXCEPT ![k] = f[Len(f)][k] - 1]]]
      OBVIOUS
    <2> QED BY <2>1, <2>2 DEF LastChanged
  <1> QED BY <1>1, <1>2, <1>3, <1>4, <1>6, <1>7, <1>8, <1>9

LEMMA ClosableParts ==
    ASSUME NEW s, NEW c, NEW f, NEW l, NEW y, NEW k \in Kind,
           s = [count |-> c, frames |-> f, classes |-> l]
    PROVE  /\ k \in Counter   => (Closable(s, k, y) <=> c[k] > 0)
           /\ k = "classdef"  => (Closable(s, k, y) <=> l # <<>> /\ l[Len(l)] = y)
           /\ k = "foreign"   => (Closable(s, k, y) <=> Len(f) > 1)
           /\ k \in Local     => (Closable(s, k, y) <=> f[Len(f)][k] > 0)
    BY KindCases DEF Closable

LEMMA ExtendParts ==
    ASSUME NEW e, NEW ec, NEW f, NEW el, e = [count |-> ec, frames |-> f, classes |-> el],
           NEW h, NEW hc, NEW g, NEW hl, h = [count |-> hc, frames |-> g, classes |-> hl],
           NEW y
    PROVE  Extend(e, h, y) = [count   |-> AddCounts(ec, hc),
                              frames  |-> AddFrames(f, g),
                              classes |-> AddClasses(Len(hl), el, y)]
  <1>1. e.count = ec /\ e.frames = f /\ e.classes = el
    OBVIOUS
  <1>2. h.count = hc /\ h.frames = g /\ h.classes = hl
    OBVIOUS
  <1> QED BY <1>1, <1>2 DEF Extend

LEMMA CountAdded ==
    ASSUME NEW c \in [Counter -> Nat], NEW h \in [Counter -> Nat], NEW k \in Counter,
           NEW d \in Int
    PROVE  CountChanged(AddCounts(c, h), k, d) = AddCounts(c, CountChanged(h, k, d))
  <1>1. PICK s : s = AddCounts(c, h)
    OBVIOUS
  <1>2. s = [x \in Counter |-> c[x] + h[x]]
    BY <1>1 DEF AddCounts
  <1>3. PICK i : i = [h EXCEPT ![k] = h[k] + d]
    OBVIOUS
  <1>4. \A x \in Counter : c[x] + i[x] = IF x = k THEN c[x] + h[x] + d ELSE c[x] + h[x]
    BY <1>3
  <1>5. [s EXCEPT ![k] = s[k] + d] = [x \in Counter |-> c[x] + i[x]]
    <2>1. [s EXCEPT ![k] = s[k] + d] = [x \in Counter |-> IF x = k THEN c[x] + h[x] + d ELSE c[x] + h[x]]
      BY <1>2
    <2> QED BY <2>1, <1>4
  <1> QED BY <1>1, <1>3, <1>5 DEF AddCounts, CountChanged

\* Opening a scope on top of what a function holds, as in the Visitor.
LEMMA ExtendOpened ==
    ASSUME NEW e \in Scope, NEW h \in HeldScope, NEW y \in Symbol, NEW k \in Kind,
           NEW me, me = "self"
    PROVE  Opened(Extend(e, h, y), k, y) = Extend(e, Opened(h, k, me), y)
  <1>0. PICK hc, g, hl : /\ h = [count |-> hc, frames |-> g, classes |-> hl]
                         /\ hc \in [Counter -> Nat] /\ g \in Frames /\ hl \in Seq({"self"})
    BY HeldParts
  <1>1. PICK ec, f, el : /\ e = [count |-> ec, frames |-> f, classes |-> el]
                         /\ ec \in [Counter -> Nat] /\ f \in Frames /\ el \in Seq(Symbol)
    BY ScopeParts
  <1>2. PICK c : c = AddCounts(ec, hc)
    OBVIOUS
  <1>3. PICK fs : fs = AddFrames(f, g)
    OBVIOUS
  <1>4. PICK l : l = AddClasses(Len(hl), el, y)
    OBVIOUS
  <1>5. PICK x : x = Extend(e, h, y)
    OBVIOUS
  <1>6. x = [count |-> c, frames |-> fs, classes |-> l]
    BY <1>0, <1>1, <1>2, <1>3, <1>4, <1>5, ExtendParts
  <1>7. PICK h1 : h1 = Opened(h, k, me)
    OBVIOUS
  <1>8. CASE k \in Counter
    <2>1. h1 = [count |-> CountChanged(hc, k, 1), frames |-> g, classes |-> hl]
      BY <1>0, <1>7, <1>8, OpenedParts
    <2>2. Opened(x, k, y) = [count |-> CountChanged(c, k, 1), frames |-> fs, classes |-> l]
      BY <1>6, <1>8, OpenedParts
    <2>3. CountChanged(c, k, 1) = AddCounts(ec, CountChanged(hc, k, 1))
      <3>1. ec \in [Counter -> Nat] /\ hc \in [Counter -> Nat] /\ 1 \in Int
        BY <1>0, <1>1
      <3>2. CountChanged(AddCounts(ec, hc), k, 1) = AddCounts(ec, CountChanged(hc, k, 1))
        BY <3>1, <1>8, CountAdded
      <3> QED BY <1>2, <3>2
    <2>4. PICK i : i = CountChanged(hc, k, 1)
      OBVIOUS
    <2>5. Extend(e, h1, y) = [count |-> AddCounts(ec, i), frames |-> fs, classes |-> l]
      <3>1. h1 = [count |-> i, frames |-> g, classes |-> hl]
        BY <2>1, <2>4
      <3> QED BY <1>1, <1>3, <1>4, <3>1, ExtendParts
    <2> QED BY <1>5, <1>7, <2>2, <2>3, <2>4, <2>5
  <1>9. CASE k = "classdef"
    <2>1. PICK n : n = Append(hl, me)
      OBVIOUS
    <2>2. h1 = [count |-> hc, frames |-> g, classes |-> n]
      <3>1. h = [count |-> hc, frames |-> g, classes |-> hl]
        BY <1>0
      <3>2. Opened(h, k, me) = [count |-> hc, frames |-> g, classes |-> Append(hl, me)]
        BY <3>1, <1>9, OpenedParts
      <3> QED BY <1>7, <2>1, <3>2
    <2>3. Opened(x, k, y) = [count |-> c, frames |-> fs, classes |-> Append(l, y)]
      BY <1>6, <1>9, OpenedParts
    <2>4. Len(hl) \in Nat /\ Len(n) = Len(hl) + 1
      BY <1>0, <2>1
    <2>5. Append(l, y) = AddClasses(Len(n), el, y)
      BY <1>1, <1>4, <2>4, ClassPushed
    <2>6. Extend(e, h1, y) = [count |-> c, frames |-> fs, classes |-> AddClasses(Len(n), el, y)]
      BY <1>1, <1>2, <1>3, <2>2, ExtendParts
    <2> QED BY <1>5, <1>7, <2>3, <2>5, <2>6
  <1>10. CASE k = "foreign"
    <2>1. PICK n : n = Append(g, EmptyFrame)
      OBVIOUS
    <2>2. h1 = [count |-> hc, frames |-> n, classes |-> hl]
      <3>1. h = [count |-> hc, frames |-> g, classes |-> hl]
        BY <1>0
      <3>2. Opened(h, k, me) = [count |-> hc, frames |-> Append(g, EmptyFrame), classes |-> hl]
        BY <3>1, <1>10, OpenedParts
      <3> QED BY <1>7, <2>1, <3>2
    <2>3. Opened(x, k, y) = [count |-> c, frames |-> Append(fs, EmptyFrame), classes |-> l]
      BY <1>6, <1>10, OpenedParts
    <2>4. Append(fs, EmptyFrame) = AddFrames(f, n)
      BY <1>0, <1>1, <1>3, <2>1, FramePushed
    <2>5. Extend(e, h1, y) = [count |-> c, frames |-> AddFrames(f, n), classes |-> l]
      BY <1>1, <1>2, <1>4, <2>2, ExtendParts
    <2> QED BY <1>5, <1>7, <2>3, <2>4, <2>5
  <1>11. CASE k \in Local
    <2>1. PICK n : n = LastChanged(g, k, 1)
      OBVIOUS
    <2>2. h1 = [count |-> hc, frames |-> n, classes |-> hl]
      BY <1>0, <1>7, <1>11, <2>1, OpenedParts
    <2>3. Opened(x, k, y) = [count |-> c, frames |-> LastChanged(fs, k, 1), classes |-> l]
      BY <1>6, <1>11, OpenedParts
    <2>4. g[Len(g)][k] + 1 \in Nat
      BY <1>0, <1>11 DEF Frames, Frame
    <2>5. LastChanged(fs, k, 1) = AddFrames(f, n)
      BY <1>0, <1>1, <1>3, <1>11, <2>1, <2>4, FrameUpdated
    <2>6. Extend(e, h1, y) = [count |-> c, frames |-> AddFrames(f, n), classes |-> l]
      BY <1>1, <1>2, <1>4, <2>2, ExtendParts
    <2> QED BY <1>5, <1>7, <2>3, <2>5, <2>6
  <1> QED BY <1>8, <1>9, <1>10, <1>11, KindCases

\* Closing a scope that a function holds, as in the Visitor.
LEMMA ExtendClosed ==
    ASSUME NEW e \in Scope, NEW h \in HeldScope, NEW y \in Symbol, NEW k \in Kind,
           NEW me, me = "self", Closable(h, k, me)
    PROVE  /\ Closable(Extend(e, h, y), k, y)
           /\ Closed(Extend(e, h, y), k) = Extend(e, Closed(h, k), y)
  <1>0. PICK hc, g, hl : /\ h = [count |-> hc, frames |-> g, classes |-> hl]
                         /\ hc \in [Counter -> Nat] /\ g \in Frames /\ hl \in Seq({"self"})
    BY HeldParts
  <1>1. PICK ec, f, el : /\ e = [count |-> ec, frames |-> f, classes |-> el]
                         /\ ec \in [Counter -> Nat] /\ f \in Frames /\ el \in Seq(Symbol)
    BY ScopeParts
  <1>2. PICK c : c = AddCounts(ec, hc)
    OBVIOUS
  <1>3. PICK fs : fs = AddFrames(f, g)
    OBVIOUS
  <1>4. PICK l : l = AddClasses(Len(hl), el, y)
    OBVIOUS
  <1>5. PICK x : x = Extend(e, h, y)
    OBVIOUS
  <1>6. x = [count |-> c, frames |-> fs, classes |-> l]
    BY <1>0, <1>1, <1>2, <1>3, <1>4, <1>5, ExtendParts
  <1>7. PICK h1 : h1 = Closed(h, k)
    OBVIOUS
  <1>8. h = [count |-> hc, frames |-> g, classes |-> hl]
    BY <1>0
  <1>9. fs \in Frames /\ g \in Frames
    BY <1>0, <1>1, <1>3, FramesAdded
  <1>10. CASE k \in Counter
    <2>1. hc[k] > 0 /\ hc[k] \in Nat /\ ec[k] \in Nat
      BY <1>0, <1>1, <1>8, <1>10, ClosableParts
    <2>2. c[k] = ec[k] + hc[k]
      BY <1>2, <1>10 DEF AddCounts
    <2>3. c[k] > 0 /\ c[k] \in Nat
      BY <2>1, <2>2
    <2>4. Closable(x, k, y)
      BY <1>6, <1>10, <2>3, ClosableParts
    <2>5. PICK i : i = CountChanged(hc, k, -1)
      OBVIOUS
    <2>6. h1 = [count |-> i, frames |-> g, classes |-> hl]
      <3>1. Closed(h, k) = [count |-> CountChanged(hc, k, -1), frames |-> g, classes |-> hl]
        BY <1>8, <1>9, <1>10, <2>1, ClosedParts
      <3> QED BY <1>7, <2>5, <3>1
    <2>7. Closed(x, k) = [count |-> CountChanged(c, k, -1), frames |-> fs, classes |-> l]
      BY <1>6, <1>9, <1>10, <2>3, ClosedParts
    <2>8. CountChanged(c, k, -1) = AddCounts(ec, i)
      <3>1. ec \in [Counter -> Nat] /\ hc \in [Counter -> Nat] /\ -1 \in Int
        BY <1>0, <1>1
      <3>2. CountChanged(AddCounts(ec, hc), k, -1) = AddCounts(ec, CountChanged(hc, k, -1))
        BY <3>1, <1>10, CountAdded
      <3> QED BY <1>2, <2>5, <3>2
    <2>9. Extend(e, h1, y) = [count |-> AddCounts(ec, i), frames |-> fs, classes |-> l]
      BY <1>1, <1>3, <1>4, <2>6, ExtendParts
    <2> QED BY <1>5, <1>7, <2>4, <2>7, <2>8, <2>9
  <1>11. CASE k = "classdef"
    <2>1. hl # <<>>
      BY <1>8, <1>11, ClosableParts
    <2>2. l # <<>> /\ l[Len(l)] = y /\ DropLast(l) = AddClasses(Len(hl) - 1, el, y)
      BY <1>0, <1>1, <1>4, <2>1, ClassPopped
    <2>3. Closable(x, k, y)
      BY <1>6, <1>11, <2>2, ClosableParts
    <2>4. PICK n : n = DropLast(hl)
      OBVIOUS
    <2>5. h1 = [count |-> hc, frames |-> g, classes |-> n]
      <3>1. Closed(h, k) = [count |-> hc, frames |-> g, classes |-> DropLast(hl)]
        BY <1>8, <1>9, <1>11, KindCases, ClosedParts
      <3> QED BY <1>7, <2>4, <3>1
    <2>6. Closed(x, k) = [count |-> c, frames |-> fs, classes |-> DropLast(l)]
      BY <1>6, <1>9, <1>11, KindCases, ClosedParts
    <2>7. Len(n) = Len(hl) - 1
      BY <1>0, <2>1, <2>4, LastDropped
    <2>8. Extend(e, h1, y) = [count |-> c, frames |-> fs, classes |-> AddClasses(Len(n), el, y)]
      BY <1>1, <1>2, <1>3, <2>5, ExtendParts
    <2> QED BY <1>5, <1>7, <2>2, <2>3, <2>6, <2>7, <2>8
  <1>12. CASE k = "foreign"
    <2>1. Len(g) > 1
      BY <1>8, <1>12, ClosableParts
    <2>2. Len(fs) > 1 /\ DropLast(fs) = AddFrames(f, DropLast(g))
      BY <1>0, <1>1, <1>3, <2>1, FramePopped
    <2>3. Closable(x, k, y)
      BY <1>6, <1>12, <2>2, ClosableParts
    <2>4. PICK n : n = DropLast(g)
      OBVIOUS
    <2>5. h1 = [count |-> hc, frames |-> n, classes |-> hl]
      <3>1. Closed(h, k) = [count |-> hc, frames |-> DropLast(g), classes |-> hl]
        BY <1>8, <1>9, <1>12, KindCases, ClosedParts
      <3> QED BY <1>7, <2>4, <3>1
    <2>6. Closed(x, k) = [count |-> c, frames |-> DropLast(fs), classes |-> l]
      BY <1>6, <1>9, <1>12, KindCases, ClosedParts
    <2>7. Extend(e, h1, y) = [count |-> c, frames |-> AddFrames(f, n), classes |-> l]
      BY <1>1, <1>2, <1>4, <2>5, ExtendParts
    <2> QED BY <1>5, <1>7, <2>2, <2>3, <2>4, <2>6, <2>7
  <1>13. CASE k \in Local
    <2>1. g[Len(g)][k] > 0 /\ g[Len(g)][k] \in Nat
      BY <1>0, <1>8, <1>13, ClosableParts DEF Frames, Frame
    <2>2. g[Len(g)][k] + (-1) \in Nat /\ -1 \in Int
      BY <2>1
    <2>3. /\ fs[Len(fs)][k] >= g[Len(g)][k]
          /\ LastChanged(fs, k, -1) = AddFrames(f, LastChanged(g, k, -1))
      BY <1>0, <1>1, <1>3, <1>13, <2>2, FrameUpdated
    <2>4. fs[Len(fs)][k] \in Nat
      BY <1>9, <1>13 DEF Frames, Frame
    <2>5. fs[Len(fs)][k] > 0
      BY <2>1, <2>3, <2>4
    <2>6. Closable(x, k, y)
      BY <1>6, <1>13, <2>5, ClosableParts
    <2>7. PICK n : n = LastChanged(g, k, -1)
      OBVIOUS
    <2>8. h1 = [count |-> hc, frames |-> n, classes |-> hl]
      <3>1. Closed(h, k) = [count |-> hc, frames |-> LastChanged(g, k, -1), classes |-> hl]
        BY <1>8, <1>9, <1>13, KindCases, ClosedParts
      <3> QED BY <1>7, <2>7, <3>1
    <2>9. Closed(x, k) = [count |-> c, frames |-> LastChanged(fs, k, -1), classes |-> l]
      BY <1>6, <1>9, <1>13, KindCases, ClosedParts
    <2>10. Extend(e, h1, y) = [count |-> c, frames |-> AddFrames(f, n), classes |-> l]
      BY <1>1, <1>2, <1>4, <2>8, ExtendParts
    <2> QED BY <1>5, <1>7, <2>3, <2>6, <2>7, <2>9, <2>10
  <1> QED BY <1>10, <1>11, <1>12, <1>13, KindCases

-----------------------------------------------------------------------------
(* The inductive invariant.  HeldIsExact is not inductive as it stands: a   *)
(* call that ends leaves its caller at the instruction of the call, which   *)
(* has to be one that holds the same scopes before and after; and the first *)
(* call of all has to have started from the scopes of the constructor.      *)

Balanced == \A r \in Routine : Disciplined(r)

\* Every active call is at one of its instructions, or past the last one.
Placed == \A n \in 1..Len(stack) : stack[n].pc \in 1..(Size(stack[n].routine) + 1)

\* The callers, and the call that an ended one returns to, are at a call.
Calling ==
    \A n \in 1..Len(stack) :
        (n < Len(stack) \/ ret # "none") =>
            /\ stack[n].pc \in 1..Size(stack[n].routine)
            /\ Code[stack[n].routine][stack[n].pc].op = "call"

FromRest == stack # <<>> => stack[1].entry = NoScope

Inv == /\ TypeOK /\ NeverCrashed /\ CleanAtRest /\ HeldIsExact
       /\ Placed /\ Calling /\ FromRest

\* What a step has to ensure: the invariant, and Restored if a call ends.
Kept == Inv' /\ (Len(stack') < Len(stack) => scope' = Top.entry)

LEMMA ActiveCall ==
    ASSUME Balanced, Inv, stack # <<>>
    PROVE  /\ Len(stack) \in Nat \ {0}
           /\ Top \in Activation
           /\ Size(Top.routine) \in Nat
           /\ Code[Top.routine] \in Seq(Instruction)
           /\ Held[Top.routine] \in [1..(Size(Top.routine) + 1) -> HeldScope]
           /\ Top.pc \in 1..(Size(Top.routine) + 1)
           /\ scope = Extend(Top.entry, Held[Top.routine][Top.pc], Top.sym)
  <1>1. stack \in Seq(Activation) /\ Len(stack) \in Nat \ {0}
    BY DEF Inv, TypeOK
  <1>2. PICK n : n = Len(stack)
    OBVIOUS
  <1>3. n \in 1..Len(stack) /\ Top = stack[n]
    BY <1>1, <1>2 DEF Top
  <1>4. Top \in Activation
    BY <1>1, <1>3
  <1>5. Top.routine \in Routine
    BY <1>4 DEF Activation
  <1>6. Code[Top.routine] \in Seq(Instruction) /\ Size(Top.routine) \in Nat
    BY <1>5, CodeAssumption DEF Size
  <1>7. Held[Top.routine] \in [1..(Size(Top.routine) + 1) -> HeldScope]
    BY <1>5 DEF Balanced, Disciplined
  <1>8. Top.pc \in 1..(Size(Top.routine) + 1)
    BY <1>3 DEF Inv, Placed
  <1>9. scope = Extend(Top.entry, Held[Top.routine][Top.pc], Top.sym)
    <2>1. Above(n) = Extend(stack[n].entry, Held[stack[n].routine][stack[n].pc], stack[n].sym)
      BY <1>3 DEF Inv, HeldIsExact
    <2>2. Above(n) = scope
      BY <1>2 DEF Above
    <2> QED BY <2>1, <2>2, <1>3
  <1> QED BY <1>1, <1>4, <1>6, <1>7, <1>8, <1>9

LEMMA AtInstruction ==
    ASSUME Balanced, Inv, stack # <<>>, Top.pc \in 1..Size(Top.routine)
    PROVE  /\ Current \in Instruction
           /\ Agrees(Held[Top.routine], Current, Top.pc)
  <1>1. Current \in Instruction
    BY ActiveCall DEF Current, Size
  <1>2. Top.routine \in Routine
    BY ActiveCall DEF Activation
  <1>3. Disciplined(Top.routine)
    BY <1>2 DEF Balanced
  <1> QED BY <1>1, <1>3 DEF Disciplined, Current

\* A step inside the innermost call.
LEMMA Moved ==
    ASSUME Balanced, Inv, stack # <<>>,
           NEW d \in Int, NEW errs \in BOOLEAN,
           Top.pc + d \in 1..(Size(Top.routine) + 1),
           scope' \in Scope,
           scope' = Extend(Top.entry, Held[Top.routine][Top.pc + d], Top.sym),
           Continue(d, errs), ret' = "none", crashed' = crashed
    PROVE  Kept
  <1>1. PICK a : a = Top
    OBVIOUS
  <1>2. PICK len : len = Len(stack)
    OBVIOUS
  <1>3. /\ len \in Nat \ {0} /\ a \in Activation /\ stack[len] = a
        /\ stack \in Seq(Activation) /\ Size(a.routine) \in Nat
    BY <1>1, <1>2, ActiveCall DEF Top, Inv, TypeOK
  <1>4. PICK b : b = [a EXCEPT !.pc = a.pc + d, !.errs = errs]
    OBVIOUS
  <1>5. /\ b \in Activation /\ b.pc = a.pc + d /\ b.routine = a.routine
        /\ b.entry = a.entry /\ b.sym = a.sym
    <2>1. a.pc + d \in Nat
      BY <1>1, <1>3
    <2> QED BY <1>3, <1>4, <2>1 DEF Activation
  <1>6. stack' = [stack EXCEPT ![len] = b]
    BY <1>1, <1>2, <1>3, <1>4 DEF Continue
  <1>7. /\ stack' \in Seq(Activation) /\ Len(stack') = len /\ stack'[len] = b
        /\ \A n \in 1..len : n # len => stack'[n] = stack[n]
    BY <1>2, <1>3, <1>5, <1>6
  <1>8. TypeOK' /\ NeverCrashed'
    BY <1>7 DEF Inv, TypeOK, NeverCrashed
  <1>9. CleanAtRest' /\ stack' # <<>>
    BY <1>3, <1>7 DEF CleanAtRest
  <1>10. HeldIsExact'
    <2> SUFFICES ASSUME NEW n \in 1..len
                 PROVE  Above(n)' = Extend(stack'[n].entry, Held[stack'[n].routine][stack'[n].pc],
                                           stack'[n].sym)
      BY <1>7 DEF HeldIsExact
    <2>1. CASE n = len
      BY <2>1, <1>1, <1>5, <1>7 DEF Above
    <2>2. CASE n # len
      <3>1. Above(n)' = stack'[n + 1].entry /\ Above(n) = stack[n + 1].entry
        BY <2>2, <1>2, <1>7 DEF Above
      <3>2. stack'[n + 1].entry = stack[n + 1].entry
        BY <2>2, <1>3, <1>5, <1>7
      <3>3. Above(n) = Extend(stack[n].entry, Held[stack[n].routine][stack[n].pc], stack[n].sym)
        BY <1>2 DEF Inv, HeldIsExact
      <3> QED BY <2>2, <3>1, <3>2, <3>3, <1>7
    <2> QED BY <2>1, <2>2
  <1>11. Placed'
    BY <1>1, <1>2, <1>5, <1>7 DEF Inv, Placed, Size
  <1>12. Calling'
    BY <1>2, <1>3, <1>7 DEF Inv, Calling, Size
  <1>13. FromRest'
    BY <1>2, <1>3, <1>5, <1>7 DEF Inv, FromRest
  <1> QED BY <1>2, <1>3, <1>7, <1>8, <1>9, <1>10, <1>11, <1>12, <1>13 DEF Kept, Inv

\* The end of the innermost call.
LEMMA Ended ==
    ASSUME Balanced, Inv, stack # <<>>,
           NEW o \in {"ok", "throw"}, EndCall(o),
           scope' = Top.entry, crashed' = crashed
    PROVE  Kept
  <1>1. PICK a : a = Top
    OBVIOUS
  <1>2. PICK len : len = Len(stack)
    OBVIOUS
  <1>3. /\ len \in Nat \ {0} /\ a \in Activation /\ stack[len] = a
        /\ stack \in Seq(Activation) /\ Size(a.routine) \in Nat
    BY <1>1, <1>2, ActiveCall DEF Top, Inv, TypeOK
  <1>4. /\ stack' \in Seq(Activation) /\ Len(stack') = len - 1
        /\ \A n \in 1..(len - 1) : stack'[n] = stack[n]
    BY <1>2, <1>3, LastDropped DEF EndCall
  <1>5. scope' = a.entry /\ ret' = o
    BY <1>1 DEF EndCall
  <1>6. a.entry \in Scope
    BY <1>3 DEF Activation
  <1>7. TypeOK' /\ NeverCrashed'
    BY <1>4, <1>5, <1>6 DEF Inv, TypeOK, NeverCrashed
  <1>8. CleanAtRest'
    <2> SUFFICES ASSUME stack' = <<>> PROVE scope' = NoScope
      BY DEF CleanAtRest
    <2>1. Len(stack') = 0
      OBVIOUS
    <2>2. len = 1
      BY <2>1, <1>3, <1>4
    <2> QED BY <2>2, <1>3, <1>5 DEF Inv, FromRest
  <1>9. HeldIsExact'
    <2> SUFFICES ASSUME NEW n \in 1..(len - 1)
                 PROVE  Above(n)' = Extend(stack'[n].entry, Held[stack'[n].routine][stack'[n].pc],
                                           stack'[n].sym)
      BY <1>4 DEF HeldIsExact
    <2>1. n \in 1..len /\ n # len /\ stack'[n] = stack[n]
      BY <1>3, <1>4
    <2>2. Above(n) = stack[n + 1].entry
      BY <2>1, <1>2 DEF Above
    <2>3. Above(n)' = stack[n + 1].entry
      <3>1. CASE n = len - 1
        BY <3>1, <1>3, <1>4, <1>5 DEF Above
      <3>2. CASE n # len - 1
        <4>1. n + 1 \in 1..(len - 1)
          BY <3>2, <1>3
        <4> QED BY <3>2, <4>1, <1>4 DEF Above
      <3> QED BY <3>1, <3>2
    <2>4. Above(n) = Extend(stack[n].entry, Held[stack[n].routine][stack[n].pc], stack[n].sym)
      BY <2>1, <1>2 DEF Inv, HeldIsExact
    <2> QED BY <2>1, <2>2, <2>3, <2>4
  <1>10. \A n \in 1..(len - 1) : n \in 1..Len(stack) /\ n < Len(stack)
    BY <1>2, <1>3
  <1>11. Placed'
    BY <1>4, <1>10 DEF Inv, Placed, Size
  <1>12. Calling'
    BY <1>4, <1>10 DEF Inv, Calling, Size
  <1>13. FromRest'
    <2> SUFFICES ASSUME stack' # <<>> PROVE stack'[1].entry = NoScope
      BY DEF FromRest
    <2>1. Len(stack') # 0
      BY <1>4
    <2>2. 1 \in 1..(len - 1)
      BY <2>1, <1>3, <1>4
    <2>3. stack # <<>> => stack[1].entry = NoScope
      BY DEF Inv, FromRest
    <2> QED BY <2>2, <2>3, <1>4
  <1> QED BY <1>1, <1>5, <1>7, <1>8, <1>9, <1>11, <1>12, <1>13 DEF Kept, Inv

\* The beginning of a call.
LEMMA Called ==
    ASSUME Balanced, Inv, ret = "none",
           stack # <<>> => Top.pc \in 1..Size(Top.routine) /\ Current.op = "call",
           NEW r \in Routine, NEW y \in Symbol, Call(r, y),
           scope' = scope, ret' = ret, crashed' = crashed
    PROVE  Kept
  <1>1. PICK a : a = [routine |-> r, sym |-> y, pc |-> 1, errs |-> FALSE, entry |-> scope]
    OBVIOUS
  <1>2. PICK len : len = Len(stack)
    OBVIOUS
  <1>3. len \in Nat /\ stack \in Seq(Activation) /\ scope \in Scope
    BY <1>2 DEF Inv, TypeOK
  <1>4. /\ a \in Activation /\ a.pc = 1 /\ a.entry = scope /\ a.routine = r /\ a.sym = y
    BY <1>1, <1>3 DEF Activation
  <1>5. /\ stack' \in Seq(Activation) /\ Len(stack') = len + 1 /\ stack'[len + 1] = a
        /\ \A n \in 1..len : stack'[n] = stack[n]
    BY <1>1, <1>2, <1>3, <1>4 DEF Call
  <1>6. stack' # <<>> /\ 1 \in 1..(len + 1)
    BY <1>3, <1>5
  <1>7. TypeOK' /\ NeverCrashed' /\ CleanAtRest'
    BY <1>5, <1>6 DEF Inv, TypeOK, NeverCrashed, CleanAtRest
  <1>8. HeldIsExact'
    <2> SUFFICES ASSUME NEW n \in 1..(len + 1)
                 PROVE  Above(n)' = Extend(stack'[n].entry, Held[stack'[n].routine][stack'[n].pc],
                                           stack'[n].sym)
      BY <1>5 DEF HeldIsExact
    <2>1. CASE n = len + 1
      <3>1. Held[r][1] = NoScope
        BY DEF Balanced, Disciplined
      <3>2. Extend(scope, NoScope, y) = scope
        BY <1>3, ExtendNothing
      <3> QED BY <2>1, <3>1, <3>2, <1>4, <1>5 DEF Above
    <2>2. CASE n # len + 1
      <3>1. n \in 1..len /\ n # len + 1
        BY <2>2, <1>3
      <3>2. Above(n)' = stack'[n + 1].entry
        BY <3>1, <1>5 DEF Above
      <3>3. Above(n) = Extend(stack[n].entry, Held[stack[n].routine][stack[n].pc], stack[n].sym)
        BY <3>1, <1>2 DEF Inv, HeldIsExact
      <3>4. stack'[n + 1].entry = Above(n)
        <4>1. CASE n = len
          BY <4>1, <1>2, <1>4, <1>5 DEF Above
        <4>2. CASE n # len
          <5>1. n + 1 \in 1..len
            BY <4>2, <3>1, <1>3
          <5> QED BY <4>2, <5>1, <1>2, <1>5 DEF Above
        <4> QED BY <4>1, <4>2
      <3> QED BY <3>1, <3>2, <3>3, <3>4, <1>5
    <2> QED BY <2>1, <2>2
  <1>9. Placed'
    <2>1. Size(r) \in Nat
      BY CodeAssumption DEF Size
    <2> SUFFICES ASSUME NEW n \in 1..(len + 1)
                 PROVE  stack'[n].pc \in 1..(Size(stack'[n].routine) + 1)
      BY <1>5 DEF Placed, Size
    <2>2. CASE n = len + 1
      BY <2>1, <2>2, <1>4, <1>5
    <2>3. CASE n # len + 1
      BY <2>3, <1>2, <1>3, <1>5 DEF Inv, Placed
    <2> QED BY <2>2, <2>3
  <1>10. Calling'
    <2> SUFFICES ASSUME NEW n \in 1..len
                 PROVE  /\ stack'[n].pc \in 1..Size(stack'[n].routine)
                        /\ Code[stack'[n].routine][stack'[n].pc].op = "call"
      BY <1>3, <1>5 DEF Calling, Size
    <2>1. CASE n = len
      <3>1. stack # <<>> /\ stack'[n] = Top
        BY <2>1, <1>2, <1>3, <1>5 DEF Top
      <3> QED BY <3>1 DEF Current
    <2>2. CASE n # len
      BY <2>2, <1>2, <1>3, <1>5 DEF Inv, Calling
    <2> QED BY <2>1, <2>2
  <1>11. FromRest'
    <2>1. CASE stack = <<>>
      BY <2>1, <1>2, <1>4, <1>5 DEF Inv, CleanAtRest, FromRest
    <2>2. CASE stack # <<>>
      <3>1. 1 \in 1..len
        BY <2>2, <1>2, <1>3
      <3> QED BY <2>2, <3>1, <1>5 DEF Inv, FromRest
    <2> QED BY <2>1, <2>2
  <1> QED BY <1>2, <1>3, <1>5, <1>7, <1>8, <1>9, <1>10, <1>11 DEF Kept, Inv

(* The three ways to leave an instruction, once it has changed the scopes   *)
(* as the text of the function says.                                        *)

Executed ==
    /\ scope' \in Scope
    /\ scope' = Extend(Top.entry, After(Held[Top.routine][Top.pc], Current), Top.sym)
    /\ crashed' = crashed

LEMMA Fell ==
    ASSUME Balanced, Inv, stack # <<>>, ret = "none",
           Top.pc \in 1..Size(Top.routine), Falls(Current), Executed, Fall
    PROVE  Kept
  <1>1. Held[Top.routine][Top.pc + 1] = After(Held[Top.routine][Top.pc], Current)
    BY AtInstruction DEF Agrees
  <1>2. Top.pc + 1 \in 1..(Size(Top.routine) + 1)
    BY ActiveCall
  <1>3. Top.errs \in BOOLEAN /\ 1 \in Int
    BY ActiveCall DEF Activation
  <1>4. ret' = "none" /\ Continue(1, Top.errs)
    BY DEF Fall
  <1> QED BY <1>1, <1>2, <1>3, <1>4, Moved DEF Executed

LEMMA Jumped ==
    ASSUME Balanced, Inv, stack # <<>>, ret = "none", Top.pc \in 1..Size(Top.routine),
           Current.op \notin {"enter", "quit", "quitblock"}, Executed, JumpTo
    PROVE  Kept
  <1>1. /\ Top.pc + Current.to \in 1..(Size(Top.routine) + 1)
        /\ Held[Top.routine][Top.pc + Current.to] = After(Held[Top.routine][Top.pc], Current)
    <2>1. CASE Current.to # 0
      <3>1. /\ Top.pc + Current.to \in DOMAIN Held[Top.routine]
            /\ Held[Top.routine][Top.pc + Current.to] = After(Held[Top.routine][Top.pc], Current)
        BY <2>1, AtInstruction DEF Agrees
      <3> QED BY <3>1, ActiveCall
    <2>2. CASE Current.to = 0
      <3>1. Top.pc + 0 = Top.pc /\ Top.pc \in 1..(Size(Top.routine) + 1)
        BY ActiveCall
      <3> QED BY <2>2, <3>1 DEF After
    <2> QED BY <2>1, <2>2
  <1>2. Top.errs \in BOOLEAN /\ Current.to \in Int
    BY ActiveCall, AtInstruction DEF Activation, Instruction
  <1>3. ret' = "none" /\ Continue(Current.to, Top.errs)
    BY DEF JumpTo
  <1> QED BY <1>1, <1>2, <1>3, Moved DEF Executed

LEMMA Left ==
    ASSUME Balanced, Inv, stack # <<>>,
           Top.pc \in 1..Size(Top.routine), Ends(Current), Executed,
           NEW o \in {"ok", "throw"}, EndCall(o)
    PROVE  Kept
  <1>1. After(Held[Top.routine][Top.pc], Current) = NoScope
    BY AtInstruction DEF Agrees
  <1>2. Extend(Top.entry, NoScope, Top.sym) = Top.entry
    BY ActiveCall, ExtendNothing DEF Activation
  <1>3. scope' = Top.entry
    BY <1>1, <1>2 DEF Executed
  <1> QED BY <1>3, Ended DEF Executed

LEMMA Threw ==
    ASSUME Balanced, Inv, stack # <<>>,
           Top.pc \in 1..Size(Top.routine), Current.op \in Throwing, Executed, Throw
    PROVE  Kept
  <1>1. CASE Current.to = 0
    <2>1. Ends(Current) /\ EndCall("throw")
      BY <1>1 DEF Ends, Throw
    <2> QED BY <2>1, Left
  <1>2. CASE Current.to # 0
    <2>1. /\ Top.pc + Current.to \in DOMAIN Held[Top.routine]
          /\ Held[Top.routine][Top.pc + Current.to] = After(Held[Top.routine][Top.pc], Current)
      BY <1>2, AtInstruction DEF Agrees
    <2>2. Top.pc + Current.to \in 1..(Size(Top.routine) + 1)
      BY <2>1, ActiveCall
    <2>3. Top.errs \/ Current.keep \in BOOLEAN
      BY ActiveCall, AtInstruction DEF Activation, Instruction
    <2>4. Current.to \in Int
      BY AtInstruction DEF Instruction
    <2>5. ret' = "none" /\ Continue(Current.to, Top.errs \/ Current.keep)
      BY <1>2 DEF Throw
    <2> QED BY <2>1, <2>2, <2>3, <2>4, <2>5, Moved DEF Executed
  <1> QED BY <1>1, <1>2

\* An instruction that neither enters nor quits a scope.
LEMMA Unmoved ==
    ASSUME Balanced, Inv, stack # <<>>, Current.op \notin {"enter", "quit", "quitblock"},
           scope' = scope, crashed' = crashed
    PROVE  Executed
  <1>1. After(Held[Top.routine][Top.pc], Current) = Held[Top.routine][Top.pc]
    BY DEF After
  <1>2. scope \in Scope
    BY DEF Inv, TypeOK
  <1> QED BY <1>1, <1>2, ActiveCall DEF Executed

LEMMA Entered ==
    ASSUME Balanced, Inv, stack # <<>>, Top.pc \in 1..Size(Top.routine),
           Current.op = "enter", scope' = Opened(scope, Current.kind, Top.sym),
           crashed' = crashed
    PROVE  Executed
  <1>1. PICK h : h = Held[Top.routine][Top.pc]
    OBVIOUS
  <1>2. PICK k : k = Current.kind
    OBVIOUS
  <1>3. PICK me : me = "self"
    OBVIOUS
  <1>4. h \in HeldScope /\ k \in Kind /\ Top.entry \in Scope /\ Top.sym \in Symbol
    BY <1>1, <1>2, ActiveCall, AtInstruction DEF Activation, Instruction
  <1>5. scope = Extend(Top.entry, h, Top.sym)
    BY <1>1, ActiveCall
  <1>6. Opened(Extend(Top.entry, h, Top.sym), k, Top.sym) = Extend(Top.entry, Opened(h, k, me), Top.sym)
    BY <1>3, <1>4, ExtendOpened
  <1>7. After(h, Current) = Opened(h, k, me)
    BY <1>2, <1>3 DEF After
  <1>8. scope \in Scope
    BY DEF Inv, TypeOK
  <1>9. Opened(scope, k, Top.sym) \in Scope
    BY <1>4, <1>8, OpenedType
  <1> QED BY <1>1, <1>2, <1>5, <1>6, <1>7, <1>9 DEF Executed

LEMMA QuitHeld ==
    ASSUME Balanced, Inv, stack # <<>>, Top.pc \in 1..Size(Top.routine),
           Current.op \in {"quit", "quitblock"}
    PROVE  /\ Closable(scope, Current.kind, Top.sym)
           /\ scope' = Closed(scope, Current.kind) /\ crashed' = crashed => Executed
  <1>1. PICK h : h = Held[Top.routine][Top.pc]
    OBVIOUS
  <1>2. PICK k : k = Current.kind
    OBVIOUS
  <1>3. PICK me : me = "self"
    OBVIOUS
  <1>4. h \in HeldScope /\ k \in Kind /\ Top.entry \in Scope /\ Top.sym \in Symbol
    BY <1>1, <1>2, ActiveCall, AtInstruction DEF Activation, Instruction
  <1>5. scope = Extend(Top.entry, h, Top.sym)
    BY <1>1, ActiveCall
  <1>6. Closable(h, k, me)
    BY <1>1, <1>2, <1>3, AtInstruction DEF Agrees
  <1>7. /\ Closable(Extend(Top.entry, h, Top.sym), k, Top.sym)
        /\ Closed(Extend(Top.entry, h, Top.sym), k) = Extend(Top.entry, Closed(h, k), Top.sym)
    BY <1>3, <1>4, <1>6, ExtendClosed
  <1>8. After(h, Current) = Closed(h, k)
    BY <1>2 DEF After
  <1>9. scope \in Scope
    BY DEF Inv, TypeOK
  <1>10. Closed(scope, k) \in Scope
    BY <1>4, <1>5, <1>7, <1>9, ClosedType
  <1> QED BY <1>1, <1>2, <1>5, <1>7, <1>8, <1>10 DEF Executed

-----------------------------------------------------------------------------
(* The steps.                                                               *)

LEMMA InitHolds == Init => Inv
  <1> SUFFICES ASSUME Init PROVE Inv
    OBVIOUS
  <1>1. Len(stack) = 0 /\ stack \in Seq(Activation)
    BY DEF Init
  <1>2. TypeOK
    BY <1>1, NoScopeType DEF Init, TypeOK
  <1> QED BY <1>1, <1>2 DEF Init, Inv, NeverCrashed, CleanAtRest, HeldIsExact,
                           Placed, Calling, FromRest

LEMMA RunningFacts ==
    ASSUME NEW op, At(op)
    PROVE  /\ stack # <<>> /\ ret = "none"
           /\ Top.pc \in 1..Size(Top.routine) /\ Current.op = op
    BY DEF At, Running, Ready

LEMMA StepKeeps ==
    ASSUME Balanced, Inv, Next
    PROVE  Kept
  <1>1. CASE Start
    <2>1. PICK r \in Routine, y \in Symbol : Call(r, y)
      BY <1>1 DEF Start
    <2> QED BY <1>1, <2>1, Called DEF Start
  <1>2. CASE Finish
    <2>1. /\ scope' = scope /\ stack' = stack /\ crashed' = crashed /\ ret' = "none"
          /\ Len(stack) = 0
      BY <1>2 DEF Finish
    <2>2. TypeOK' /\ NeverCrashed' /\ CleanAtRest' /\ FromRest'
      BY <2>1 DEF Inv, TypeOK, NeverCrashed, CleanAtRest, FromRest
    <2>3. HeldIsExact' /\ Placed' /\ Calling'
      BY <2>1 DEF HeldIsExact, Placed, Calling
    <2> QED BY <2>1, <2>2, <2>3 DEF Kept, Inv
  <1>3. CASE EnterScope
    <2>1. At("enter") /\ Fall
      BY <1>3 DEF EnterScope
    <2>2. Executed
      BY <1>3, <2>1, RunningFacts, Entered DEF EnterScope
    <2> QED BY <2>1, <2>2, RunningFacts, Fell DEF Falls
  <1>4. CASE QuitScope
    <2>1. At("quit")
      BY <1>4 DEF QuitScope
    <2>2. Closable(scope, Current.kind, Top.sym)
      BY <2>1, RunningFacts, QuitHeld
    <2>3. Executed /\ Fall
      BY <1>4, <2>1, <2>2, RunningFacts, QuitHeld DEF QuitScope
    <2> QED BY <2>1, <2>3, RunningFacts, Fell DEF Falls
  <1>5. CASE QuitBlockScope
    <2>1. At("quitblock")
      BY <1>5 DEF QuitBlockScope
    <2>2. Closable(scope, Current.kind, Top.sym)
      BY <2>1, RunningFacts, QuitHeld
    <2>3. Executed /\ (Fall \/ Throw)
      BY <1>5, <2>1, <2>2, RunningFacts, QuitHeld DEF QuitBlockScope
    <2>4. CASE Fall
      BY <2>1, <2>3, <2>4, RunningFacts, Fell DEF Falls
    <2>5. CASE Throw
      BY <2>1, <2>3, <2>5, RunningFacts, Threw DEF Throwing
    <2> QED BY <2>3, <2>4, <2>5
  <1>6. CASE CallRoutine
    <2>1. PICK r \in Routine, y \in Symbol : Call(r, y)
      BY <1>6 DEF CallRoutine
    <2>2. At("call") /\ scope' = scope /\ ret' = ret /\ crashed' = crashed
      BY <1>6 DEF CallRoutine
    <2> QED BY <2>1, <2>2, RunningFacts, Called
  <1>7. CASE CallRaises
    <2>1. At("call") /\ Throw /\ scope' = scope /\ crashed' = crashed
      BY <1>7 DEF CallRaises
    <2>2. Executed
      BY <2>1, RunningFacts, Unmoved
    <2> QED BY <2>1, <2>2, RunningFacts, Threw DEF Throwing
  <1>8. CASE CallsDone
    <2>1. At("call") /\ Fall /\ scope' = scope /\ crashed' = crashed
      BY <1>8 DEF CallsDone
    <2>2. Executed
      BY <2>1, RunningFacts, Unmoved
    <2> QED BY <2>1, <2>2, RunningFacts, Fell DEF Falls
  <1>9. CASE Resume
    <2>1. /\ scope' = scope /\ stack' = stack /\ crashed' = crashed /\ ret' = "none"
          /\ ret = "ok"
      BY <1>9 DEF Resume
    <2>2. TypeOK' /\ NeverCrashed' /\ CleanAtRest' /\ FromRest' /\ Placed'
      BY <2>1 DEF Inv, TypeOK, NeverCrashed, CleanAtRest, FromRest, Placed, Size
    <2>3. HeldIsExact'
      BY <2>1 DEF Inv, HeldIsExact, Above
    <2>4. Calling'
      BY <2>1 DEF Inv, Calling, Size
    <2>5. Len(stack) \in Nat
      BY DEF Inv, TypeOK
    <2> QED BY <2>1, <2>2, <2>3, <2>4, <2>5 DEF Kept, Inv
  <1>10. CASE Propagate
    <2>1. /\ stack # <<>> /\ ret = "throw" /\ Throw
          /\ scope' = scope /\ crashed' = crashed
      BY <1>10 DEF Propagate
    <2>2. Top.pc \in 1..Size(Top.routine) /\ Current.op = "call"
      <3>1. Len(stack) \in 1..Len(stack)
        BY <2>1, ActiveCall
      <3> QED BY <2>1, <3>1 DEF Inv, Calling, Top, Current
    <2>3. Executed
      BY <2>1, <2>2, Unmoved
    <2> QED BY <2>1, <2>2, <2>3, Threw DEF Throwing
  <1>11. CASE Choose
    <2>1. At("choose") /\ (Fall \/ JumpTo) /\ scope' = scope /\ crashed' = crashed
      BY <1>11 DEF Choose
    <2>2. Executed
      BY <2>1, RunningFacts, Unmoved
    <2> QED BY <2>1, <2>2, RunningFacts, Fell, Jumped DEF Falls
  <1>12. CASE Goto
    <2>1. At("goto") /\ JumpTo /\ scope' = scope /\ crashed' = crashed
      BY <1>12 DEF Goto
    <2>2. Executed
      BY <2>1, RunningFacts, Unmoved
    <2> QED BY <2>1, <2>2, RunningFacts, Jumped
  <1>13. CASE SkipOnErrors
    <2>1. At("unless") /\ (Fall \/ JumpTo) /\ scope' = scope /\ crashed' = crashed
      BY <1>13 DEF SkipOnErrors
    <2>2. Executed
      BY <2>1, RunningFacts, Unmoved
    <2> QED BY <2>1, <2>2, RunningFacts, Fell, Jumped DEF Falls
  <1>14. CASE TestLimit
    <2>1. At("limit") /\ (Throw \/ Fall) /\ scope' = scope /\ crashed' = crashed
      BY <1>14 DEF TestLimit
    <2>2. Executed
      BY <2>1, RunningFacts, Unmoved
    <2> QED BY <2>1, <2>2, RunningFacts, Fell, Threw DEF Falls, Throwing
  <1>15. CASE Rethrow
    <2>1. At("rethrow") /\ (Throw \/ Fall) /\ scope' = scope /\ crashed' = crashed
      BY <1>15 DEF Rethrow
    <2>2. Executed
      BY <2>1, RunningFacts, Unmoved
    <2> QED BY <2>1, <2>2, RunningFacts, Fell, Threw DEF Falls, Throwing
  <1>16. CASE Raise
    <2>1. At("raise") /\ Throw /\ scope' = scope /\ crashed' = crashed
      BY <1>16 DEF Raise
    <2>2. Executed
      BY <2>1, RunningFacts, Unmoved
    <2> QED BY <2>1, <2>2, RunningFacts, Threw DEF Throwing
  <1>17. CASE Return
    <2>1. EndCall("ok") /\ scope' = scope /\ crashed' = crashed
      BY <1>17 DEF Return
    <2>2. CASE At("return")
      <3>1. Executed
        BY <2>1, <2>2, RunningFacts, Unmoved
      <3> QED BY <2>1, <2>2, <3>1, RunningFacts, Left DEF Ends
    <2>3. CASE Ready /\ Top.pc = Size(Top.routine) + 1
      <3>1. stack # <<>>
        BY <2>3 DEF Ready
      <3>2. Top.entry \in Scope /\ Top.sym \in Symbol /\ Top.routine \in Routine
        BY <3>1, ActiveCall DEF Activation
      <3>3. Held[Top.routine][Top.pc] = NoScope
        BY <2>3, <3>2 DEF Balanced, Disciplined
      <3>4. scope' = Top.entry
        BY <2>1, <3>1, <3>2, <3>3, ActiveCall, ExtendNothing
      <3> QED BY <2>1, <3>1, <3>4, Ended
    <2> QED BY <1>17, <2>2, <2>3 DEF Return
  <1> QED BY <1>1, <1>2, <1>3, <1>4, <1>5, <1>6, <1>7, <1>8, <1>9, <1>10, <1>11,
             <1>12, <1>13, <1>14, <1>15, <1>16, <1>17 DEF Next

LEMMA StutterKeeps ==
    ASSUME Inv, UNCHANGED vars
    PROVE  Kept
  <1>1. scope' = scope /\ stack' = stack /\ ret' = ret /\ crashed' = crashed
    BY DEF vars
  <1>2. TypeOK' /\ NeverCrashed' /\ CleanAtRest' /\ FromRest'
    BY <1>1 DEF Inv, TypeOK, NeverCrashed, CleanAtRest, FromRest
  <1>3. HeldIsExact'
    BY <1>1 DEF Inv, HeldIsExact, Above
  <1>4. Placed' /\ Calling'
    BY <1>1 DEF Inv, Placed, Calling, Size
  <1>5. Len(stack) \in Nat
    BY DEF Inv, TypeOK
  <1> QED BY <1>1, <1>2, <1>3, <1>4, <1>5 DEF Kept, Inv

\* In every execution of functions that each keep their scopes balanced: the
\* scopes of the Visitor are always those of the pending calls, no quitBlock,
\* exitContext or exitClassDef halts, and at rest nothing is left entered.
THEOREM ScopesAreExact ==
    ASSUME Balanced
    PROVE  Spec => [](TypeOK /\ NeverCrashed /\ CleanAtRest /\ HeldIsExact)
  <1>1. Init => Inv
    BY InitHolds
  <1>2. Inv /\ [Next]_vars => Inv'
    BY StepKeeps, StutterKeeps DEF Kept
  <1>3. Inv => TypeOK /\ NeverCrashed /\ CleanAtRest /\ HeldIsExact
    BY DEF Inv
  <1> QED BY <1>1, <1>2, <1>3, PTL DEF Spec

\* However a call of such a function ends, by a return or by an error that
\* leaves it, it gives back the scopes that its caller had.
THEOREM ScopesAreRestored ==
    ASSUME Balanced
    PROVE  Spec => Restored
  <1>1. Init => Inv
    BY InitHolds
  <1>2. Inv /\ [Next]_vars => Inv'
    BY StepKeeps, StutterKeeps DEF Kept
  <1>3. Inv /\ [Next]_vars => [Len(stack') < Len(stack) => scope' = Top.entry]_vars
    BY StepKeeps DEF Kept
  <1> QED BY <1>1, <1>2, <1>3, PTL DEF Spec, Restored

-----------------------------------------------------------------------------
(* What a step does to the active calls. *)

Others(n) == \A m \in 1..n : stack'[m] = stack[m]

LEMMA Continued ==
    ASSUME Balanced, Inv, stack # <<>>, NEW d \in Int, NEW errs \in BOOLEAN, Continue(d, errs)
    PROVE  /\ Len(stack') = Len(stack) /\ Len(stack) \in Nat \ {0} /\ stack' # <<>>
           /\ Others(Len(stack) - 1)
           /\ Top'.routine = Top.routine /\ Top'.entry = Top.entry
           /\ Top'.pc = Top.pc + d /\ Top'.errs = errs
  <1>1. PICK a : a = Top
    OBVIOUS
  <1>2. PICK len : len = Len(stack)
    OBVIOUS
  <1>3. /\ len \in Nat \ {0} /\ a \in Activation /\ stack[len] = a
        /\ stack \in Seq(Activation)
    BY <1>1, <1>2, ActiveCall DEF Top, Inv, TypeOK
  <1>4. PICK b : b = [a EXCEPT !.pc = a.pc + d, !.errs = errs]
    OBVIOUS
  <1>5. /\ b.pc = a.pc + d /\ b.routine = a.routine /\ b.entry = a.entry /\ b.errs = errs
    BY <1>3, <1>4 DEF Activation
  <1>6. stack' = [stack EXCEPT ![len] = b]
    BY <1>1, <1>2, <1>3, <1>4 DEF Continue
  <1>7. /\ Len(stack') = len /\ stack'[len] = b /\ stack' # <<>>
        /\ \A n \in 1..(len - 1) : stack'[n] = stack[n]
    <2>1. PICK S : S = Activation \cup {b}
      OBVIOUS
    <2>2. stack \in Seq(S) /\ b \in S
      BY <1>3, <2>1
    <2> QED BY <1>2, <1>3, <1>6, <2>2
  <1>8. Top' = b
    BY <1>7 DEF Top
  <1> QED BY <1>1, <1>2, <1>3, <1>5, <1>7, <1>8 DEF Others

LEMMA EndedCalls ==
    ASSUME Balanced, Inv, stack # <<>>, NEW o, EndCall(o)
    PROVE  /\ Len(stack) \in Nat \ {0} /\ Len(stack') = Len(stack) - 1
           /\ Others(Len(stack) - 1)
  <1>1. stack \in Seq(Activation) /\ Len(stack) \in Nat \ {0}
    BY ActiveCall DEF Inv, TypeOK
  <1> QED BY <1>1, LastDropped DEF EndCall, Others

LEMMA CalledCalls ==
    ASSUME Inv, NEW r \in Routine, NEW y \in Symbol, Call(r, y)
    PROVE  /\ Len(stack) \in Nat /\ Len(stack') = Len(stack) + 1 /\ stack' # <<>>
           /\ Others(Len(stack))
           /\ Top'.routine = r /\ Top'.entry = scope /\ Top'.pc = 1 /\ Top'.errs = FALSE
  <1>1. PICK a : a = [routine |-> r, sym |-> y, pc |-> 1, errs |-> FALSE, entry |-> scope]
    OBVIOUS
  <1>2. stack \in Seq(Activation) /\ Len(stack) \in Nat /\ a \in Activation
    BY <1>1 DEF Inv, TypeOK, Activation
  <1>3. /\ Len(stack') = Len(stack) + 1 /\ stack'[Len(stack) + 1] = a /\ stack' # <<>>
        /\ \A n \in 1..Len(stack) : stack'[n] = stack[n]
    BY <1>1, <1>2 DEF Call
  <1>4. Top' = a
    BY <1>3 DEF Top
  <1> QED BY <1>1, <1>2, <1>3, <1>4 DEF Others

-----------------------------------------------------------------------------
(* The list errors.  A call that is at an instruction of Clean has put      *)
(* nothing in its list; it may be in a handler otherwise, and then it       *)
(* throws before it returns.                                                *)

Reporting == \A r \in Routine : Reports(r)

ErrsKnown == \A n \in 1..Len(stack) : stack[n].pc \in Clean[stack[n].routine] => ~stack[n].errs

\* What a step has to ensure: the invariant, and ErrorsReported if a call returns.
ErrsKept == ErrsKnown' /\ (Len(stack') < Len(stack) /\ ret' = "ok" => ~Top.errs)

LEMMA TopErrs ==
    ASSUME Balanced, Inv, ErrsKnown, stack # <<>>, Top.pc \in Clean[Top.routine]
    PROVE  ~Top.errs
  BY ActiveCall DEF ErrsKnown, Top

LEMMA ContinuedErrs ==
    ASSUME Balanced, Inv, ErrsKnown, stack # <<>>, NEW d \in Int, NEW errs \in BOOLEAN,
           Continue(d, errs), Top.pc + d \in Clean[Top.routine] => ~errs
    PROVE  ErrsKept
  <1>1. /\ Len(stack') = Len(stack) /\ Len(stack) \in Nat \ {0}
        /\ Others(Len(stack) - 1)
        /\ Top'.routine = Top.routine /\ Top'.pc = Top.pc + d /\ Top'.errs = errs
    BY Continued
  <1>2. ASSUME NEW n \in 1..Len(stack'), stack'[n].pc \in Clean[stack'[n].routine]
        PROVE  ~stack'[n].errs
    <2>1. CASE n = Len(stack')
      BY <1>1, <1>2, <2>1 DEF Top
    <2>2. CASE n # Len(stack')
      <3>1. n \in 1..(Len(stack) - 1)
        BY <1>1, <2>2
      <3> QED BY <1>2, <3>1, <1>1 DEF ErrsKnown, Others
    <2> QED BY <2>1, <2>2
  <1> QED BY <1>1, <1>2 DEF ErrsKept, ErrsKnown

LEMMA EndedErrs ==
    ASSUME Balanced, Inv, ErrsKnown, stack # <<>>, NEW o, EndCall(o), o = "ok" => ~Top.errs
    PROVE  ErrsKept
  <1>1. /\ Len(stack) \in Nat \ {0} /\ Len(stack') = Len(stack) - 1
        /\ Others(Len(stack) - 1) /\ ret' = o
    BY EndedCalls DEF EndCall
  <1> QED BY <1>1 DEF ErrsKept, ErrsKnown, Others

LEMMA CalledErrs ==
    ASSUME Inv, ErrsKnown, NEW r \in Routine, NEW y \in Symbol, Call(r, y)
    PROVE  ErrsKept
  <1>1. /\ Len(stack) \in Nat /\ Len(stack') = Len(stack) + 1 /\ Others(Len(stack))
        /\ Top'.errs = FALSE
    BY CalledCalls
  <1>2. ASSUME NEW n \in 1..Len(stack'), stack'[n].pc \in Clean[stack'[n].routine]
        PROVE  ~stack'[n].errs
    <2>1. CASE n = Len(stack')
      BY <1>1, <2>1 DEF Top
    <2>2. CASE n # Len(stack')
      <3>1. n \in 1..Len(stack)
        BY <1>1, <2>2
      <3> QED BY <1>2, <3>1, <1>1 DEF ErrsKnown, Others
    <2> QED BY <2>1, <2>2
  <1> QED BY <1>1, <1>2 DEF ErrsKept, ErrsKnown

\* What is read off the instruction of the innermost call.
LEMMA ReportsHere ==
    ASSUME Balanced, Reporting, Inv, stack # <<>>, Top.pc \in 1..Size(Top.routine)
    PROVE  /\ Current.op = "return" => Top.pc \in Clean[Top.routine]
           /\ Falls(Current) /\ Top.pc + 1 \in Clean[Top.routine] =>
                 Top.pc \in Clean[Top.routine] \/ Current.op \in {"unless", "rethrow"}
           /\ Current.to # 0 /\ Top.pc + Current.to \in Clean[Top.routine] =>
                 Top.pc \in Clean[Top.routine] /\ ~Current.keep
           /\ Current.to \in Int /\ Current.keep \in BOOLEAN /\ Top.errs \in BOOLEAN
  <1>1. Top.routine \in Routine /\ Top.errs \in BOOLEAN
    BY ActiveCall DEF Activation
  <1>2. Current.to \in Int /\ Current.keep \in BOOLEAN
    BY AtInstruction DEF Instruction
  <1> QED BY <1>1, <1>2 DEF Reporting, Reports, KeepsClean, Current

LEMMA FellErrs ==
    ASSUME Balanced, Reporting, Inv, ErrsKnown, stack # <<>>, Top.pc \in 1..Size(Top.routine),
           Falls(Current), Fall, Current.op \in {"unless", "rethrow"} => ~Top.errs
    PROVE  ErrsKept
  <1>1. Top.pc + 1 \in Clean[Top.routine] => ~Top.errs
    BY ReportsHere, TopErrs
  <1> QED BY <1>1, ReportsHere, ContinuedErrs DEF Fall

LEMMA JumpedErrs ==
    ASSUME Balanced, Reporting, Inv, ErrsKnown, stack # <<>>, Top.pc \in 1..Size(Top.routine),
           JumpTo
    PROVE  ErrsKept
  <1>1. Current.to = 0 => Top.pc + Current.to = Top.pc
    BY ActiveCall DEF Activation
  <1>2. Top.pc + Current.to \in Clean[Top.routine] => ~Top.errs
    BY <1>1, ReportsHere, TopErrs
  <1> QED BY <1>2, ReportsHere, ContinuedErrs DEF JumpTo

LEMMA ThrewErrs ==
    ASSUME Balanced, Reporting, Inv, ErrsKnown, stack # <<>>, Top.pc \in 1..Size(Top.routine),
           Throw
    PROVE  ErrsKept
  <1>1. CASE Current.to = 0
    BY <1>1, EndedErrs DEF Throw
  <1>2. CASE Current.to # 0
    <2>1. Continue(Current.to, Top.errs \/ Current.keep)
      BY <1>2 DEF Throw
    <2>2. Top.pc + Current.to \in Clean[Top.routine] => ~(Top.errs \/ Current.keep)
      BY <1>2, ReportsHere, TopErrs
    <2>3. (Top.errs \/ Current.keep) \in BOOLEAN /\ Current.to \in Int
      BY ReportsHere
    <2> QED BY <2>1, <2>2, <2>3, ContinuedErrs
  <1> QED BY <1>1, <1>2

LEMMA StepReports ==
    ASSUME Balanced, Reporting, Inv, ErrsKnown, Next
    PROVE  ErrsKept
  <1>1. CASE Start \/ CallRoutine
    BY <1>1, CalledErrs DEF Start, CallRoutine
  <1>2. CASE Finish \/ Resume
    BY <1>2 DEF Finish, Resume, ErrsKept, ErrsKnown, Inv, TypeOK
  <1>3. CASE QuitScope /\ stack' = stack
    BY <1>3 DEF ErrsKept, ErrsKnown, Inv, TypeOK
  <1>4. CASE QuitBlockScope /\ stack' = stack
    BY <1>4 DEF ErrsKept, ErrsKnown, Inv, TypeOK
  <1>5. CASE EnterScope \/ (QuitScope /\ Fall) \/ CallsDone
    BY <1>5, RunningFacts, FellErrs DEF EnterScope, QuitScope, CallsDone, Falls
  <1>6. CASE QuitBlockScope /\ (Fall \/ Throw)
    BY <1>6, RunningFacts, FellErrs, ThrewErrs DEF QuitBlockScope, Falls
  <1>7. CASE CallRaises \/ Raise
    BY <1>7, RunningFacts, ThrewErrs DEF CallRaises, Raise
  <1>8. CASE Propagate
    <2>1. stack # <<>> /\ ret = "throw" /\ Throw
      BY <1>8 DEF Propagate
    <2>2. Top.pc \in 1..Size(Top.routine)
      BY <2>1, ActiveCall DEF Inv, Calling, Top
    <2> QED BY <2>1, <2>2, ThrewErrs
  <1>9. CASE Choose \/ Goto
    BY <1>9, RunningFacts, FellErrs, JumpedErrs DEF Choose, Goto, Falls
  <1>10. CASE SkipOnErrors
    BY <1>10, RunningFacts, FellErrs, JumpedErrs DEF SkipOnErrors, Falls
  <1>11. CASE TestLimit
    BY <1>11, RunningFacts, FellErrs, ThrewErrs DEF TestLimit, Falls
  <1>12. CASE Rethrow
    BY <1>12, RunningFacts, FellErrs, ThrewErrs DEF Rethrow, Falls
  <1>13. CASE Return
    <2>1. stack # <<>> /\ EndCall("ok")
      BY <1>13, RunningFacts DEF Return, Ready
    <2>2. Top.pc \in Clean[Top.routine]
      <3>1. CASE At("return")
        BY <3>1, RunningFacts, ReportsHere
      <3>2. CASE Top.pc = Size(Top.routine) + 1
        <4>1. Top.routine \in Routine
          BY <2>1, ActiveCall DEF Activation
        <4> QED BY <3>2, <4>1 DEF Reporting, Reports
      <3> QED BY <1>13, <3>1, <3>2 DEF Return
    <2> QED BY <2>1, <2>2, TopErrs, EndedErrs
  <1>14. QuitScope => stack' = stack \/ Fall
    BY DEF QuitScope, Crash
  <1>15. QuitBlockScope => stack' = stack \/ Fall \/ Throw
    BY DEF QuitBlockScope, Crash
  <1> QED BY <1>1, <1>2, <1>3, <1>4, <1>5, <1>6, <1>7, <1>8, <1>9, <1>10, <1>11,
             <1>12, <1>13, <1>14, <1>15 DEF Next

\* A call of functions that each throw the errors they caught never returns to its
\* caller with some of them.
THEOREM ErrorsAreThrown ==
    ASSUME Balanced, Reporting
    PROVE  Spec => ErrorsReported
  <1>1. Init => Inv /\ ErrsKnown
    <2>1. Init => ErrsKnown
      BY DEF Init, ErrsKnown
    <2> QED BY <2>1, InitHolds
  <1>2. Inv /\ ErrsKnown /\ [Next]_vars => Inv' /\ ErrsKnown'
    <2>1. UNCHANGED vars /\ ErrsKnown => ErrsKnown'
      BY DEF vars, ErrsKnown
    <2> QED BY <2>1, StepKeeps, StutterKeeps, StepReports DEF Kept, ErrsKept
  <1>3. Inv /\ ErrsKnown /\ [Next]_vars =>
           [(Len(stack') < Len(stack) /\ ret' = "ok") => ~Top.errs]_vars
    BY StepReports DEF ErrsKept
  <1> QED BY <1>1, <1>2, <1>3, PTL DEF Spec, ErrorsReported

-----------------------------------------------------------------------------
(* The levels of templates.  A function that holds none has as many as its  *)
(* caller had, which was below Limit when it called; one that holds some    *)
(* calls only after it compared their number with Limit.                    *)

Testing == \A r \in Routine : TestsLevel(r)

Levels(s) == s.count["template"]

LevelKnown ==
    /\ \A n \in 1..Len(stack) : Levels(stack[n].entry) < Limit
    /\ stack # <<>> /\ Top.pc \in Tested[Top.routine] => Levels(scope) < Limit

LEMMA LevelsAreNat == ASSUME NEW s \in Scope PROVE Levels(s) \in Nat
  BY DEF Levels, Scope, Counter

LEMMA BelowHolds ==
    ASSUME Balanced, Inv, LevelKnown, stack # <<>>, Below(Held[Top.routine], Tested[Top.routine], Top.pc)
    PROVE  Levels(scope) < Limit
  <1>1. CASE Top.pc \in Tested[Top.routine]
    BY <1>1 DEF LevelKnown
  <1>2. CASE Held[Top.routine][Top.pc].count["template"] = 0
    <2>1. /\ Top.entry \in Scope /\ Top = stack[Len(stack)] /\ Len(stack) \in 1..Len(stack)
          /\ scope = Extend(Top.entry, Held[Top.routine][Top.pc], Top.sym)
      BY ActiveCall DEF Activation, Top
    <2>2. "template" \in Counter
      BY DEF Counter
    <2>3. scope.count = AddCounts(Top.entry.count, Held[Top.routine][Top.pc].count)
      BY <2>1 DEF Extend
    <2>4. Levels(scope) = Levels(Top.entry) + 0
      BY <1>2, <2>2, <2>3 DEF AddCounts, Levels
    <2>5. Levels(Top.entry) \in Nat /\ Levels(Top.entry) < Limit
      BY <2>1, LevelsAreNat DEF LevelKnown
    <2> QED BY <2>4, <2>5
  <1> QED BY <1>1, <1>2 DEF Below

LEMMA CallsAreBelow ==
    ASSUME Balanced, Testing, Inv, LevelKnown, At("call")
    PROVE  Levels(scope) < Limit
  <1>1. stack # <<>> /\ Top.pc \in 1..Size(Top.routine) /\ Current.op = "call"
    BY RunningFacts
  <1>2. Top.routine \in Routine
    BY <1>1, ActiveCall DEF Activation
  <1>3. Below(Held[Top.routine], Tested[Top.routine], Top.pc)
    BY <1>1, <1>2 DEF Testing, TestsLevel, KeepsTested, Current
  <1> QED BY <1>1, <1>3, BelowHolds

LEMMA ContinuedLevel ==
    ASSUME Balanced, Inv, LevelKnown, stack # <<>>, NEW d \in Int, NEW errs \in BOOLEAN,
           Continue(d, errs), Top.pc + d \in Tested[Top.routine] => Levels(scope') < Limit
    PROVE  LevelKnown'
  <1>1. /\ Len(stack') = Len(stack) /\ Len(stack) \in Nat \ {0}
        /\ Others(Len(stack) - 1)
        /\ Top'.routine = Top.routine /\ Top'.pc = Top.pc + d /\ Top'.entry = Top.entry
    BY Continued
  <1>2. ASSUME NEW n \in 1..Len(stack') PROVE Levels(stack'[n].entry) < Limit
    <2>1. CASE n = Len(stack')
      BY <1>1, <2>1 DEF Top, LevelKnown
    <2>2. CASE n # Len(stack')
      <3>1. n \in 1..(Len(stack) - 1)
        BY <1>1, <2>2
      <3> QED BY <3>1, <1>1 DEF LevelKnown, Others
    <2> QED BY <2>1, <2>2
  <1> QED BY <1>1, <1>2 DEF LevelKnown, Levels

LEMMA EndedLevel ==
    ASSUME Balanced, Inv, LevelKnown, stack # <<>>, NEW o, EndCall(o), scope' = Top.entry
    PROVE  LevelKnown'
  <1>1. /\ Len(stack) \in Nat \ {0} /\ Len(stack') = Len(stack) - 1
        /\ Others(Len(stack) - 1)
    BY EndedCalls
  <1>2. Levels(scope') < Limit
    BY <1>1 DEF LevelKnown, Top
  <1>3. \A n \in 1..Len(stack') : Levels(stack'[n].entry) < Limit
    BY <1>1 DEF LevelKnown, Others
  <1> QED BY <1>2, <1>3 DEF LevelKnown, Levels

LEMMA CalledLevel ==
    ASSUME Inv, LevelKnown, NEW r \in Routine, NEW y \in Symbol, Call(r, y),
           scope' = scope, Levels(scope) < Limit
    PROVE  LevelKnown'
  <1>1. /\ Len(stack) \in Nat /\ Len(stack') = Len(stack) + 1 /\ Others(Len(stack))
        /\ Top'.entry = scope
    BY CalledCalls
  <1>2. ASSUME NEW n \in 1..Len(stack') PROVE Levels(stack'[n].entry) < Limit
    <2>1. CASE n = Len(stack')
      BY <1>1, <2>1 DEF Top
    <2>2. CASE n # Len(stack')
      <3>1. n \in 1..Len(stack)
        BY <1>1, <2>2
      <3> QED BY <3>1, <1>1 DEF LevelKnown, Others
    <2> QED BY <2>1, <2>2
  <1> QED BY <1>2 DEF LevelKnown, Levels

\* What is read off the instruction of the innermost call.
LEMMA TestsHere ==
    ASSUME Balanced, Testing, Inv, stack # <<>>, Top.pc \in 1..Size(Top.routine)
    PROVE  /\ Falls(Current) /\ Top.pc + 1 \in Tested[Top.routine] =>
                 \/ Current.op = "limit"
                 \/ /\ Below(Held[Top.routine], Tested[Top.routine], Top.pc)
                    /\ ~(Current.op = "enter" /\ Current.kind = "template")
           /\ Current.to # 0 /\ Top.pc + Current.to \in Tested[Top.routine] =>
                 Below(Held[Top.routine], Tested[Top.routine], Top.pc)
           /\ Current.to \in Int /\ Current.keep \in BOOLEAN /\ Top.errs \in BOOLEAN
           /\ Current.kind \in Kind
  <1>1. Top.routine \in Routine /\ Top.errs \in BOOLEAN
    BY ActiveCall DEF Activation
  <1>2. Current.to \in Int /\ Current.keep \in BOOLEAN /\ Current.kind \in Kind
    BY AtInstruction DEF Instruction
  <1> QED BY <1>1, <1>2 DEF Testing, TestsLevel, KeepsTested, Current

\* The only instruction that adds a level.
LEMMA LevelOpened ==
    ASSUME NEW s \in Scope, NEW k \in Kind, k # "template", NEW y
    PROVE  Levels(Opened(s, k, y)) = Levels(s)
  <1>1. CASE k \in Counter
    <2>1. Opened(s, k, y).count = [s.count EXCEPT ![k] = @ + 1]
      <3>1. Opened(s, k, y) = [s EXCEPT !.count = [s.count EXCEPT ![k] = @ + 1]]
        BY <1>1, KindCases DEF Opened, Scope
      <3> QED BY <3>1 DEF Scope
    <2>2. s.count \in [Counter -> Nat] /\ "template" \in Counter
      BY DEF Scope, Counter
    <2> QED BY <2>1, <2>2 DEF Levels
  <1>2. CASE k \notin Counter
    <2>1. Opened(s, k, y).count = s.count
      BY <1>2, KindCases DEF Opened, Scope
    <2> QED BY <2>1 DEF Levels
  <1> QED BY <1>1, <1>2

LEMMA LevelClosed ==
    ASSUME NEW s \in Scope, NEW k \in Kind
    PROVE  Levels(Closed(s, k)) <= Levels(s)
  <1>1. CASE k \in Counter
    <2>1. Closed(s, k).count = [s.count EXCEPT ![k] = @ - 1]
      <3>1. Closed(s, k) = [s EXCEPT !.count = [s.count EXCEPT ![k] = @ - 1]]
        BY <1>1, KindCases DEF Closed, Scope
      <3> QED BY <3>1 DEF Scope
    <2>2. s.count \in [Counter -> Nat] /\ "template" \in Counter
      BY DEF Scope, Counter
    <2> QED BY <2>1, <2>2 DEF Levels
  <1>2. CASE k \notin Counter
    <2>1. Closed(s, k).count = s.count
      BY <1>2, KindCases DEF Closed, Scope
    <2> QED BY <2>1, LevelsAreNat DEF Levels
  <1> QED BY <1>1, <1>2

\* A step that adds no level.
NoMore == Levels(scope') \in Int /\ Levels(scope') <= Levels(scope)

LEMMA FellLevel ==
    ASSUME Balanced, Testing, Inv, LevelKnown, stack # <<>>, Top.pc \in 1..Size(Top.routine),
           Falls(Current), Fall,
           ~(Current.op = "enter" /\ Current.kind = "template") => NoMore,
           Current.op = "limit" => Levels(scope) < Limit
    PROVE  LevelKnown'
  <1>1. Levels(scope) \in Nat /\ Limit \in Nat
    BY LevelsAreNat, LimitAssumption DEF Inv, TypeOK
  <1>2. Top.pc + 1 \in Tested[Top.routine] => NoMore /\ Levels(scope) < Limit
    BY TestsHere, BelowHolds
  <1>3. Top.pc + 1 \in Tested[Top.routine] => Levels(scope') < Limit
    BY <1>1, <1>2 DEF NoMore
  <1> QED BY <1>3, TestsHere, ContinuedLevel DEF Fall

LEMMA JumpedLevel ==
    ASSUME Balanced, Testing, Inv, LevelKnown, stack # <<>>, Top.pc \in 1..Size(Top.routine),
           JumpTo, scope' = scope
    PROVE  LevelKnown'
  <1>1. Current.to = 0 => Top.pc + Current.to = Top.pc
    BY ActiveCall DEF Activation
  <1>2. Top.pc + Current.to \in Tested[Top.routine] => Levels(scope') < Limit
    <2>1. CASE Current.to = 0
      BY <1>1, <2>1 DEF LevelKnown
    <2>2. CASE Current.to # 0
      BY <2>2, TestsHere, BelowHolds
    <2> QED BY <2>1, <2>2
  <1> QED BY <1>2, TestsHere, ContinuedLevel DEF JumpTo

LEMMA ThrewLevel ==
    ASSUME Balanced, Testing, Inv, LevelKnown, stack # <<>>, Top.pc \in 1..Size(Top.routine),
           Throw, NoMore, Kept
    PROVE  LevelKnown'
  <1>1. CASE Current.to = 0
    <2>1. EndCall("throw")
      BY <1>1 DEF Throw
    <2>2. scope' = Top.entry
      BY <2>1, EndedCalls DEF Kept
    <2> QED BY <2>1, <2>2, EndedLevel
  <1>2. CASE Current.to # 0
    <2>1. Continue(Current.to, Top.errs \/ Current.keep)
      BY <1>2 DEF Throw
    <2>2. Levels(scope) \in Nat /\ Limit \in Nat
      BY LevelsAreNat, LimitAssumption DEF Inv, TypeOK
    <2>3. Top.pc + Current.to \in Tested[Top.routine] => Levels(scope) < Limit
      BY <1>2, TestsHere, BelowHolds
    <2>4. Top.pc + Current.to \in Tested[Top.routine] => Levels(scope') < Limit
      BY <2>2, <2>3 DEF NoMore
    <2>5. (Top.errs \/ Current.keep) \in BOOLEAN /\ Current.to \in Int
      BY TestsHere
    <2> QED BY <2>1, <2>4, <2>5, ContinuedLevel
  <1> QED BY <1>1, <1>2

LEMMA StepTests ==
    ASSUME Balanced, Testing, Inv, LevelKnown, Next
    PROVE  LevelKnown'
  <1>a. Kept /\ scope \in Scope /\ NeverCrashed'
    BY StepKeeps DEF Inv, TypeOK, Kept
  <1>b. scope' = scope => NoMore
    BY <1>a, LevelsAreNat DEF NoMore, Levels
  <1>c. scope' \in Scope
    BY <1>a DEF Kept, Inv, TypeOK
  <1>d. ASSUME At("quit") \/ At("quitblock"), scope' = Closed(scope, Current.kind)
        PROVE  NoMore
    <2>1. Current.kind \in Kind
      BY <1>d, RunningFacts, TestsHere
    <2> QED BY <2>1, <1>a, <1>c, <1>d, LevelsAreNat, LevelClosed DEF NoMore, Levels
  <1>1. CASE Start
    <2>1. stack = <<>> /\ scope' = scope /\ \E r \in Routine, y \in Symbol : Call(r, y)
      BY <1>1 DEF Start
    <2>2. Levels(scope) = 0
      BY <2>1 DEF Inv, CleanAtRest, NoScope, Levels, Counter
    <2>3. Levels(scope) < Limit
      BY <2>2, LimitAssumption
    <2> QED BY <2>1, <2>3, CalledLevel
  <1>2. CASE CallRoutine
    BY <1>2, CallsAreBelow, CalledLevel DEF CallRoutine
  <1>3. CASE Finish \/ Resume
    <2>1. UNCHANGED <<scope, stack>>
      BY <1>3 DEF Finish, Resume
    <2> QED BY <2>1 DEF LevelKnown, Levels, Top
  <1>4. CASE EnterScope
    <2>1. At("enter") /\ Fall /\ scope' = Opened(scope, Current.kind, Top.sym)
      BY <1>4 DEF EnterScope
    <2>2. Current.kind # "template" => NoMore
      <3>1. Current.kind \in Kind
        BY <2>1, RunningFacts, TestsHere
      <3> QED BY <3>1, <2>1, <1>a, <1>c, LevelsAreNat, LevelOpened DEF NoMore, Levels
    <2> QED BY <2>1, <2>2, RunningFacts, FellLevel DEF Falls
  <1>5. CASE QuitScope
    <2>1. At("quit") /\ scope' = Closed(scope, Current.kind) /\ Fall
      BY <1>5, <1>a DEF QuitScope, Crash, NeverCrashed
    <2> QED BY <2>1, <1>d, RunningFacts, FellLevel DEF Falls
  <1>6. CASE QuitBlockScope
    <2>1. At("quitblock") /\ scope' = Closed(scope, Current.kind) /\ (Fall \/ Throw)
      BY <1>6, <1>a DEF QuitBlockScope, Crash, NeverCrashed
    <2> QED BY <2>1, <1>a, <1>d, RunningFacts, FellLevel, ThrewLevel DEF Falls
  <1>7. CASE CallRaises \/ Raise
    BY <1>7, <1>a, <1>b, RunningFacts, ThrewLevel DEF CallRaises, Raise
  <1>8. CASE Propagate
    <2>1. stack # <<>> /\ ret = "throw" /\ Throw /\ scope' = scope
      BY <1>8 DEF Propagate
    <2>2. Top.pc \in 1..Size(Top.routine)
      BY <2>1, ActiveCall DEF Inv, Calling, Top
    <2> QED BY <2>1, <2>2, <1>a, <1>b, ThrewLevel
  <1>9. CASE CallsDone
    BY <1>9, <1>b, RunningFacts, FellLevel DEF CallsDone, Falls
  <1>10. CASE Choose \/ Goto
    BY <1>10, <1>b, RunningFacts, FellLevel, JumpedLevel DEF Choose, Goto, Falls
  <1>11. CASE SkipOnErrors
    BY <1>11, <1>b, RunningFacts, FellLevel, JumpedLevel DEF SkipOnErrors, Falls
  <1>12. CASE TestLimit
    <2>1. At("limit") /\ scope' = scope
      BY <1>12 DEF TestLimit
    <2>2. CASE Levels(scope) >= Limit
      <3>1. Throw
        BY <1>12, <2>2 DEF TestLimit, Levels
      <3> QED BY <2>1, <3>1, <1>a, <1>b, RunningFacts, ThrewLevel
    <2>3. CASE ~(Levels(scope) >= Limit)
      <3>1. Fall
        BY <1>12, <2>3 DEF TestLimit, Levels
      <3>2. Levels(scope) < Limit
        BY <2>3, <1>a, LevelsAreNat, LimitAssumption
      <3> QED BY <2>1, <3>1, <3>2, <1>b, RunningFacts, FellLevel DEF Falls
    <2> QED BY <2>2, <2>3
  <1>13. CASE Rethrow
    BY <1>13, <1>a, <1>b, RunningFacts, FellLevel, ThrewLevel DEF Rethrow, Falls
  <1>14. CASE Return
    <2>1. stack # <<>> /\ EndCall("ok")
      BY <1>14, RunningFacts DEF Return, Ready
    <2>2. scope' = Top.entry
      BY <2>1, <1>a, EndedCalls DEF Kept
    <2> QED BY <2>1, <2>2, EndedLevel
  <1> QED BY <1>1, <1>2, <1>3, <1>4, <1>5, <1>6, <1>7, <1>8, <1>9, <1>10, <1>11,
             <1>12, <1>13, <1>14 DEF Next

\* In every execution of functions that each keep their scopes balanced, throw the
\* errors they caught and compare a template level with its limit before they call:
\* no quit halts, and no function is called with Limit levels or more.
THEOREM ScopesStaySafe ==
    ASSUME Balanced, Reporting, Testing
    PROVE  Spec => []ScopesAreSafe
  <1>1. Init => Inv /\ LevelKnown
    <2>1. Init => LevelKnown
      BY DEF Init, LevelKnown
    <2> QED BY <2>1, InitHolds
  <1>2. Inv /\ LevelKnown /\ [Next]_vars => Inv' /\ LevelKnown'
    <2>1. UNCHANGED vars /\ LevelKnown => LevelKnown'
      BY DEF vars, LevelKnown, Levels, Top
    <2> QED BY <2>1, StepKeeps, StutterKeeps, StepTests DEF Kept
  <1>3. Inv /\ LevelKnown => ScopesAreSafe
    <2> SUFFICES ASSUME Inv, LevelKnown PROVE ScopesAreSafe
      OBVIOUS
    <2>1. RecursionBounded
      BY CallsAreBelow DEF RecursionBounded, Levels
    <2>2. CodeIsDisciplined
      <3> SUFFICES ASSUME stack # <<>>
                   PROVE  Disciplined(Top.routine) /\ Reports(Top.routine) /\ TestsLevel(Top.routine)
        BY DEF CodeIsDisciplined
      <3>1. Top.routine \in Routine
        BY ActiveCall DEF Activation
      <3> QED BY <3>1 DEF Balanced, Reporting, Testing
    <2> QED BY <2>1, <2>2 DEF Inv, ScopesAreSafe
  <1> QED BY <1>1, <1>2, <1>3, PTL DEF Spec
=============================================================================

--------------------------- MODULE Userdata_proofs ---------------------------
(***************************************************************************)
(* Proofs about the user data of images, for any number of images and      *)
(* nodes: the types for a client that keeps no rule; for one that keeps    *)
(* all of them, that the lists stay whole, that no freed memory is used,   *)
(* what blt_image_get_userdata returns, and the refinement of Attachments. *)
(***************************************************************************)
EXTENDS Userdata, SequenceTheorems, TLAPS

Calls == [img : Images, node : Pointer]

-----------------------------------------------------------------------------
(* Sequences.                                                              *)

\* What Append, a change of the last node, and dropping the last call make of calls.
LEMMA CallAdded ==
    ASSUME NEW s \in Seq(Calls), NEW c \in Calls
    PROVE  /\ Append(s, c) \in Seq(Calls)
           /\ Len(Append(s, c)) = Len(s) + 1
           /\ Append(s, c)[Len(s) + 1] = c
           /\ \A n \in 1 .. Len(s) : Append(s, c)[n] = s[n]
  OBVIOUS

LEMMA NodeChanged ==
    ASSUME NEW s \in Seq(Calls), s # <<>>, NEW p \in Pointer
    PROVE  LET t == [s EXCEPT ![Len(s)].node = p]
           IN  /\ t \in Seq(Calls)
               /\ Len(t) = Len(s)
               /\ \A n \in 1 .. Len(s) : t[n].img = s[n].img
  <1> DEFINE c == [s[Len(s)] EXCEPT !.node = p]
             t == [s EXCEPT ![Len(s)] = c]
  <1>1. Len(s) \in 1 .. Len(s)
    BY EmptySeq
  <1>2. s[Len(s)] \in Calls
    BY <1>1, ElementOfSeq
  <1>3. c \in Calls /\ c.img = s[Len(s)].img
    BY <1>2 DEF Calls
  <1> HIDE DEF c
  <1>4. t \in Seq(Calls) /\ Len(t) = Len(s)
        /\ \A j \in 1 .. Len(s) : t[j] = IF j = Len(s) THEN c ELSE s[j]
    BY <1>1, <1>3, ExceptSeq
  <1>5. \A n \in 1 .. Len(s) : t[n].img = s[n].img
    BY <1>3, <1>4
  <1>6. t = [s EXCEPT ![Len(s)].node = p]
    BY DEF c
  <1> QED
    BY <1>4, <1>5, <1>6

LEMMA CallDropped ==
    ASSUME NEW s \in Seq(Calls), s # <<>>
    PROVE  LET t == SubSeq(s, 1, Len(s) - 1)
           IN  /\ t \in Seq(Calls)
               /\ Len(t) = Len(s) - 1
               /\ \A n \in 1 .. Len(s) - 1 : t[n] = s[n]
  <1>1. Len(s) \in Nat \ {0}
    BY EmptySeq
  <1>2. \A n \in 1 .. Len(s) - 1 : s[n] \in Calls
    BY <1>1, ElementOfSeq
  <1> DEFINE l == Len(s) - 1
             t == SubSeq(s, 1, l)
  <1>3. l \in Int /\ 1 \in Int /\ \A n \in 1 .. l : s[n] \in Calls
    BY <1>1, <1>2
  <1> HIDE DEF l
  <1>4. /\ t \in Seq(Calls)
        /\ Len(t) = IF 1 <= l THEN l - 1 + 1 ELSE 0
        /\ \A i \in 1 .. l - 1 + 1 : t[i] = s[1 + i - 1]
    BY <1>3, SubSeqProperties
  <1> HIDE DEF t
  <1>5. l \in Nat
    BY <1>1 DEF l
  <1>6. Len(t) = l
    BY <1>4, <1>5
  <1>7. ASSUME NEW i \in 1 .. l PROVE t[i] = s[i]
    <2>1. i \in 1 .. l - 1 + 1 /\ 1 + i - 1 = i
      BY <1>5
    <2> QED
      BY <1>4, <2>1
  <1> QED
    BY <1>4, <1>6, <1>7 DEF l, t

LEMMA InFront ==
    ASSUME NEW s \in Seq(Nodes), NEW d \in Nodes
    PROVE  /\ <<d>> \o s \in Seq(Nodes)
           /\ Len(<<d>> \o s) = Len(s) + 1
           /\ (<<d>> \o s)[1] = d
           /\ \A k \in 1 .. Len(s) : (<<d>> \o s)[k + 1] = s[k]
  <1>1. <<d>> \in Seq(Nodes) /\ Len(<<d>>) = 1 /\ <<d>>[1] = d
    OBVIOUS
  <1>2. Len(s) \in Nat
    BY LenProperties
  <1> QED
    BY <1>1, <1>2, ConcatProperties

-----------------------------------------------------------------------------
(* Types.                                                                  *)

LEMMA TypeOKInit == Init => TypeOK
  <1> SUFFICES ASSUME Init PROVE TypeOK
    OBVIOUS
  <1>1. destroy \in [Nodes -> Callbacks]
    BY DEF Init
  <1>2. attached \in [Images -> Seq(Nodes)]
    BY EmptySeq DEF Init
  <1>3. calls \in Seq(Calls)
    BY EmptySeq DEF Init
  <1> QED
    BY <1>1, <1>2, <1>3 DEF Init, TypeOK, Pointer, NoLook, Calls

LEMMA Tails == ASSUME NEW s \in Seq(Nodes) PROVE (IF s = <<>> THEN s ELSE Tail(s)) \in Seq(Nodes)
  BY HeadTailProperties

LEMMA LooksAt == TypeOK /\ Looking => look \in [img : Images, want : Callbacks, at : Pointer]
  BY DEF TypeOK, Looking

LEMMA TopIsImage == TypeOK /\ calls # <<>> => Top \in Images /\ Len(calls) \in 1 .. Len(calls)
  <1> SUFFICES ASSUME TypeOK, calls # <<>> PROVE Top \in Images /\ Len(calls) \in 1 .. Len(calls)
    OBVIOUS
  <1>1. calls \in Seq(Calls)
    BY DEF TypeOK, Calls
  <1>2. Len(calls) \in 1 .. Len(calls)
    BY <1>1, EmptySeq
  <1>3. calls[Len(calls)] \in Calls
    BY <1>1, <1>2, ElementOfSeq
  <1> QED
    BY <1>2, <1>3 DEF Top, Calls

LEMMA TypeOKStep == TypeOK /\ [Next]_vars => TypeOK'
  <1> SUFFICES ASSUME TypeOK, [Next]_vars PROVE TypeOK'
    OBVIOUS
  <1> USE DEF Calls
  <1>1. ASSUME NEW i \in Images, MakeImage(i) PROVE TypeOK'
    <2>1. attached' \in [Images -> Seq(Nodes)]
      BY <1>1, EmptySeq DEF TypeOK, MakeImage
    <2> QED
      BY <1>1, <2>1 DEF TypeOK, MakeImage, Pointer
  <1>2. ASSUME NEW i \in Images, NEW d \in Nodes, NEW c \in Callbacks, BltImageAddUserdata(i, d, c)
        PROVE  TypeOK'
    <2>1. <<d>> \o attached[i] \in Seq(Nodes)
      BY InFront DEF TypeOK
    <2>2. attached' \in [Images -> Seq(Nodes)]
      BY <1>2, <2>1 DEF TypeOK, BltImageAddUserdata
    <2> QED
      BY <1>2, <2>2 DEF TypeOK, BltImageAddUserdata, Pointer
  <1>3. ASSUME NEW d \in Nodes, Free(d) PROVE TypeOK'
    BY <1>3 DEF TypeOK, Free, Pointer
  <1>4. ASSUME NEW i \in Images, BltImageDestroy(i) PROVE TypeOK'
    <2>1. [img |-> i, node |-> Null] \in Calls
      BY DEF Pointer
    <2>2. calls' \in Seq(Calls)
      BY <1>4, <2>1, CallAdded DEF TypeOK, BltImageDestroy
    <2> QED
      BY <1>4, <2>2 DEF TypeOK, BltImageDestroy, memory
  <1>5. CASE Unlink
    <2>1. Top \in Images /\ data[Top] \in Nodes
      BY <1>5, TopIsImage DEF TypeOK, Unlink, LoopRuns, Pointer
    <2>2. data' \in [Images -> Pointer]
      BY <1>5, <2>1 DEF TypeOK, Unlink
    <2>3. calls' \in Seq(Calls)
      BY <1>5, <2>1, NodeChanged DEF TypeOK, Unlink, LoopRuns, Pointer
    <2>4. attached' \in [Images -> Seq(Nodes)]
      BY <1>5, <2>1, Tails DEF TypeOK, Unlink
    <2>5. misuse' \in BOOLEAN
      BY <1>5 DEF TypeOK, Unlink, Uses
    <2> QED
      BY <1>5, <2>2, <2>3, <2>4, <2>5 DEF TypeOK, Unlink
  <1>6. CASE CallbackReturns
    <2>1. calls' \in Seq(Calls)
      BY <1>6, NodeChanged DEF TypeOK, CallbackReturns, Pointer
    <2> QED
      BY <1>6, <2>1 DEF TypeOK, CallbackReturns, memory
  <1>7. CASE ImplDestroy
    <2>1. calls' \in Seq(Calls)
      BY <1>7, CallDropped DEF TypeOK, ImplDestroy, LoopRuns
    <2>2. misuse' \in BOOLEAN
      BY <1>7 DEF TypeOK, ImplDestroy, Uses
    <2> QED
      BY <1>7, <2>1, <2>2 DEF TypeOK, ImplDestroy, memory
  <1>8. ASSUME NEW i \in Images, NEW c \in Callbacks, BltImageGetUserdata(i, c) PROVE TypeOK'
    BY <1>8 DEF TypeOK, BltImageGetUserdata, memory
  <1>9. CASE LookOn
    <2>1. look \in [img : Images, want : Callbacks, at : Pointer] /\ look.at \in Nodes
      BY <1>9, LooksAt DEF LookOn, Pointer
    <2>2. look' \in [img : Images, want : Callbacks, at : Pointer]
      BY <1>9, <2>1 DEF LookOn, TypeOK
    <2>3. misuse' \in BOOLEAN
      BY <1>9 DEF TypeOK, LookOn, Uses
    <2> QED
      BY <1>9, <2>2, <2>3 DEF TypeOK, LookOn, memory
  <1>10. CASE LookReturns
    BY <1>10 DEF TypeOK, LookReturns, Uses, memory
  <1>11. CASE UNCHANGED vars
    BY <1>11 DEF TypeOK, vars, memory
  <1> QED
    BY <1>1, <1>2, <1>3, <1>4, <1>5, <1>6, <1>7, <1>8, <1>9, <1>10, <1>11
    DEF Next, Adds, Library

\* The pointers are pointers to nodes, and the calls are calls about images,
\* whatever the client does (image.c).
THEOREM UserdataTypeOK == Spec => []TypeOK
  <1>1. Init => TypeOK
    BY TypeOKInit
  <1>2. TypeOK /\ [Next]_vars => TypeOK'
    BY TypeOKStep
  <1> QED
    BY <1>1, <1>2, PTL DEF Spec

-----------------------------------------------------------------------------
(* The lists, for a client that keeps the rules.                           *)

\* The images being destroyed are there, each once.
Nested ==
    /\ \A n \in DOMAIN calls : calls[n].img \in made
    /\ \A m, n \in DOMAIN calls : calls[m].img = calls[n].img => m = n

\* What a walk has passed was not what it looks for.
OnTheWay ==
    Looking => /\ look.img \in made
               /\ \E k \in 1 .. Len(attached[look.img]) + 1 :
                      /\ look.at = At(look.img, k)
                      /\ \A l \in 1 .. k - 1 : destroy[attached[look.img][l]] # look.want

IInv == TypeOK /\ Linked /\ NoMisuse /\ Nested /\ OnTheWay

\* The nodes on a list, and the first of them.
LEMMA ListNodes ==
    ASSUME TypeOK, NEW i \in Images
    PROVE  /\ DOMAIN attached[i] = 1 .. Len(attached[i])
           /\ Len(attached[i]) \in Nat
           /\ \A k \in DOMAIN attached[i] : attached[i][k] \in Nodes /\ attached[i][k] \in Attached
           /\ At(i, 1) = Null <=> attached[i] = <<>>
           /\ At(i, 1) # Null => /\ 1 \in DOMAIN attached[i]
                                 /\ At(i, 1) = attached[i][1]
                                 /\ At(i, 1) = Head(attached[i])
  <1>1. attached[i] \in Seq(Nodes)
    BY DEF TypeOK
  <1>2. DOMAIN attached[i] = 1 .. Len(attached[i]) /\ Len(attached[i]) \in Nat
    BY <1>1, LenProperties
  <1>3. \A k \in DOMAIN attached[i] : attached[i][k] \in Nodes
    BY <1>1, <1>2, ElementOfSeq
  <1>4. \A k \in DOMAIN attached[i] : attached[i][k] \in Attached
    BY DEF Attached
  <1>5. attached[i] = <<>> <=> Len(attached[i]) = 0
    BY <1>1, EmptySeq
  <1>6. 1 \in DOMAIN attached[i] <=> attached[i] # <<>>
    BY <1>2, <1>5
  <1>7. attached[i] # <<>> => Head(attached[i]) = attached[i][1]
    BY <1>1
  <1> QED
    BY <1>2, <1>3, <1>4, <1>6, <1>7, NullAssumption DEF At

\* The loop has control: the first node is what data points at.
LEMMA LoopHead ==
    ASSUME TypeOK, Linked, Nested, LoopRuns
    PROVE  /\ Top \in made /\ Top \in Images
           /\ Len(calls) \in 1 .. Len(calls) /\ calls \in Seq(Calls) /\ calls # <<>>
           /\ data[Top] = At(Top, 1)
           /\ data[Top] = Null <=> attached[Top] = <<>>
           /\ data[Top] # Null => /\ data[Top] = attached[Top][1]
                                  /\ data[Top] = Head(attached[Top])
                                  /\ 1 \in DOMAIN attached[Top]
                                  /\ data[Top] \in live
                                  /\ next[data[Top]] = At(Top, 2)
  <1>1. Top \in Images /\ Len(calls) \in 1 .. Len(calls) /\ calls # <<>>
    BY TopIsImage DEF LoopRuns
  <1>2. calls \in Seq(Calls)
    BY DEF TypeOK, Calls
  <1>3. Top \in made
    BY <1>1, <1>2, LenProperties DEF Nested, Top
  <1>4. data[Top] = At(Top, 1)
    BY <1>3 DEF Linked
  <1>5. 1 \in DOMAIN attached[Top] =>
            next[attached[Top][1]] = At(Top, 2) /\ attached[Top][1] \in live
    BY <1>1 DEF Linked
  <1> QED
    BY <1>1, <1>2, <1>3, <1>4, <1>5, ListNodes

LEMMA IInvInit == Init => IInv
  <1> SUFFICES ASSUME Init PROVE IInv
    OBVIOUS
  <1>1. TypeOK
    BY TypeOKInit
  <1>2. Linked
    <2>1. \A i \in Images : DOMAIN attached[i] = {}
      BY DEF Init
    <2> QED
      BY <2>1 DEF Init, Linked
  <1>3. DOMAIN calls = {} /\ ~Looking /\ NoMisuse
    BY DEF Init, Looking, NoMisuse
  <1> QED
    BY <1>1, <1>2, <1>3 DEF IInv, Nested, OnTheWay

\* A step that leaves the lists alone.
LEMMA LinkedKept ==
    ASSUME Linked, UNCHANGED <<data, next, attached, live>>, made' \subseteq made
    PROVE  Linked'
  BY DEF Linked, At

LEMMA MakeImageKeeps ==
    ASSUME IInv, NEW i \in Images, MakeImage(i)
    PROVE  Linked' /\ Nested' /\ NoMisuse' /\ OnTheWay'
  <1> USE DEF IInv
  <1>1. attached' = [attached EXCEPT ![i] = <<>>] /\ attached'[i] = <<>> /\ DOMAIN attached'[i] = {}
    BY DEF MakeImage, TypeOK
  <1>2. \A j \in Images : j # i => attached'[j] = attached[j] /\ data'[j] = data[j]
    BY DEF MakeImage, TypeOK
  <1>3. data'[i] = Null
    BY DEF MakeImage, TypeOK
  <1>4. Linked'
    <2>1. \A j \in made' : data'[j] = At(j, 1)'
      BY <1>1, <1>2, <1>3 DEF MakeImage, Linked, At, TypeOK
    <2>2. \A j \in Images : \A k \in DOMAIN attached'[j] :
              next'[attached'[j][k]] = At(j, k + 1)' /\ attached'[j][k] \in live'
      BY <1>1, <1>2 DEF MakeImage, Linked, At
    <2>3. \A j, h \in Images : \A k \in DOMAIN attached'[j], l \in DOMAIN attached'[h] :
              attached'[j][k] = attached'[h][l] => j = h /\ k = l
      BY <1>1, <1>2 DEF MakeImage, Linked
    <2> QED
      BY <2>1, <2>2, <2>3 DEF Linked
  <1>5. Nested'
    BY DEF MakeImage, Nested
  <1> QED
    BY <1>4, <1>5 DEF MakeImage, NoMisuse, OnTheWay, Looking, ClientRuns

LEMMA AddKeeps ==
    ASSUME IInv, AllRules \subseteq Rules,
           NEW i \in Images, NEW d \in Nodes, NEW c \in Callbacks, BltImageAddUserdata(i, d, c)
    PROVE  Linked' /\ Nested' /\ NoMisuse' /\ OnTheWay'
  <1> USE DEF IInv
  <1>1. d \notin Attached /\ i \in made
    BY DEF BltImageAddUserdata, AllRules
  <1>2. /\ DOMAIN attached'[i] = 1 .. Len(attached[i]) + 1
        /\ attached'[i][1] = d
        /\ \A k \in 1 .. Len(attached[i]) : attached'[i][k + 1] = attached[i][k]
    <2>1. attached[i] \in Seq(Nodes) /\ attached'[i] = <<d>> \o attached[i]
      BY DEF TypeOK, BltImageAddUserdata
    <2>2. DOMAIN (<<d>> \o attached[i]) = 1 .. Len(<<d>> \o attached[i])
      BY <2>1, InFront, LenProperties
    <2> QED
      BY <2>1, <2>2, InFront
  <1>3. \A j \in Images : j # i => attached'[j] = attached[j] /\ data'[j] = data[j]
    BY DEF BltImageAddUserdata, TypeOK
  <1>4. data'[i] = d /\ next'[d] = data[i] /\ live' = live \cup {d}
    BY DEF BltImageAddUserdata, TypeOK
  <1>5. \A e \in Nodes : e # d => next'[e] = next[e]
    BY DEF BltImageAddUserdata, TypeOK
  <1>6. \A j \in Images : \A k \in DOMAIN attached[j] : attached[j][k] \in Nodes /\ attached[j][k] # d
    BY <1>1, ListNodes
  <1>7. DOMAIN attached[i] = 1 .. Len(attached[i]) /\ Len(attached[i]) \in Nat
    BY ListNodes
  <1>8. ASSUME NEW k \in DOMAIN attached'[i], k # 1
        PROVE  k - 1 \in DOMAIN attached[i] /\ attached'[i][k] = attached[i][k - 1]
    <2>1. k - 1 \in 1 .. Len(attached[i]) /\ (k - 1) + 1 = k
      BY <1>2, <1>7, <1>8
    <2>2. attached'[i][(k - 1) + 1] = attached[i][k - 1]
      BY <2>1, <1>2
    <2> QED
      BY <2>1, <2>2, <1>7
  <1>9. At(i, 1)' = d
    BY <1>2, <1>7 DEF At
  <1>10. \A k \in 1 .. Len(attached[i]) + 1 : At(i, k + 1)' = At(i, k)
    <2> TAKE k \in 1 .. Len(attached[i]) + 1
    <2>1. CASE k \in 1 .. Len(attached[i])
      BY <2>1, <1>2, <1>7 DEF At
    <2>2. CASE k = Len(attached[i]) + 1
      BY <2>2, <1>2, <1>7 DEF At
    <2> QED
      BY <2>1, <2>2, <1>7
  <1>11. \A j \in made' : data'[j] = At(j, 1)'
    BY <1>3, <1>4, <1>9 DEF Linked, At, BltImageAddUserdata, TypeOK
  <1>12. \A j \in Images : \A k \in DOMAIN attached'[j] :
              next'[attached'[j][k]] = At(j, k + 1)' /\ attached'[j][k] \in live'
    <2> TAKE j \in Images
    <2> TAKE k \in DOMAIN attached'[j]
    <2>1. CASE j # i
      BY <2>1, <1>3, <1>4, <1>5, <1>6 DEF Linked, At
    <2>2. CASE j = i /\ k = 1
      <3>1. At(i, 2)' = At(i, 1)
        BY <1>7, <1>10
      <3>2. data[i] = At(i, 1)
        BY <1>1 DEF Linked
      <3> QED
        BY <2>2, <3>1, <3>2, <1>2, <1>4
    <2>3. CASE j = i /\ k # 1
      <3>1. k - 1 \in DOMAIN attached[i] /\ attached'[i][k] = attached[i][k - 1]
        BY <2>3, <1>8
      <3>2. next[attached[i][k - 1]] = At(i, (k - 1) + 1) /\ attached[i][k - 1] \in live
        BY <3>1 DEF Linked
      <3>3. k \in 1 .. Len(attached[i]) + 1 /\ (k - 1) + 1 = k
        BY <2>3, <1>2, <1>7
      <3>4. At(i, k + 1)' = At(i, k)
        BY <3>3, <1>10
      <3> QED
        BY <2>3, <3>1, <3>2, <3>3, <3>4, <1>4, <1>5, <1>6
    <2> QED
      BY <2>1, <2>2, <2>3
  <1>13. \A j, h \in Images : \A k \in DOMAIN attached'[j], l \in DOMAIN attached'[h] :
              attached'[j][k] = attached'[h][l] => j = h /\ k = l
    <2> TAKE j, h \in Images
    <2> TAKE k \in DOMAIN attached'[j], l \in DOMAIN attached'[h]
    <2>1. CASE j # i /\ h # i
      BY <2>1, <1>3 DEF Linked
    <2>2. CASE j = i /\ h # i
      <3>1. h \in Images /\ l \in DOMAIN attached[h] /\ attached'[h][l] = attached[h][l]
        BY <2>2, <1>3
      <3>2. CASE k = 1
        BY <2>2, <3>1, <3>2, <1>2, <1>6
      <3>3. CASE k # 1
        BY <2>2, <3>1, <3>3, <1>8 DEF Linked
      <3> QED
        BY <3>2, <3>3
    <2>3. CASE j # i /\ h = i
      <3>1. k \in DOMAIN attached[j] /\ attached'[j][k] = attached[j][k]
        BY <2>3, <1>3
      <3>2. CASE l = 1
        BY <2>3, <3>1, <3>2, <1>2, <1>6
      <3>3. CASE l # 1
        <4>1. l - 1 \in DOMAIN attached[i] /\ attached'[i][l] = attached[i][l - 1]
          BY <2>3, <3>3, <1>8
        <4>2. attached[j][k] # attached[i][l - 1]
          BY <2>3, <3>1, <4>1 DEF Linked
        <4> QED
          BY <2>3, <3>1, <4>1, <4>2
      <3> QED
        BY <3>2, <3>3
    <2>4. CASE j = i /\ h = i
      <3>1. k \in Int /\ l \in Int
        BY <2>4, <1>2, <1>7
      <3>2. CASE k = 1 /\ l = 1
        BY <2>4, <3>2
      <3>3. CASE k = 1 /\ l # 1
        BY <2>4, <3>3, <1>2, <1>6, <1>8
      <3>4. CASE k # 1 /\ l = 1
        BY <2>4, <3>4, <1>2, <1>6, <1>8
      <3>5. CASE k # 1 /\ l # 1
        <4>1. attached'[i][k] = attached'[i][l] => k - 1 = l - 1
          BY <2>4, <3>5, <1>8 DEF Linked
        <4> QED
          BY <2>4, <4>1, <3>1
      <3> QED
        BY <3>2, <3>3, <3>4, <3>5
    <2> QED
      BY <2>1, <2>2, <2>3, <2>4
  <1>14. Linked'
    BY <1>11, <1>12, <1>13 DEF Linked
  <1> QED
    BY <1>14 DEF BltImageAddUserdata, Nested, NoMisuse, OnTheWay, Looking, ClientRuns

LEMMA FreeKeeps ==
    ASSUME IInv, AllRules \subseteq Rules, NEW d \in Nodes, Free(d)
    PROVE  Linked' /\ Nested' /\ NoMisuse' /\ OnTheWay'
  <1> USE DEF IInv
  <1>1. d \notin Attached
    BY DEF Free, AllRules
  <1>2. \A j \in Images : \A k \in DOMAIN attached[j] : attached[j][k] \in Nodes /\ attached[j][k] # d
    BY <1>1, ListNodes
  <1>3. \A e \in Nodes : e # d => next'[e] = next[e] /\ (e \in live => e \in live')
    BY DEF Free, TypeOK
  <1>4. \A j, k : At(j, k)' = At(j, k)
    BY DEF At, Free
  <1>5. Linked'
    BY <1>2, <1>3, <1>4 DEF Linked, Free
  <1> QED
    BY <1>5 DEF Free, Nested, NoMisuse, OnTheWay, Looking, ClientRuns

LEMMA BltImageDestroyKeeps ==
    ASSUME IInv, AllRules \subseteq Rules, NEW i \in Images, BltImageDestroy(i)
    PROVE  Linked' /\ Nested' /\ NoMisuse' /\ OnTheWay'
  <1> USE DEF IInv
  <1>1. calls \in Seq(Calls) /\ [img |-> i, node |-> Null] \in Calls
    BY DEF TypeOK, Calls, Pointer
  <1>2. /\ DOMAIN calls' = 1 .. Len(calls) + 1
        /\ calls'[Len(calls) + 1].img = i
        /\ \A n \in 1 .. Len(calls) : calls'[n] = calls[n]
    <2>1. calls' = Append(calls, [img |-> i, node |-> Null])
      BY DEF BltImageDestroy
    <2> QED
      BY <1>1, <2>1, CallAdded, LenProperties
  <1>3. DOMAIN calls = 1 .. Len(calls) /\ Len(calls) \in Nat
    BY <1>1, LenProperties
  <1>4. i \in made /\ \A n \in DOMAIN calls : calls[n].img # i
    BY DEF BltImageDestroy, AllRules
  <1>5. \A n \in DOMAIN calls' : n \in DOMAIN calls \/ n = Len(calls) + 1
    BY <1>2, <1>3
  <1>6. made' = made
    BY DEF BltImageDestroy
  <1>7. Nested'
    <2>1. \A n \in DOMAIN calls' : calls'[n].img \in made'
      BY <1>2, <1>3, <1>4, <1>5, <1>6 DEF Nested
    <2>2. \A m, n \in DOMAIN calls' : calls'[m].img = calls'[n].img => m = n
      BY <1>2, <1>3, <1>4, <1>5 DEF Nested
    <2> QED
      BY <2>1, <2>2 DEF Nested
  <1>8. Linked'
    BY <1>6, LinkedKept DEF BltImageDestroy, memory
  <1> QED
    BY <1>7, <1>8 DEF BltImageDestroy, NoMisuse, OnTheWay, Looking, ClientRuns

LEMMA UnlinkKeeps ==
    ASSUME IInv, Unlink
    PROVE  Linked' /\ Nested' /\ NoMisuse' /\ OnTheWay'
  <1> USE DEF IInv
  <1>1. LoopRuns /\ data[Top] # Null
    BY DEF Unlink
  <1>2. PICK i \in Images : i = Top
    BY <1>1, TopIsImage DEF LoopRuns
  <1>3. /\ i \in made /\ calls \in Seq(Calls) /\ calls # <<>>
        /\ attached[i] # <<>> /\ data[i] = attached[i][1] /\ 1 \in DOMAIN attached[i]
        /\ data[i] \in live /\ data[i] \in Nodes /\ next[data[i]] = At(i, 2)
    BY <1>1, <1>2, LoopHead DEF TypeOK, Pointer
  <1>4. /\ data' = [data EXCEPT ![i] = next[data[i]]]
        /\ attached' = [attached EXCEPT ![i] = Tail(@)]
        /\ UNCHANGED <<made, next, destroy, live, look>>
    BY <1>2, <1>3 DEF Unlink, TypeOK
  <1>5. attached[i] \in Seq(Nodes) /\ attached'[i] = Tail(attached[i])
    BY <1>4 DEF TypeOK
  <1>6. /\ DOMAIN attached'[i] = 1 .. Len(attached[i]) - 1
        /\ \A k \in DOMAIN attached'[i] : attached'[i][k] = attached[i][k + 1]
        /\ Len(attached[i]) \in Nat \ {0}
        /\ DOMAIN attached[i] = 1 .. Len(attached[i])
    BY <1>3, <1>5, HeadTailProperties, LenProperties, EmptySeq
  <1>7. \A k \in DOMAIN attached'[i] : k + 1 \in DOMAIN attached[i] /\ k \in Nat \ {0}
    BY <1>6
  <1>8. \A k \in Nat \ {0} : At(i, k)' = At(i, k + 1)
    <2> TAKE k \in Nat \ {0}
    <2>1. k \in DOMAIN attached'[i] <=> k + 1 \in DOMAIN attached[i]
      BY <1>6
    <2> QED
      BY <1>6, <2>1 DEF At
  <1>9. \A j \in Images : j # i => attached'[j] = attached[j] /\ data'[j] = data[j]
    BY <1>4 DEF TypeOK
  <1>10. Linked'
    <2>1. \A j \in made' : data'[j] = At(j, 1)'
      <3>1. data'[i] = At(i, 2)
        BY <1>3, <1>4 DEF TypeOK
      <3>2. At(i, 1)' = At(i, 2)
        BY <1>8
      <3>3. \A j \in made : j # i => data'[j] = At(j, 1)'
        BY <1>9 DEF Linked, At, TypeOK
      <3> QED
        BY <1>4, <3>1, <3>2, <3>3
    <2>2. \A j \in Images : \A k \in DOMAIN attached'[j] :
              next'[attached'[j][k]] = At(j, k + 1)' /\ attached'[j][k] \in live'
      <3> TAKE j \in Images
      <3> TAKE k \in DOMAIN attached'[j]
      <3>1. CASE j # i
        BY <3>1, <1>4, <1>9 DEF Linked, At
      <3>2. CASE j = i
        <4>1. /\ next[attached[i][k + 1]] = At(i, (k + 1) + 1)
              /\ attached[i][k + 1] \in live
          BY <3>2, <1>7 DEF Linked
        <4>2. At(i, k + 1)' = At(i, (k + 1) + 1)
          BY <3>2, <1>7, <1>8
        <4> QED
          BY <3>2, <4>1, <4>2, <1>4, <1>6
      <3> QED
        BY <3>1, <3>2
    <2>3. \A j, h \in Images : \A k \in DOMAIN attached'[j], l \in DOMAIN attached'[h] :
              attached'[j][k] = attached'[h][l] => j = h /\ k = l
      <3> DEFINE Was(j, k) == IF j = i THEN k + 1 ELSE k
      <3>1. \A j \in Images : \A k \in DOMAIN attached'[j] :
                Was(j, k) \in DOMAIN attached[j] /\ attached'[j][k] = attached[j][Was(j, k)]
        BY <1>6, <1>7, <1>9
      <3> TAKE j, h \in Images
      <3> TAKE k \in DOMAIN attached'[j], l \in DOMAIN attached'[h]
      <3>2. attached'[j][k] = attached'[h][l] => j = h /\ Was(j, k) = Was(h, l)
        BY <3>1 DEF Linked
      <3>3. j = h /\ Was(j, k) = Was(h, l) => k = l
        BY <1>7
      <3> QED
        BY <3>2, <3>3
    <2> QED
      BY <2>1, <2>2, <2>3 DEF Linked
  <1>11. /\ DOMAIN calls' = DOMAIN calls
         /\ \A n \in DOMAIN calls : calls'[n].img = calls[n].img
    <2>1. calls' = [calls EXCEPT ![Len(calls)].node = data[i]] /\ data[i] \in Pointer
      BY <1>2, <1>3 DEF Unlink, Pointer
    <2> QED
      BY <1>3, <2>1, NodeChanged, LenProperties
  <1>12. Nested'
    BY <1>4, <1>11 DEF Nested
  <1>13. NoMisuse'
    BY <1>2, <1>3 DEF Unlink, Uses, NoMisuse
  <1> QED
    BY <1>1, <1>4, <1>10, <1>12, <1>13 DEF OnTheWay, Looking, LoopRuns

LEMMA CallbackReturnsKeeps ==
    ASSUME IInv, CallbackReturns
    PROVE  Linked' /\ Nested' /\ NoMisuse' /\ OnTheWay'
  <1> USE DEF IInv
  <1>1. Linked'
    BY LinkedKept DEF CallbackReturns, memory
  <1>2. /\ DOMAIN calls' = DOMAIN calls
        /\ \A n \in DOMAIN calls : calls'[n].img = calls[n].img
    <2>1. calls \in Seq(Calls) /\ calls # <<>> /\ Null \in Pointer
      BY DEF TypeOK, Calls, CallbackReturns, Pointer
    <2>2. calls' = [calls EXCEPT ![Len(calls)].node = Null]
      BY DEF CallbackReturns
    <2> QED
      BY <2>1, <2>2, NodeChanged, LenProperties
  <1>3. Nested'
    BY <1>2 DEF Nested, CallbackReturns
  <1> QED
    BY <1>1, <1>3 DEF CallbackReturns, NoMisuse, OnTheWay, Looking, ClientRuns

LEMMA ImplDestroyKeeps ==
    ASSUME IInv, ImplDestroy
    PROVE  Linked' /\ Nested' /\ NoMisuse' /\ OnTheWay'
  <1> USE DEF IInv
  <1>1. LoopRuns
    BY DEF ImplDestroy
  <1>2. /\ Top \in made /\ calls \in Seq(Calls) /\ calls # <<>>
        /\ Len(calls) \in 1 .. Len(calls) /\ DOMAIN calls = 1 .. Len(calls)
    BY <1>1, LoopHead, LenProperties
  <1>3. made' = made \ {Top}
    BY DEF ImplDestroy
  <1>4. Linked'
    BY <1>3, LinkedKept DEF ImplDestroy, memory
  <1>5. /\ DOMAIN calls' = 1 .. Len(calls) - 1
        /\ \A n \in DOMAIN calls' : calls'[n] = calls[n]
    <2>1. calls' = SubSeq(calls, 1, Len(calls) - 1)
      BY DEF ImplDestroy
    <2> QED
      BY <1>2, <2>1, CallDropped, LenProperties
  <1>6. \A n \in DOMAIN calls' : n \in DOMAIN calls /\ n # Len(calls)
    BY <1>2, <1>5
  <1>7. Nested'
    BY <1>2, <1>3, <1>5, <1>6 DEF Nested, Top
  <1>8. NoMisuse'
    BY <1>2 DEF ImplDestroy, Uses, NoMisuse
  <1> QED
    BY <1>1, <1>4, <1>7, <1>8 DEF ImplDestroy, OnTheWay, Looking, LoopRuns

LEMMA BltImageGetUserdataKeeps ==
    ASSUME IInv, NEW i \in Images, NEW c \in Callbacks, BltImageGetUserdata(i, c)
    PROVE  Linked' /\ Nested' /\ NoMisuse' /\ OnTheWay'
  <1> USE DEF IInv
  <1>1. Linked'
    BY LinkedKept DEF BltImageGetUserdata, memory
  <1>2. look' = [img |-> i, want |-> c, at |-> data[i]] /\ i \in made /\ data[i] = At(i, 1)
    BY DEF BltImageGetUserdata, Linked
  <1>3. UNCHANGED <<made, memory, calls, attached, misuse>>
    BY DEF BltImageGetUserdata
  <1>4. At(i, 1)' = At(i, 1)
    BY <1>3 DEF At
  <1>5. 1 \in 1 .. Len(attached'[i]) + 1 /\ 1 .. 1 - 1 = {}
    BY <1>3, ListNodes
  <1>6. OnTheWay'
    BY <1>2, <1>3, <1>4, <1>5 DEF OnTheWay
  <1> QED
    BY <1>1, <1>3, <1>6 DEF Nested, NoMisuse

LEMMA LookOnKeeps ==
    ASSUME IInv, LookOn
    PROVE  Linked' /\ Nested' /\ NoMisuse' /\ OnTheWay'
  <1> USE DEF IInv
  <1>1. UNCHANGED <<made, memory, calls, attached>> /\ look' = [look EXCEPT !.at = next[look.at]]
    BY DEF LookOn
  <1>2. /\ Looking /\ look.at # Null /\ destroy[look.at] # look.want
        /\ look \in [img : Images, want : Callbacks, at : Pointer]
    BY LooksAt DEF LookOn
  <1>3. PICK i \in Images : i = look.img
    BY <1>2
  <1>4. look'.img = i /\ look'.want = look.want /\ look'.at = next[look.at]
    BY <1>1, <1>2, <1>3
  <1>5. PICK k \in 1 .. Len(attached[i]) + 1 :
            look.at = At(i, k) /\ \A l \in 1 .. k - 1 : destroy[attached[i][l]] # look.want
    BY <1>2, <1>3 DEF OnTheWay
  <1>6. k \in DOMAIN attached[i] /\ look.at = attached[i][k] /\ k \in Nat \ {0}
    BY <1>2, <1>5, ListNodes DEF At
  <1>7. k + 1 \in 1 .. Len(attached[i]) + 1
    BY <1>6, ListNodes
  <1>8. look'.at = At(i, k + 1) /\ look.at \in live
    BY <1>4, <1>6 DEF Linked
  <1>9. \A l \in 1 .. (k + 1) - 1 : destroy[attached[i][l]] # look.want
    BY <1>2, <1>5, <1>6
  <1>10. At(i, k + 1)' = At(i, k + 1)
    BY <1>1 DEF At
  <1>11. i \in made
    BY <1>2, <1>3 DEF OnTheWay
  <1>12. /\ look'.img \in made'
         /\ k + 1 \in 1 .. Len(attached'[look'.img]) + 1
         /\ look'.at = At(i, k + 1)'
         /\ \A l \in 1 .. (k + 1) - 1 : destroy'[attached'[look'.img][l]] # look'.want
    BY <1>1, <1>4, <1>7, <1>8, <1>9, <1>10, <1>11 DEF memory
  <1>13. OnTheWay'
    BY <1>4, <1>12 DEF OnTheWay
  <1>14. Linked'
    BY <1>1, LinkedKept DEF memory
  <1>15. NoMisuse'
    BY <1>2, <1>3, <1>8, <1>11 DEF LookOn, Uses, NoMisuse
  <1> QED
    BY <1>1, <1>13, <1>14, <1>15 DEF Nested

LEMMA LookReturnsKeeps ==
    ASSUME IInv, LookReturns
    PROVE  Linked' /\ Nested' /\ NoMisuse' /\ OnTheWay'
  <1> USE DEF IInv
  <1>1. UNCHANGED <<made, memory, calls, attached>> /\ look' = NoLook
    BY DEF LookReturns
  <1>2. Looking /\ look \in [img : Images, want : Callbacks, at : Pointer]
    BY LooksAt DEF LookReturns
  <1>3. PICK i \in Images : i = look.img
    BY <1>2
  <1>4. PICK k \in 1 .. Len(attached[i]) + 1 : look.at = At(i, k)
    BY <1>2, <1>3 DEF OnTheWay
  <1>5. look.at # Null => look.at \in live
    BY <1>4 DEF Linked, At
  <1>6. i \in made
    BY <1>2, <1>3 DEF OnTheWay
  <1>7. NoMisuse'
    BY <1>3, <1>5, <1>6 DEF LookReturns, Uses, NoMisuse
  <1>8. Linked'
    BY <1>1, LinkedKept DEF memory
  <1> QED
    BY <1>1, <1>7, <1>8 DEF Nested, OnTheWay, Looking

LEMMA IInvStep == AllRules \subseteq Rules /\ IInv /\ [Next]_vars => IInv'
  <1> SUFFICES ASSUME AllRules \subseteq Rules, IInv, [Next]_vars PROVE IInv'
    OBVIOUS
  <1>1. TypeOK'
    BY TypeOKStep DEF IInv
  <1>2. Linked' /\ Nested' /\ NoMisuse' /\ OnTheWay'
    <2>1. CASE UNCHANGED vars
      BY <2>1 DEF IInv, vars, memory, Linked, At, Nested, NoMisuse, OnTheWay, Looking
    <2>2. CASE Next
      BY <2>2, MakeImageKeeps, AddKeeps, FreeKeeps, BltImageDestroyKeeps, UnlinkKeeps,
         CallbackReturnsKeeps, ImplDestroyKeeps, BltImageGetUserdataKeeps, LookOnKeeps,
         LookReturnsKeeps
      DEF Next, Adds, Library
    <2> QED
      BY <2>1, <2>2
  <1> QED
    BY <1>1, <1>2 DEF IInv

\* Under all three rules the invariant holds of every state (image.c:4-34).
THEOREM Inductive == AllRules \subseteq Rules /\ Spec => []IInv
  <1> SUFFICES ASSUME AllRules \subseteq Rules PROVE Spec => []IInv
    OBVIOUS
  <1>1. Init => IInv
    BY IInvInit
  <1>2. IInv /\ [Next]_vars => IInv'
    BY IInvStep
  <1> QED
    BY <1>1, <1>2, PTL DEF Spec

-----------------------------------------------------------------------------
\* For a client that keeps the rules, the pointers are the lists of what was
\* added and not given back (image.c:11, 20-21).
THEOREM UserdataLinked == AllRules \subseteq Rules /\ Spec => []Linked
  BY Inductive, PTL DEF IInv

\* No freed node is read, and no image used that is gone (image.c:9-14, 29-31).
THEOREM UserdataNoMisuse == AllRules \subseteq Rules /\ Spec => []NoMisuse
  BY Inductive, PTL DEF IInv

\* blt_image_get_userdata returns the latest node with the function asked for,
\* and NULL only if there is none (image.c:29-33).
THEOREM UserdataGetsLatest == AllRules \subseteq Rules /\ Spec => []GetsLatest
  <1>1. IInv => GetsLatest
    <2> SUFFICES ASSUME IInv, Looking, LookDone
                 PROVE  IF look.at = Null
                        THEN \A k \in DOMAIN attached[look.img] :
                                destroy[attached[look.img][k]] # look.want
                        ELSE \E k \in DOMAIN attached[look.img] :
                                /\ attached[look.img][k] = look.at
                                /\ \A l \in 1 .. k - 1 : destroy[attached[look.img][l]] # look.want
      BY DEF GetsLatest
    <2>1. look.img \in Images
      BY LooksAt DEF IInv
    <2>2. PICK k \in 1 .. Len(attached[look.img]) + 1 :
              /\ look.at = At(look.img, k)
              /\ \A l \in 1 .. k - 1 : destroy[attached[look.img][l]] # look.want
      BY DEF IInv, OnTheWay
    <2>3. CASE k \in DOMAIN attached[look.img]
      BY <2>1, <2>2, <2>3, ListNodes, NullAssumption DEF At, IInv
    <2>4. CASE k \notin DOMAIN attached[look.img]
      <3>1. look.at = Null
        BY <2>2, <2>4 DEF At
      <3>2. DOMAIN attached[look.img] = 1 .. k - 1
        BY <2>1, <2>2, <2>4, ListNodes DEF IInv
      <3> QED
        BY <2>2, <3>1, <3>2
    <2> QED
      BY <2>3, <2>4
  <1> QED
    BY <1>1, Inductive, PTL

-----------------------------------------------------------------------------
(* The refinement.                                                         *)

LEMMA AttachmentsStep == AllRules \subseteq Rules /\ IInv /\ [Next]_vars => [A!Next]_(A!vars)
  <1> SUFFICES ASSUME AllRules \subseteq Rules, IInv, [Next]_vars PROVE [A!Next]_(A!vars)
    OBVIOUS
  <1> USE DEF A!vars
  <1>1. ASSUME NEW i \in Images, MakeImage(i) PROVE A!Next
    BY <1>1 DEF MakeImage, A!Next, A!Make
  <1>2. ASSUME NEW i \in Images, NEW d \in Nodes, NEW c \in Callbacks, BltImageAddUserdata(i, d, c)
        PROVE  A!Next
    <2>1. d \notin A!Attached
      BY <1>2 DEF BltImageAddUserdata, AllRules, Attached, A!Attached
    <2>2. A!Add(i, d)
      BY <1>2, <2>1 DEF BltImageAddUserdata, A!Add
    <2> QED
      BY <2>2 DEF A!Next
  <1>3. ASSUME NEW i \in Images, BltImageDestroy(i) PROVE A!Next
    BY <1>3 DEF BltImageDestroy, A!Next, A!Destroy
  <1>4. CASE Unlink
    <2>1. LoopRuns /\ data[Top] # Null /\ Top \in Images /\ A!Top = Top
      BY <1>4, TopIsImage DEF Unlink, LoopRuns, Top, A!Top, IInv
    <2>2. attached[Top] # <<>> /\ data[Top] = Head(attached[Top])
      BY <2>1, LoopHead DEF IInv
    <2>3. A!GiveBack
      BY <1>4, <2>1, <2>2 DEF Unlink, LoopRuns, A!GiveBack, A!InCallback, IInv, TypeOK
    <2> QED
      BY <2>3 DEF A!Next
  <1>5. CASE CallbackReturns
    BY <1>5 DEF CallbackReturns, ClientRuns, A!Next, A!CallbackReturns, A!InCallback
  <1>6. CASE ImplDestroy
    <2>1. attached[Top] = <<>> /\ LoopRuns /\ A!Top = Top
      BY <1>6, LoopHead DEF ImplDestroy, IInv, Top, A!Top
    <2>2. A!Gone
      BY <1>6, <2>1 DEF ImplDestroy, LoopRuns, A!Gone, A!InCallback
    <2> QED
      BY <2>2 DEF A!Next
  <1>7. ASSUME NEW d \in Nodes, Free(d) PROVE UNCHANGED A!vars
    BY <1>7 DEF Free
  <1>8. ASSUME NEW i \in Images, NEW c \in Callbacks, BltImageGetUserdata(i, c)
        PROVE  UNCHANGED A!vars
    BY <1>8 DEF BltImageGetUserdata
  <1>9. CASE LookOn \/ LookReturns
    BY <1>9 DEF LookOn, LookReturns
  <1>10. CASE UNCHANGED vars
    BY <1>10 DEF vars
  <1> QED
    BY <1>1, <1>2, <1>3, <1>4, <1>5, <1>6, <1>7, <1>8, <1>9, <1>10 DEF Next, Adds, Library

\* What was attached to an image is given back, each node once, the latest
\* first and before the image goes (image.c:9-14).
THEOREM UserdataImplementsAttachments ==
    AllRules \subseteq Rules /\ Spec => ImplementsAttachments
  <1> SUFFICES ASSUME AllRules \subseteq Rules PROVE Spec => ImplementsAttachments
    OBVIOUS
  <1>1. Init => A!Init
    BY DEF Init, A!Init
  <1>2. IInv /\ [Next]_vars => [A!Next]_(A!vars)
    BY AttachmentsStep
  <1>3. Spec => []IInv
    BY Inductive
  <1> QED
    BY <1>1, <1>2, <1>3, PTL DEF Spec, A!Spec, ImplementsAttachments
=============================================================================

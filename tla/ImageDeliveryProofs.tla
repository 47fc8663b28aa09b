------------------------- MODULE ImageDeliveryProofs -------------------------
(***************************************************************************)
(* What the delivery of the picked images promises, for any assets, any    *)
(* number of picks and any number of taps on next.                         *)
(***************************************************************************)
EXTENDS ImageDelivery, SelectionsProofs

Image == Asset \cup {Blank}
Result == [images : Seq(Image), models : Seq(Asset)]

\* Appending to a list, and taking its first element off.
LEMMA AppendFacts ==
    ASSUME NEW S, NEW s \in Seq(S), NEW e \in S
    PROVE  /\ Append(s, e) \in Seq(S) /\ Append(s, e) # <<>>
           /\ Len(s) \in Nat /\ Len(Append(s, e)) = Len(s) + 1
           /\ \A i \in 1..Len(s) : Append(s, e)[i] = s[i]
           /\ Append(s, e)[Len(s) + 1] = e
BY AppendProperties, LenProperties

\* removeFirst on a list that is not empty.
LEMMA TailFacts ==
    ASSUME NEW S, NEW s \in Seq(S), s # <<>>
    PROVE  /\ Tail(s) \in Seq(S) /\ Len(s) \in Nat \ {0} /\ Len(Tail(s)) = Len(s) - 1
           /\ \A i \in 1..Len(Tail(s)) : Tail(s)[i] = s[i + 1]
           /\ Head(s) = s[1] /\ s[1] \in S
<1>1. Len(s) \in Nat /\ (Len(s) = 0 <=> s = <<>>)
  BY LenProperties, EmptySeq
<1>2. /\ Head(s) \in S /\ Tail(s) \in Seq(S) /\ Len(Tail(s)) = Len(s) - 1
      /\ \A i \in 1..Len(Tail(s)) : Tail(s)[i] = s[i + 1]
  BY HeadTailProperties
<1>. QED BY <1>1, <1>2

\* A list has length 0 exactly when it is empty.
LEMMA LenFacts ==
    ASSUME NEW S, NEW s \in Seq(S)
    PROVE  Len(s) \in Nat /\ (Len(s) = 0 <=> s = <<>>) /\ DOMAIN s = 1..Len(s)
BY LenProperties, EmptySeq
-----------------------------------------------------------------------------
(* Types.                                                                  *)

\* getImages leaves lists of assets and images behind.
LEMMA GetImagesTypes ==
    ASSUME TypeOK, NEW p \in Seq(Asset), NEW t \in Seq(Asset), NEW im \in Seq(Image),
           NEW q \in Seq(Image), GetImages(p, t, im, q)
    PROVE  /\ todo' \in Seq(Asset) /\ images' \in Seq(Image) /\ queue' \in Seq(Image)
           /\ delivered' \in Seq(Result) /\ onScreen' \in BOOLEAN
<1>1. todo' \in Seq(Asset) /\ images' \in Seq(Image)
  BY DEF GetImages
<1>2. delivered \in Seq(Result) /\ onScreen \in BOOLEAN
  BY DEF TypeOK, Image, Result
<1>3. CASE t = <<>>
  <2>1. [images |-> im, models |-> p] \in Result
    BY DEF Result
  <2>2. Append(delivered, [images |-> im, models |-> p]) \in Seq(Result)
    BY <1>2, <2>1, AppendFacts
  <2>. QED BY <1>1, <1>3, <2>2 DEF GetImages
<1>4. CASE t # <<>>
  <2>1. t[1] \in Image /\ Blank \in Image
    BY <1>4, TailFacts DEF Image
  <2>2. PICK image \in {t[1], Blank} : queue' = Append(q, image)
    BY <1>4 DEF GetImages
  <2>3. queue' \in Seq(Image)
    BY <2>1, <2>2, AppendFacts
  <2>. QED BY <1>1, <1>2, <1>4, <2>3 DEF GetImages
<1>. QED BY <1>3, <1>4

\* The picker starts with typed state.
LEMMA TypeInit == Init => TypeOK
<1>1. /\ <<>> \in Seq(Asset) /\ <<>> \in Seq(Asset \cup {Blank})
      /\ <<>> \in Seq([images : Seq(Asset \cup {Blank}), models : Seq(Asset)])
  BY EmptySeq
<1>2. ASSUME Init
      PROVE  /\ single \in BOOLEAN /\ onScreen \in BOOLEAN /\ alive \in BOOLEAN
             /\ cancelled \in BOOLEAN /\ crashed \in BOOLEAN /\ overlap \in BOOLEAN
             /\ moved \in BOOLEAN /\ taps \in Nat
  BY <1>2 DEF Init
<1>3. ASSUME Init
      PROVE  /\ picks = <<>> /\ todo = <<>> /\ order = <<>> /\ images = <<>>
             /\ queue = <<>> /\ delivered = <<>>
  BY <1>3 DEF Init
<1>. QED BY <1>1, <1>2, <1>3, Zenon DEF TypeOK

\* Every step keeps the types.
LEMMA TypeStep == TypeOK /\ [Next]_vars => TypeOK'
<1>. SUFFICES ASSUME TypeOK, [Next]_vars PROVE TypeOK'
  OBVIOUS
<1>0. /\ picks \in Seq(Asset) /\ todo \in Seq(Asset) /\ images \in Seq(Image)
      /\ queue \in Seq(Image) /\ taps \in Nat
  BY DEF TypeOK, Image
<1>1. ASSUME NEW a \in Asset, Pick(a) PROVE TypeOK'
  <2>1. picks' \in Seq(Asset)
    BY <1>0, <1>1, AppendFacts DEF Pick
  <2>2. moved' \in BOOLEAN
    BY <1>1, Zenon DEF Pick, TypeOK
  <2>. QED BY <1>1, <2>1, <2>2 DEF Pick, TypeOK
<1>2. ASSUME NEW a \in Asset, Unpick(a) PROVE TypeOK'
  <2>1. picks' \in Seq(Asset)
    BY <1>0, <1>2, RemoveAllFacts DEF Unpick
  <2>2. moved' \in BOOLEAN
    BY <1>2, Zenon DEF Unpick, TypeOK
  <2>. QED BY <1>2, <2>1, <2>2 DEF Unpick, TypeOK
<1>3. ASSUME NEW a \in Asset, NextBtnClick(a) PROVE TypeOK'
  <2>1. PICK p : p = IF single THEN Append(picks, a) ELSE picks
    OBVIOUS
  <2>2. p \in Seq(Asset)
    BY <1>0, <2>1, AppendFacts
  <2>3. /\ GetImages(p, p, images, queue) /\ picks' = p /\ order' = p /\ taps' = taps + 1
        /\ UNCHANGED <<single, cancelled, alive, crashed, moved>>
    BY <1>3, <2>1 DEF NextBtnClick
  <2>4. overlap' \in BOOLEAN
    BY <1>3, Zenon DEF NextBtnClick, TypeOK
  <2>5. /\ todo' \in Seq(Asset) /\ images' \in Seq(Image) /\ queue' \in Seq(Image)
        /\ delivered' \in Seq(Result) /\ onScreen' \in BOOLEAN
    BY <1>0, <2>2, <2>3, GetImagesTypes
  <2>. QED BY <1>0, <2>2, <2>3, <2>4, <2>5 DEF TypeOK, Image, Result
<1>4. CASE RunBlock
  <2>0. UNCHANGED <<single, picks, cancelled, alive, order, overlap, moved, taps>>
    BY <1>4 DEF RunBlock
  <2>1. Head(queue) \in Image /\ Tail(queue) \in Seq(Image)
    BY <1>0, <1>4, TailFacts DEF RunBlock, Running
  <2>2. /\ todo' \in Seq(Asset) /\ images' \in Seq(Image) /\ queue' \in Seq(Image)
        /\ delivered' \in Seq(Result) /\ onScreen' \in BOOLEAN /\ crashed' \in BOOLEAN
    <3>1. CASE ~alive
      BY <1>4, <2>1, <3>1 DEF RunBlock, TypeOK, Image, Result
    <3>2. CASE alive /\ todo = <<>>
      BY <1>4, <3>2 DEF RunBlock, TypeOK, Image, Result
    <3>3. CASE alive /\ todo # <<>>
      <4>1. /\ GetImages(picks, Tail(todo), Append(images, Head(queue)), Tail(queue))
            /\ crashed' = crashed
        BY <1>4, <3>3 DEF RunBlock
      <4>2. Tail(todo) \in Seq(Asset) /\ Append(images, Head(queue)) \in Seq(Image)
        BY <1>0, <2>1, <3>3, TailFacts, AppendFacts
      <4>3. crashed' \in BOOLEAN
        BY <4>1 DEF TypeOK
      <4>. QED BY <1>0, <2>1, <4>1, <4>2, <4>3, GetImagesTypes
    <3>. QED BY <3>1, <3>2, <3>3
  <2>. QED BY <2>0, <2>2 DEF TypeOK, Image, Result
<1>5. CASE GoBack
  <2>1. cancelled' \in BOOLEAN
    BY <1>5, Zenon DEF GoBack, TypeOK
  <2>. QED BY <1>5, <2>1 DEF GoBack, TypeOK
<1>6. CASE Dealloc
  BY <1>6 DEF Dealloc, TypeOK
<1>7. CASE UNCHANGED vars
  BY <1>7 DEF vars, TypeOK
<1>. QED BY <1>1, <1>2, <1>3, <1>4, <1>5, <1>6, <1>7 DEF Next

\* Every reachable state is well typed, for any assets and any number of taps.
THEOREM TypeCorrect == Spec => []TypeOK
BY TypeInit, TypeStep, PTL DEF Spec
-----------------------------------------------------------------------------
(* The chain.                                                              *)

\* Touches arrive only while the controller lives, and after the delegate was
\* told there is nothing left to do and no more touch.
ScreenInv ==
    /\ onScreen => alive
    /\ delivered # <<>> => ~onScreen /\ todo = <<>>
    /\ Len(delivered) <= 1

\* Without an overlap there is one block exactly while there is something to do,
\* on the screen or not, and no images are left from an earlier chain.
ChainInv ==
    ~overlap => /\ ~crashed
                /\ Len(queue) <= 1
                /\ alive => (Running <=> todo # <<>>)
                /\ onScreen /\ ~Running => images = <<>>
                /\ Running /\ alive => Len(images) + Len(todo) = Len(order)

\* The images so far belong to the first picks, the block carries the image of
\* the next one, and the rest is still to do.
Matching ==
    /\ picks = order
    /\ Len(images) + Len(todo) = Len(order)
    /\ \A i \in 1..Len(images) : images[i] \in {order[i], Blank}
    /\ \A i \in 1..Len(todo) : todo[i] = order[Len(images) + i]
    /\ queue[1] \in {todo[1], Blank}

MatchInv ==
    ~overlap /\ ~moved => /\ Running /\ alive => Matching
                          /\ DeliveryMatchesPicks

IInv == TypeOK /\ ScreenInv /\ ChainInv /\ MatchInv

\* Nothing is under way at the start.
LEMMA ChainInit == Init => IInv
<1>. SUFFICES ASSUME Init PROVE IInv
  OBVIOUS
<1>1. TypeOK
  BY TypeInit
<1>2. Len(<<>>) = 0 /\ DOMAIN delivered = {}
  BY DEF Init
<1>3. ScreenInv /\ ChainInv /\ MatchInv
  BY <1>2 DEF Init, ScreenInv, ChainInv, MatchInv, DeliveryMatchesPicks, Running
<1>. QED BY <1>1, <1>3 DEF IInv

\* A change of the picks while a block is waiting is remembered in moved.
LEMMA PickStep ==
    ASSUME IInv, moved' = (moved \/ Running),
           UNCHANGED <<single, todo, images, queue, delivered, cancelled, onScreen,
                       alive, crashed, order, overlap, taps>>
    PROVE  ScreenInv' /\ ChainInv' /\ MatchInv'
<1>1. ScreenInv' /\ ChainInv'
  BY DEF IInv, ScreenInv, ChainInv, Running
<1>2. MatchInv'
  BY DEF IInv, MatchInv, DeliveryMatchesPicks, Running
<1>. QED BY <1>1, <1>2

\* A tap on next starts a chain with nothing done, unless one is running.
LEMMA NextStep ==
    ASSUME IInv, NEW a \in Asset, NextBtnClick(a)
    PROVE  ScreenInv' /\ ChainInv' /\ MatchInv'
<1>1. PICK p : p = IF single THEN Append(picks, a) ELSE picks
  OBVIOUS
<1>2. /\ onScreen /\ alive /\ delivered = <<>> /\ ~crashed /\ p # <<>>
      /\ picks' = p /\ order' = p /\ GetImages(p, p, images, queue)
      /\ UNCHANGED <<single, cancelled, alive, crashed, moved>>
      /\ overlap' = (overlap \/ Running)
  BY <1>1 DEF NextBtnClick, IInv, ScreenInv
<1>3. p \in Seq(Asset) /\ queue \in Seq(Image) /\ images \in Seq(Image)
  BY <1>1, AppendFacts DEF IInv, TypeOK, Image
<1>4. PICK image \in {p[1], Blank} : queue' = Append(queue, image)
  BY <1>2 DEF GetImages
<1>5. todo' = p /\ images' = images /\ UNCHANGED <<delivered, onScreen>>
  BY <1>2 DEF GetImages
<1>6. image \in Image
  BY <1>2, <1>3, <1>4, TailFacts DEF Image
<1>7. ScreenInv'
  BY <1>2, <1>5 DEF IInv, ScreenInv
<1>8. ASSUME ~overlap'
      PROVE  ~overlap /\ images = <<>> /\ queue' # <<>> /\ Len(queue') = 1 /\ queue'[1] = image
  <2>1. ~overlap /\ queue = <<>> /\ images = <<>>
    BY <1>2, <1>8 DEF IInv, ChainInv, Running
  <2>2. Len(queue) = 0
    BY <2>1
  <2>. QED BY <1>3, <1>4, <1>6, <2>1, <2>2, AppendFacts
<1>9. Len(p) \in Nat /\ Len(<<>>) = 0
  BY <1>3, LenFacts
<1>10. ChainInv'
  <2>1. ~crashed' /\ todo' # <<>> /\ todo' = order' /\ images' = images
    BY <1>2, <1>5
  <2>2. ASSUME ~overlap'
        PROVE  /\ Len(queue') <= 1 /\ queue' # <<>>
               /\ Len(images') + Len(todo') = Len(order')
    <3>1. queue' # <<>> /\ Len(queue') = 1
      BY <1>8, <2>2
    <3>2. images' = <<>>
      BY <1>5, <1>8, <2>2
    <3>3. Len(images') = 0
      BY <1>9, <3>2
    <3>4. Len(todo') = Len(order') /\ Len(todo') \in Nat
      BY <1>5, <1>9, <2>1
    <3>. QED BY <3>1, <3>3, <3>4
  <2>. QED BY <2>1, <2>2 DEF ChainInv, Running
<1>11. ASSUME ~overlap', ~moved'
       PROVE  Matching' /\ DeliveryMatchesPicks'
  <2>1. Matching'
    BY <1>2, <1>4, <1>5, <1>8, <1>9, <1>11 DEF Matching
  <2>2. DOMAIN delivered' = {}
    BY <1>2, <1>5
  <2>. QED BY <2>1, <2>2 DEF DeliveryMatchesPicks
<1>12. MatchInv'
  BY <1>11 DEF MatchInv
<1>. QED BY <1>7, <1>10, <1>12

\* The block of a controller that lives, with something to do.
LEMMA BlockStep ==
    ASSUME IInv, RunBlock, alive, todo # <<>>
    PROVE  ScreenInv' /\ ChainInv' /\ MatchInv'
<1>. DEFINE t == Tail(todo)
            im == Append(images, Head(queue))
            q == Tail(queue)
<1>1. /\ GetImages(picks, t, im, q) /\ ~crashed /\ queue # <<>> /\ delivered = <<>>
      /\ UNCHANGED <<single, picks, cancelled, alive, crashed, order, overlap, moved, taps>>
  BY DEF RunBlock, Running, IInv, ScreenInv
<1>2. /\ todo \in Seq(Asset) /\ queue \in Seq(Image) /\ images \in Seq(Image)
      /\ picks \in Seq(Asset) /\ order \in Seq(Asset) /\ delivered \in Seq(Result)
  BY DEF IInv, TypeOK, Image, Result
<1>3. /\ t \in Seq(Asset) /\ Len(todo) \in Nat \ {0} /\ Len(t) = Len(todo) - 1
      /\ \A i \in 1..Len(t) : t[i] = todo[i + 1]
  BY <1>2, TailFacts
<1>4. /\ q \in Seq(Image) /\ Len(q) = Len(queue) - 1 /\ Len(queue) \in Nat \ {0}
      /\ Head(queue) = queue[1] /\ queue[1] \in Image
  BY <1>1, <1>2, TailFacts
<1>5. /\ im \in Seq(Image) /\ Len(images) \in Nat /\ Len(im) = Len(images) + 1
      /\ \A i \in 1..Len(images) : im[i] = images[i]
      /\ im[Len(images) + 1] = queue[1]
  BY <1>2, <1>4, AppendFacts
<1>6. /\ Len(t) = 0 <=> t = <<>>
      /\ Len(q) = 0 <=> q = <<>>
      /\ Len(order) \in Nat /\ Len(picks) \in Nat
  BY <1>2, <1>3, <1>4, LenFacts
<1>7. ~overlap => Len(queue) = 1 /\ q = <<>> /\ Len(im) + Len(t) = Len(order)
  BY <1>1, <1>3, <1>4, <1>5, <1>6 DEF IInv, ChainInv, Running
<1>8. ASSUME ~overlap, ~moved
      PROVE  /\ picks = order
             /\ \A i \in 1..Len(im) : im[i] \in {order[i], Blank}
             /\ \A i \in 1..Len(t) : t[i] = order[Len(im) + i]
  <2>1. Matching
    BY <1>1, <1>8 DEF IInv, MatchInv, Running
  <2>2. queue[1] \in {order[Len(images) + 1], Blank}
    BY <1>3, <2>1 DEF Matching
  <2>3. \A i \in 1..Len(im) : im[i] \in {order[i], Blank}
    BY <1>5, <2>1, <2>2 DEF Matching
  <2>4. ASSUME NEW i \in 1..Len(t)
        PROVE  t[i] = order[Len(im) + i]
    <3>1. i + 1 \in 1..Len(todo) /\ Len(images) + (i + 1) = Len(im) + i
      BY <1>3, <1>5
    <3>2. todo[i + 1] = order[Len(images) + (i + 1)]
      BY <2>1, <3>1 DEF Matching
    <3>. QED BY <1>3, <3>1, <3>2
  <2>. QED BY <2>1, <2>3, <2>4 DEF Matching
<1>. HIDE DEF t, im, q
<1>9. todo' = t /\ images' = im
  BY <1>1 DEF GetImages
<1>10. CASE t = <<>>
  <2>. DEFINE d == [images |-> im, models |-> picks]
  <2>1. delivered' = Append(delivered, d) /\ onScreen' = FALSE /\ queue' = q
    BY <1>1, <1>10 DEF GetImages
  <2>2. delivered' = <<d>> /\ Len(delivered') = 1 /\ DOMAIN delivered' = {1} /\ delivered'[1] = d
    BY <1>1, <2>1
  <2>3. ScreenInv'
    BY <1>9, <1>10, <2>1, <2>2 DEF ScreenInv
  <2>4. ChainInv'
    BY <1>1, <1>4, <1>6, <1>7, <1>9, <1>10, <2>1 DEF ChainInv, Running
  <2>5. ASSUME ~overlap, ~moved
        PROVE  DeliveryMatchesPicks'
    <3>1. Len(im) = Len(order)
      BY <1>5, <1>6, <1>7, <1>10, <2>5
    <3>2. DOMAIN im = 1..Len(im)
      BY <1>5, LenFacts
    <3>3. d.models = order /\ d.images = im
      BY <1>8, <2>5
    <3>4. \A k \in DOMAIN delivered' : delivered'[k] = d
      BY <2>2
    <3>5. order' = order
      BY <1>1
    <3>. HIDE DEF d
    <3>. QED BY <1>8, <2>5, <3>1, <3>2, <3>3, <3>4, <3>5 DEF DeliveryMatchesPicks
  <2>6. MatchInv'
    BY <1>1, <1>7, <2>1, <2>5 DEF MatchInv, Running
  <2>. QED BY <2>3, <2>4, <2>6
<1>11. CASE t # <<>>
  <2>1. PICK image \in {t[1], Blank} : queue' = Append(q, image)
    BY <1>1, <1>11 DEF GetImages
  <2>2. UNCHANGED <<delivered, onScreen>>
    BY <1>1, <1>11 DEF GetImages
  <2>3. image \in Image
    BY <1>3, <1>11, <2>1, TailFacts DEF Image
  <2>4. /\ queue' # <<>> /\ Len(queue') = Len(q) + 1
        /\ queue'[Len(q) + 1] = image
    BY <1>4, <2>1, <2>3, AppendFacts
  <2>5. ScreenInv'
    BY <1>1, <2>2 DEF IInv, ScreenInv
  <2>6. ~overlap => Len(q) = 0 /\ Len(queue') = 1
    BY <1>4, <1>7, <2>4
  <2>7. ChainInv'
    <3>1. ~crashed' /\ todo' # <<>> /\ queue' # <<>>
      BY <1>1, <1>9, <1>11, <2>4
    <3>2. ASSUME ~overlap'
          PROVE  Len(queue') <= 1 /\ Len(images') + Len(todo') = Len(order')
      <4>1. ~overlap
        BY <1>1, <3>2
      <4>2. Len(queue') = 1
        BY <2>6, <4>1
      <4>3. Len(im) + Len(t) = Len(order) /\ order' = order
        BY <1>1, <1>7, <4>1
      <4>. QED BY <1>9, <4>2, <4>3
    <3>. QED BY <3>1, <3>2 DEF ChainInv, Running
  <2>8. ASSUME ~overlap, ~moved
        PROVE  Matching' /\ DeliveryMatchesPicks'
    <3>1. queue'[1] = image
      BY <2>4, <2>8, <2>6
    <3>2. Matching'
      BY <1>1, <1>7, <1>8, <1>9, <2>1, <2>8, <3>1 DEF Matching
    <3>3. DOMAIN delivered' = {}
      BY <1>1, <2>2
    <3>. QED BY <3>2, <3>3 DEF DeliveryMatchesPicks
  <2>9. MatchInv'
    BY <1>1, <2>8 DEF MatchInv
  <2>. QED BY <2>5, <2>7, <2>9
<1>. QED BY <1>10, <1>11

\* No step breaks the chain.
LEMMA ChainStep == IInv /\ [Next]_vars => IInv'
<1>. SUFFICES ASSUME IInv, [Next]_vars PROVE ScreenInv' /\ ChainInv' /\ MatchInv'
  BY TypeStep DEF IInv
<1>1. ASSUME NEW a \in Asset, Pick(a) \/ Unpick(a)
      PROVE  ScreenInv' /\ ChainInv' /\ MatchInv'
  BY <1>1, PickStep DEF Pick, Unpick
<1>2. ASSUME NEW a \in Asset, NextBtnClick(a)
      PROVE  ScreenInv' /\ ChainInv' /\ MatchInv'
  BY <1>2, NextStep
<1>3. CASE RunBlock
  <2>1. CASE ~alive
    <3>1. /\ queue' = Tail(queue) /\ queue # <<>>
          /\ UNCHANGED <<todo, images, delivered, onScreen, crashed, alive, order, overlap, moved>>
      BY <1>3, <2>1 DEF RunBlock, Running
    <3>2. Len(queue') = Len(queue) - 1 /\ Len(queue) \in Nat
      BY <3>1, TailFacts DEF IInv, TypeOK
    <3>. QED BY <2>1, <3>1, <3>2 DEF IInv, ScreenInv, ChainInv, MatchInv, DeliveryMatchesPicks
  <2>2. CASE alive /\ todo = <<>>
    <3>1. /\ overlap
          /\ UNCHANGED <<todo, delivered, onScreen, alive, overlap>>
      BY <1>3, <2>2 DEF RunBlock, IInv, ChainInv
    <3>. QED BY <3>1 DEF IInv, ScreenInv, ChainInv, MatchInv
  <2>3. CASE alive /\ todo # <<>>
    BY <1>3, <2>3, BlockStep
  <2>. QED BY <2>1, <2>2, <2>3
<1>4. CASE GoBack
  BY <1>4 DEF GoBack, IInv, ScreenInv, ChainInv, MatchInv, Matching, DeliveryMatchesPicks, Running
<1>5. CASE Dealloc
  BY <1>5 DEF Dealloc, IInv, ScreenInv, ChainInv, MatchInv, DeliveryMatchesPicks, Running
<1>6. CASE UNCHANGED vars
  BY <1>6 DEF vars, IInv, ScreenInv, ChainInv, MatchInv, Matching, DeliveryMatchesPicks, Running
<1>. QED BY <1>1, <1>2, <1>3, <1>4, <1>5, <1>6 DEF Next

\* IInv holds in every reachable state.
LEMMA Invariance == Spec => []IInv
BY ChainInit, ChainStep, PTL DEF Spec

\* Without a second tap on next while a chain is running, removeFirst never
\* meets an empty array and the arrays stay in step, for any number of picks.
THEOREM ChainAlwaysInStep == Spec => []ChainInStep
<1>1. IInv => ChainInStep
  BY DEF IInv, ChainInv, ChainInStep
<1>. QED BY <1>1, Invariance, PTL

\* Undisturbed, the delegate gets one image for each pick, in their order.
THEOREM DeliveryAlwaysMatches == Spec => []DeliveryMatchesPicks
<1>1. IInv => DeliveryMatchesPicks
  BY DEF IInv, MatchInv, DeliveryMatchesPicks
<1>. QED BY <1>1, Invariance, PTL

\* The delegate is told at most once, with any number of chains under way.
THEOREM AlwaysDeliveredOnce == Spec => []DeliveredOnce
<1>1. IInv => DeliveredOnce
  BY DEF IInv, ScreenInv, DeliveredOnce
<1>. QED BY <1>1, Invariance, PTL
=============================================================================

----------------------------- MODULE ImageProofs -----------------------------
(***************************************************************************)
(* Proofs about the image store and its handler, for every number of       *)
(* requests, prompts, images and failures.                                 *)
(***************************************************************************)
EXTENDS ImageCache, TLAPS

Working == {"get", "generate", "mkdir", "writing", "rename", "serve"}

Holding == {"mkdir", "writing", "rename", "serve"}

\* What a handler knows at each of its places: its prompt, then the image that
\* the model gave it, then the file it alone writes, complete at the rename.
HandlerKnows(r) ==
    /\ at[r] \in Working => hash[r] \in Hashes
    /\ at[r] \in Holding => data[r] \in Images
    /\ tmp[r] # None <=> at[r] \in {"writing", "rename"}
    /\ at[r] = "rename" => tmp[r] = data[r]

\* The inductive invariant: whole images are stored because what is renamed is
\* the complete file of a handler that holds an image.
ImageInv == /\ TypeOK
            /\ \A r \in Requests : HandlerKnows(r)
            /\ OnlyWholeImages
            /\ NoLitterWithoutCause

-----------------------------------------------------------------------------
(* Steps *)

\* Every step is one of the handler's, or a crash, or none.
LEMMA NextCases ==
    ASSUME [Next]_vars
    PROVE  \/ \E r \in Requests :
                 \/ Arrive(r) \/ Get(r) \/ GetFails(r) \/ Generate(r)
                 \/ OpenTmp(r) \/ MkdirFails(r) \/ WriteTmp(r) \/ Rename(r)
                 \/ PutFails(r) \/ Serve(r) \/ Finish(r)
           \/ Crash
           \/ UNCHANGED vars
  BY DEF Next, HandlerStep

\* The content type is one of three.
LEMMA MimeIsKnown ==
    ASSUME NEW bytes
    PROVE  SniffImageMime(bytes) \in {"image/png", "image/jpeg", "image/webp"}
  BY DEF SniffImageMime

\* An image that is served is served whole, under the prompt of its request.
LEMMA WriteImageServes ==
    ASSUME ImageInv, NEW r \in Requests, at[r] \in Working, NEW bytes \in Images,
           WriteImage(r, bytes)
    PROVE  /\ browser' \subseteq Hashes \X Contents \X {"image/png", "image/jpeg", "image/webp"}
           /\ \A served \in browser' : served[2] \in Images
           /\ at' = [at EXCEPT ![r] = "200"]
  <1>1. hash[r] \in Hashes
    BY DEF ImageInv, HandlerKnows
  <1>2. browser' = browser \cup {<<hash[r], bytes, SniffImageMime(bytes)>>}
    BY DEF WriteImage
  <1>3. <<hash[r], bytes, SniffImageMime(bytes)>>
            \in Hashes \X Contents \X {"image/png", "image/jpeg", "image/webp"}
    BY <1>1, MimeIsKnown DEF Contents
  <1> QED
    BY <1>2, <1>3 DEF ImageInv, TypeOK, OnlyWholeImages, WriteImage, GoTo

LEMMA ImageInit == Init => ImageInv
  <1> SUFFICES ASSUME Init
               PROVE  ImageInv
    OBVIOUS
  <1>1. TypeOK
    <2>1. trouble \in 0 .. MaxTrouble
      BY TroubleAssumption DEF Init
    <2>2. litter \in BOOLEAN
      BY DEF Init
    <2>3. /\ at \in [Requests -> Places]
          /\ orphans \subseteq Hashes \X Contents
          /\ browser \subseteq Hashes \X Contents \X {"image/png", "image/jpeg", "image/webp"}
      BY DEF Init, Places
    <2> QED
      BY <2>1, <2>2, <2>3 DEF Init, TypeOK
  <1>2. \A r \in Requests : HandlerKnows(r)
    BY DEF Init, HandlerKnows, Working, Holding
  <1>3. None # Partial
    BY ContentsAssumption DEF Contents
  <1>4. OnlyWholeImages
    BY <1>3 DEF Init, OnlyWholeImages
  <1>5. NoLitterWithoutCause
    BY DEF Init, NoLitterWithoutCause
  <1> QED
    BY <1>1, <1>2, <1>4, <1>5 DEF ImageInv

LEMMA ImageStep == ImageInv /\ [Next]_vars => ImageInv'
  <1> SUFFICES ASSUME ImageInv, [Next]_vars
               PROVE  ImageInv'
    OBVIOUS
  <1> USE DEF ImageInv
  <1>1. ASSUME NEW r \in Requests, Arrive(r)
        PROVE  ImageInv'
    <2>1. TypeOK'
      BY <1>1 DEF Arrive, TypeOK, GoTo, disk, Places, Statuses
    <2>2. \A s \in Requests : HandlerKnows(s)'
      BY <1>1 DEF Arrive, TypeOK, HandlerKnows, GoTo, disk, Working, Holding
    <2> QED
      BY <1>1, <2>1, <2>2 DEF Arrive, disk, OnlyWholeImages, NoLitterWithoutCause
  <1>2. ASSUME NEW r \in Requests, Get(r)
        PROVE  ImageInv'
    <2>1. CASE final[hash[r]] # None
      <3>1. at[r] \in Working /\ hash[r] \in Hashes
        BY <1>2 DEF Get, HandlerKnows, Working
      <3>2. final[hash[r]] \in Images
        BY <2>1, <3>1 DEF TypeOK, OnlyWholeImages, Contents
      <3>3. WriteImage(r, final[hash[r]])
        BY <1>2, <2>1 DEF Get
      <3>4. TypeOK' /\ OnlyWholeImages'
        BY <1>2, <3>1, <3>2, <3>3, WriteImageServes
        DEF Get, TypeOK, OnlyWholeImages, disk, Places, Statuses
      <3>5. \A s \in Requests : HandlerKnows(s)'
        BY <1>2, <3>3 DEF Get, WriteImage, GoTo, TypeOK, HandlerKnows, disk, Working, Holding
      <3> QED
        BY <1>2, <3>4, <3>5 DEF Get, disk, NoLitterWithoutCause
    <2>2. CASE final[hash[r]] = None
      <3>1. TypeOK'
        BY <1>2, <2>2 DEF Get, TypeOK, GoTo, disk, Places
      <3>2. \A s \in Requests : HandlerKnows(s)'
        BY <1>2, <2>2 DEF Get, TypeOK, HandlerKnows, GoTo, disk, Working, Holding
      <3> QED
        BY <1>2, <2>2, <3>1, <3>2 DEF Get, disk, OnlyWholeImages, NoLitterWithoutCause
    <2> QED
      BY <2>1, <2>2
  <1>3. ASSUME NEW r \in Requests, GetFails(r)
        PROVE  ImageInv'
    <2>1. TypeOK'
      BY <1>3, TroubleAssumption DEF GetFails, Trouble, TypeOK, GoTo, disk, Places, Statuses
    <2>2. \A s \in Requests : HandlerKnows(s)'
      BY <1>3 DEF GetFails, TypeOK, HandlerKnows, GoTo, disk, Working, Holding
    <2> QED
      BY <1>3, <2>1, <2>2 DEF GetFails, disk, OnlyWholeImages, NoLitterWithoutCause
  <1>4. ASSUME NEW r \in Requests, Generate(r)
        PROVE  ImageInv'
    <2>1. TypeOK'
      BY <1>4 DEF Generate, TypeOK, GoTo, disk, Places, Statuses, Contents
    <2>2. \A s \in Requests : HandlerKnows(s)'
      BY <1>4 DEF Generate, TypeOK, HandlerKnows, GoTo, disk, Working, Holding
    <2> QED
      BY <1>4, <2>1, <2>2 DEF Generate, disk, OnlyWholeImages, NoLitterWithoutCause
  <1>5. ASSUME NEW r \in Requests, OpenTmp(r)
        PROVE  ImageInv'
    <2>1. TypeOK'
      BY <1>5 DEF OpenTmp, TypeOK, GoTo, Places, Contents
    <2>2. \A s \in Requests : HandlerKnows(s)'
      BY <1>5, ContentsAssumption
      DEF OpenTmp, TypeOK, HandlerKnows, GoTo, Working, Holding, Contents
    <2> QED
      BY <1>5, <2>1, <2>2 DEF OpenTmp, OnlyWholeImages, NoLitterWithoutCause
  <1>6. ASSUME NEW r \in Requests, MkdirFails(r)
        PROVE  ImageInv'
    <2>1. TypeOK'
      BY <1>6, TroubleAssumption DEF MkdirFails, Trouble, TypeOK, GoTo, disk, Places
    <2>2. \A s \in Requests : HandlerKnows(s)'
      BY <1>6 DEF MkdirFails, TypeOK, HandlerKnows, GoTo, disk, Working, Holding
    <2> QED
      BY <1>6, <2>1, <2>2 DEF MkdirFails, disk, OnlyWholeImages, NoLitterWithoutCause
  <1>7. ASSUME NEW r \in Requests, WriteTmp(r)
        PROVE  ImageInv'
    <2>1. data[r] \in Images
      BY <1>7 DEF WriteTmp, HandlerKnows, Holding
    <2>2. TypeOK'
      BY <1>7 DEF WriteTmp, TypeOK, GoTo, Places
    <2>3. data[r] # None
      BY <2>1, ContentsAssumption DEF Contents
    <2>4. HandlerKnows(r)'
      BY <1>7, <2>1, <2>3 DEF WriteTmp, TypeOK, HandlerKnows, GoTo, Working, Holding
    <2>5. \A s \in Requests \ {r} : HandlerKnows(s)'
      BY <1>7 DEF WriteTmp, TypeOK, HandlerKnows, GoTo
    <2> QED
      BY <1>7, <2>2, <2>4, <2>5 DEF WriteTmp, OnlyWholeImages, NoLitterWithoutCause
  <1>8. ASSUME NEW r \in Requests, Rename(r)
        PROVE  ImageInv'
    <2>1. hash[r] \in Hashes /\ tmp[r] \in Images
      BY <1>8 DEF Rename, HandlerKnows, Working, Holding
    <2>2. TypeOK'
      BY <1>8, <2>1 DEF Rename, TypeOK, GoTo, Places
    <2>3. \A s \in Requests : HandlerKnows(s)'
      BY <1>8 DEF Rename, TypeOK, HandlerKnows, GoTo, Working, Holding
    <2>4. OnlyWholeImages'
      BY <1>8, <2>1, ContentsAssumption DEF Rename, TypeOK, OnlyWholeImages
    <2> QED
      BY <1>8, <2>2, <2>3, <2>4 DEF Rename, NoLitterWithoutCause
  <1>9. ASSUME NEW r \in Requests, PutFails(r)
        PROVE  ImageInv'
    <2>1. hash[r] \in Hashes /\ tmp[r] \in Contents
      BY <1>9 DEF PutFails, TypeOK, HandlerKnows, Working
    <2>2. TypeOK'
      <3>1. orphans' \subseteq Hashes \X Contents
        BY <1>9, <2>1 DEF PutFails, TypeOK
      <3>2. litter' \in BOOLEAN
        BY <1>9 DEF PutFails, TypeOK
      <3> QED
        BY <1>9, <3>1, <3>2, TroubleAssumption DEF PutFails, Trouble, TypeOK, GoTo, Places
    <2>3. HandlerKnows(r)'
      BY <1>9 DEF PutFails, TypeOK, HandlerKnows, GoTo, Working, Holding
    <2>4. \A s \in Requests \ {r} : HandlerKnows(s)'
      BY <1>9 DEF PutFails, TypeOK, HandlerKnows, GoTo
    <2> QED
      BY <1>9, <2>2, <2>3, <2>4 DEF PutFails, OnlyWholeImages, NoLitterWithoutCause
  <1>10. ASSUME NEW r \in Requests, Serve(r)
         PROVE  ImageInv'
    <2>1. at[r] \in Working /\ data[r] \in Images /\ WriteImage(r, data[r])
      BY <1>10 DEF Serve, HandlerKnows, Working, Holding
    <2>2. TypeOK' /\ OnlyWholeImages'
      BY <1>10, <2>1, WriteImageServes
      DEF Serve, TypeOK, OnlyWholeImages, disk, Places, Statuses
    <2>3. \A s \in Requests : HandlerKnows(s)'
      BY <1>10, <2>1 DEF Serve, WriteImage, GoTo, TypeOK, HandlerKnows, disk, Working, Holding
    <2> QED
      BY <1>10, <2>2, <2>3 DEF Serve, disk, NoLitterWithoutCause
  <1>11. ASSUME NEW r \in Requests, Finish(r)
         PROVE  ImageInv'
    <2>1. TypeOK'
      BY <1>11 DEF Finish, TypeOK, GoTo, disk, Places
    <2>2. \A s \in Requests : HandlerKnows(s)'
      BY <1>11 DEF Finish, TypeOK, HandlerKnows, GoTo, disk, Working, Holding, Statuses
    <2> QED
      BY <1>11, <2>1, <2>2 DEF Finish, disk, OnlyWholeImages, NoLitterWithoutCause
  <1>12. ASSUME Crash
         PROVE  ImageInv'
    <2>1. \A r \in Requests : tmp[r] # None => hash[r] \in Hashes /\ tmp[r] \in Contents
      BY DEF TypeOK, HandlerKnows, Working
    <2>2. orphans' \subseteq Hashes \X Contents
      BY <1>12, <2>1 DEF Crash, TypeOK
    <2>3. TypeOK'
      BY <1>12, <2>2, TroubleAssumption DEF Crash, Trouble, TypeOK, Places
    <2>4. \A s \in Requests : HandlerKnows(s)'
      BY <1>12 DEF Crash, HandlerKnows, Working, Holding
    <2>5. NoLitterWithoutCause'
      BY <1>12 DEF Crash, NoLitterWithoutCause
    <2> QED
      BY <1>12, <2>3, <2>4, <2>5 DEF Crash, OnlyWholeImages
  <1>13. CASE UNCHANGED vars
    BY <1>13
    DEF vars, TypeOK, HandlerKnows, OnlyWholeImages, NoLitterWithoutCause
  <1> QED
    BY <1>1, <1>2, <1>3, <1>4, <1>5, <1>6, <1>7, <1>8, <1>9, <1>10, <1>11, <1>12, <1>13,
       NextCases

LEMMA Invariance == Spec => []ImageInv
  BY ImageInit, ImageStep, PTL DEF Spec

-----------------------------------------------------------------------------
(* The theorems *)

\* The variables keep their types.
THEOREM TypeCorrect == Spec => []TypeOK
  BY Invariance, PTL DEF ImageInv

\* No browser and no reader of the store ever gets part of an image.
THEOREM ImagesAreWhole == Spec => []OnlyWholeImages
  BY Invariance, PTL DEF ImageInv

\* No handler that ends leaves a file behind, unless its removal failed.
THEOREM LitterHasCause == Spec => []NoLitterWithoutCause
  BY Invariance, PTL DEF ImageInv

\* Once the requests that missed it have ended, a stored image is for ever.
THEOREM StoredForGood == Spec => StoredImageStays
<1>1. ASSUME ImageInv, [Next]_vars, NEW h \in Hashes, final[h] # None, InFlight(h) = {}
      PROVE  final'[h] = final[h] /\ InFlight(h)' = {}
  <2> USE DEF ImageInv
  <2>1. \A r \in Requests : hash[r] = h
            => at[r] \notin {"generate", "mkdir", "writing", "rename"}
    BY <1>1 DEF InFlight
  <2> DEFINE Goal == /\ final'[h] = final[h]
                     /\ \A r \in Requests : hash'[r] = h
                           => at'[r] \notin {"generate", "mkdir", "writing", "rename"}
  <2> SUFFICES Goal
    BY DEF InFlight
  <2>2. ASSUME NEW r \in Requests, Get(r)
        PROVE  /\ final' = final
               /\ at' = [at EXCEPT ![r] = "200"] \/ hash[r] # h
               /\ \A s \in Requests : s # r => at'[s] = at[s]
               /\ hash' = hash
    <3>1. CASE hash[r] = h
      <4>1. WriteImage(r, final[h]) /\ final' = final /\ hash' = hash
        BY <1>1, <2>2, <3>1 DEF Get, disk
      <4> QED
        BY <4>1 DEF WriteImage, GoTo, TypeOK
    <3>2. CASE hash[r] # h
      BY <1>1, <2>2, <3>2 DEF Get, WriteImage, GoTo, disk, TypeOK
    <3> QED
      BY <3>1, <3>2
  <2>3. ASSUME NEW r \in Requests, Rename(r)
        PROVE  final'[h] = final[h] /\ hash' = hash /\ at' = [at EXCEPT ![r] = "serve"]
    <3>1. hash[r] # h
      BY <2>1, <2>3 DEF Rename
    <3> QED
      BY <1>1, <2>3, <3>1 DEF Rename, GoTo, TypeOK
  <2>4. ASSUME NEW r \in Requests,
               GetFails(r) \/ Generate(r) \/ OpenTmp(r) \/ MkdirFails(r) \/ WriteTmp(r)
                  \/ PutFails(r) \/ Serve(r)
        PROVE  /\ final' = final /\ hash' = hash
               /\ \A s \in Requests : s # r => at'[s] = at[s]
               /\ at'[r] \in {"generate", "mkdir", "writing", "rename"}
                     => at[r] \in {"generate", "mkdir", "writing", "rename"}
    BY <1>1, <2>4
    DEF GetFails, Generate, OpenTmp, MkdirFails, WriteTmp, PutFails, Serve, WriteImage, GoTo,
        disk, TypeOK
  <2>5. ASSUME NEW r \in Requests, Arrive(r) \/ Finish(r)
        PROVE  /\ final' = final
               /\ \A s \in Requests : s # r => at'[s] = at[s] /\ hash'[s] = hash[s]
               /\ at'[r] \notin {"generate", "mkdir", "writing", "rename"}
    BY <1>1, <2>5 DEF Arrive, Finish, GoTo, disk, TypeOK
  <2>6. ASSUME Crash
        PROVE  /\ final' = final
               /\ \A s \in Requests : at'[s] = "idle"
    BY <2>6 DEF Crash
  <2>7. ASSUME NEW r \in Requests, Get(r)
        PROVE  Goal
    BY <1>1, <2>1, <2>2, <2>7 DEF TypeOK
  <2>8. ASSUME NEW r \in Requests, Rename(r)
        PROVE  Goal
    BY <1>1, <2>1, <2>3, <2>8 DEF TypeOK
  <2>9. ASSUME NEW r \in Requests,
               GetFails(r) \/ Generate(r) \/ OpenTmp(r) \/ MkdirFails(r) \/ WriteTmp(r)
                  \/ PutFails(r) \/ Serve(r)
        PROVE  Goal
    BY <2>1, <2>4, <2>9
  <2>10. ASSUME NEW r \in Requests, Arrive(r) \/ Finish(r)
         PROVE  Goal
    BY <2>1, <2>5, <2>10
  <2>11. CASE Crash
    BY <2>6, <2>11
  <2>12. CASE UNCHANGED vars
    BY <2>1, <2>12 DEF vars
  <2> HIDE DEF Goal
  <2> QED
    BY <1>1, <2>7, <2>8, <2>9, <2>10, <2>11, <2>12, NextCases
<1>2. ImageInv /\ [Next]_vars
         => \A h \in Hashes : final[h] # None /\ InFlight(h) = {}
               => final'[h] = final[h] /\ InFlight(h)' = {}
  BY <1>1
<1> QED
  BY <1>2, Invariance, PTL DEF Spec, StoredImageStays
=============================================================================

--------------------------- MODULE ClipboardProofs ---------------------------
(***************************************************************************)
(* For any number of `dbr paste` commands, any selections and any limits:  *)
(* the transfer permit is conserved, and what a client keeps is a whole    *)
(* selection.  The images travel through batch, wire and got; the          *)
(* invariant says that these are always three parts of one selection.      *)
(***************************************************************************)
EXTENDS Clipboard, SequenceTheorems, TLAPS

ImageSet == [format : {"png", "jpeg", "tiff", "other"}, size : Nat \ {0}]
ErrorFrame == [type |-> "error"]
FrameSet == {ErrorFrame} \cup [type : {"batch"}, count : Nat] \cup [type : {"image"}, image : ImageSet]

DataOK ==
  /\ os \in {"linux", "macos"} /\ clip \in seen /\ seen \subseteq Clips
  /\ permit \in 0..1 /\ faults \in 0..MaxFaults
  /\ want \in [Clients -> Formats \cup {"auto"}]
  /\ tried \in [Clients -> Seq({"png", "jpeg", "tiff"})]
  /\ stale \in [Clients -> BOOLEAN] /\ rendered \in [Clients -> BOOLEAN]
  /\ client \in [Clients -> {"idle", "waiting", "saving", "pasting"} \cup Ends]
  /\ host \in [Clients -> {"none", "asked", "capturing", "sending", "closed"}]
  /\ wire \in [Clients -> Seq(FrameSet)]
  /\ batch \in [Clients -> Seq(ImageSet)]
  /\ count \in [Clients -> Nat]
  /\ got \in [Clients -> Seq(ImageSet)]
  /\ kept \in [Clients -> Seq(ImageSet)]

\* One transfer at a time, and the permit says whether there is one.
PermitInv ==
  /\ \A j, k \in Clients : Serving(j) /\ Serving(k) => j = k
  /\ permit = IF \E k \in Clients : Serving(k) THEN 0 ELSE 1

\* A selection is sent as its count, if it has several images, and its images.
Header(S) == IF Len(S) > 1 THEN 1 ELSE 0
FrameOf(S, i) ==
  IF i <= Header(S) THEN [type |-> "batch", count |-> Len(S)] ELSE [type |-> "image", image |-> S[i - Header(S)]]

\* What a client may be sent: a selection, or the picture drawn of one.
Offers(k) == {S \in Seq(ImageSet) : Selected(S, k)}

AllMatch(images, k) == \A i \in 1..Len(images) : Matches(images[i], want[k])

\* k has received r of the s frames sent so far of the selection S.
Stream(k, S, r, s) ==
  /\ Len(S) \in 1..MaxBatchImages
  /\ s \in Header(S)..(Header(S) + Len(S)) /\ r \in 0..s /\ r < Header(S) + Len(S)
  /\ Len(wire[k]) = s - r /\ \A i \in 1..(s - r) : wire[k][i] = FrameOf(S, r + i)
  /\ count[k] = IF r = 0 THEN 0 ELSE Len(S)
  /\ Len(got[k]) = IF r <= Header(S) THEN 0 ELSE r - Header(S)
  /\ \A i \in 1..Len(got[k]) : got[k][i] = S[i]
  /\ AllMatch(got[k], k)
  /\ \/ host[k] = "closed"
     \/ /\ host[k] = "sending"
        /\ Len(batch[k]) = Header(S) + Len(S) - s
        /\ \A i \in 1..Len(batch[k]) : batch[k][i] = S[s - Header(S) + i]

\* Nothing has been sent to k but perhaps an error.
Quiet(k) ==
  /\ got[k] = <<>> /\ count[k] = 0
  /\ \/ host[k] \in {"none", "asked", "capturing"} /\ wire[k] = <<>>
     \/ host[k] = "closed" /\ wire[k] \in {<<>>, <<ErrorFrame>>}

StreamOK(k) == Quiet(k) \/ \E S \in Offers(k), s \in 0..(MaxBatchImages + 1) : \E r \in 0..s : Stream(k, S, r, s)

LocalOK(k) ==
  /\ client[k] = "idle" => host[k] = "none"
  /\ host[k] = "capturing" /\ batch[k] # <<>> /\ ~stale[k] => batch[k] \in Offers(k)
  /\ host[k] = "sending" => Len(batch[k]) \in 1..MaxBatchImages
  /\ Len(got[k]) <= MaxBatchImages /\ count[k] <= MaxBatchImages
  /\ client[k] \in {"idle", "waiting"} => StreamOK(k)
  /\ client[k] = "saving" => got[k] \in Offers(k) /\ AllMatch(got[k], k)
  /\ kept[k] # <<>> => kept[k] \in Offers(k) /\ AllMatch(kept[k], k)

ClipInv == DataOK /\ PermitInv /\ \A k \in Clients : LocalOK(k)
------------------------------------------------------------------------------
LEMMA ClipFacts ==
  ASSUME DataOK
  PROVE  /\ clip \in seen /\ clip.files \in BOOLEAN /\ clip.images \in Seq(ImageSet)
         /\ MaxBatchImages \in Nat \ {0}
         /\ \A k \in Clients : wire[k] \in Seq(FrameSet) /\ batch[k] \in Seq(ImageSet)
                                /\ got[k] \in Seq(ImageSet) /\ kept[k] \in Seq(ImageSet) /\ count[k] \in Nat
         /\ \A k \in Clients : Len(wire[k]) \in Nat /\ Len(batch[k]) \in Nat /\ Len(got[k]) \in Nat
         /\ \A k \in Clients : \A S \in Offers(k) : S \in Seq(ImageSet) /\ Len(S) \in Nat
         /\ ErrorFrame \in FrameSet
<1>1. clip \in Clips
  BY DEF DataOK
<1>2. clip.files \in BOOLEAN /\ clip.images \in Seq(ImageSet)
  BY <1>1, ClipboardAssumption DEF ImageSet
<1>3. QED
  BY <1>2, ClipboardAssumption DEF DataOK, FrameSet, Offers

\* Selections are only added, and a drawn picture stays one.
LEMMA OffersGrow ==
  ASSUME NEW k \in Clients, seen \subseteq seen', rendered[k] => rendered'[k]
  PROVE  Offers(k) \subseteq Offers(k)'
BY DEF Offers, Selected, Whole

LEMMA HeaderFacts ==
  ASSUME NEW S, NEW max \in Nat, Len(S) \in 1..max
  PROVE  Header(S) \in 0..1 /\ (Header(S) = 0 <=> Len(S) = 1)
<1>1. PICK n \in 1..max : n = Len(S)
  OBVIOUS
<1>2. n = 1 \/ n > 1
  OBVIOUS
<1>3. CASE n = 1
  <2>1. Header(S) = 0
    BY <1>1, <1>3 DEF Header
  <2>2. QED
    BY <1>1, <1>3, <2>1
<1>4. CASE n > 1
  <2>1. Header(S) = 1
    BY <1>1, <1>4 DEF Header
  <2>2. QED
    BY <1>1, <1>4, <2>1
<1>5. QED
  BY <1>2, <1>3, <1>4

\* A stream that the step does not touch, while selections are only added.
LEMMA StreamFrame ==
  ASSUME NEW k \in Clients, StreamOK(k), seen \subseteq seen', rendered[k] => rendered'[k], want' = want,
         wire'[k] = wire[k], got'[k] = got[k], count'[k] = count[k],
         host'[k] = host[k], batch'[k] = batch[k]
  PROVE  StreamOK(k)'
<1>1. CASE Quiet(k)
  BY <1>1 DEF StreamOK, Quiet
<1>2. ASSUME NEW S \in Offers(k), NEW s \in 0..(MaxBatchImages + 1), NEW r \in 0..s, Stream(k, S, r, s)
      PROVE  StreamOK(k)'
  <2>1. Stream(k, S, r, s)'
    BY <1>2 DEF Stream, AllMatch
  <2>2. S \in Offers(k)'
    BY <1>2, OffersGrow
  <2>3. QED
    BY <1>2, <2>1, <2>2 DEF StreamOK
<1>3. QED
  BY <1>1, <1>2 DEF StreamOK

\* A step of k's leaves the others alone.
LEMMA OthersFrame ==
  ASSUME ClipInv, NEW k \in Clients, seen \subseteq seen', want' = want,
         \A j \in Clients \ {k} :
           /\ client'[j] = client[j] /\ host'[j] = host[j] /\ wire'[j] = wire[j] /\ batch'[j] = batch[j]
           /\ count'[j] = count[j] /\ got'[j] = got[j] /\ kept'[j] = kept[j]
           /\ stale'[j] = stale[j] /\ (rendered[j] => rendered'[j])
  PROVE  \A j \in Clients \ {k} : LocalOK(j)'
<1>1. SUFFICES ASSUME NEW j \in Clients \ {k} PROVE LocalOK(j)'
  OBVIOUS
<1>2. LocalOK(j)
  BY DEF ClipInv
<1>3. StreamOK(j) => StreamOK(j)'
  BY StreamFrame
<1>4. Offers(j) \subseteq Offers(j)'
  BY OffersGrow
<1>5. QED
  BY <1>2, <1>3, <1>4 DEF LocalOK, AllMatch

LEMMA PermitSame ==
  ASSUME PermitInv, permit' = permit, \A k \in Clients : Serving(k)' <=> Serving(k)
  PROVE  PermitInv'
BY DEF PermitInv

\* The permit is dropped with the only transfer there was.
LEMMA PermitReturned ==
  ASSUME DataOK, PermitInv, NEW k \in Clients, Serving(k), permit' = 1, host' = [host EXCEPT ![k] = "closed"]
  PROVE  PermitInv'
<1>1. \A j \in Clients : ~Serving(j)'
  BY DEF DataOK, PermitInv, Serving
<1>2. QED
  BY <1>1 DEF PermitInv
------------------------------------------------------------------------------
(* The host *)

\* An error frame ends an exchange in which nothing was sent.
LEMMA RejectStream ==
  ASSUME ClipInv, NEW k \in Clients, host[k] \in {"asked", "capturing"}, Reject(k),
         UNCHANGED <<client, count, got, seen, want>>
  PROVE  /\ client[k] \in {"idle", "waiting"} => StreamOK(k)'
         /\ wire' \in [Clients -> Seq(FrameSet)]
         /\ \A j \in Clients \ {k} : wire'[j] = wire[j] /\ host'[j] = host[j]
         /\ host'[k] = "closed"
<1> USE DEF Reject, Put
<1>1. wire' = [wire EXCEPT ![k] = Append(@, ErrorFrame)] /\ host' = [host EXCEPT ![k] = "closed"]
  BY DEF ErrorFrame
<1>2. wire \in [Clients -> Seq(FrameSet)] /\ ErrorFrame \in FrameSet /\ DOMAIN host = Clients
  BY ClipFacts DEF ClipInv, DataOK
<1>3. client[k] \in {"idle", "waiting"} => Quiet(k)
  <2>1. SUFFICES ASSUME client[k] \in {"idle", "waiting"} PROVE Quiet(k)
    OBVIOUS
  <2>2. StreamOK(k)
    BY <2>1 DEF ClipInv, LocalOK
  <2>3. QED
    BY <2>2 DEF StreamOK, Stream
<1>4. Quiet(k) => Quiet(k)'
  <2>1. ASSUME wire[k] = <<>> PROVE wire'[k] = <<ErrorFrame>>
    BY <1>1, <1>2, <2>1
  <2>2. QED
    BY <1>1, <1>2, <2>1 DEF Quiet
<1>5. wire' \in [Clients -> Seq(FrameSet)]
  BY <1>1, <1>2
<1>6. QED
  BY <1>1, <1>2, <1>3, <1>4, <1>5 DEF StreamOK

LEMMA RefusePreserves ==
  ASSUME ClipInv, NEW k \in Clients, Refuse(k)
  PROVE  ClipInv'
<1> USE DEF Refuse, fixed, clientVars
<1>0. Reject(k) /\ host[k] = "asked" /\ DOMAIN host = Clients
  BY DEF ClipInv, DataOK
<1>1. /\ client[k] \in {"idle", "waiting"} => StreamOK(k)'
      /\ wire' \in [Clients -> Seq(FrameSet)]
      /\ \A j \in Clients \ {k} : wire'[j] = wire[j] /\ host'[j] = host[j]
      /\ host'[k] = "closed"
  BY <1>0, RejectStream
<1>2. DataOK'
  BY <1>0, <1>1 DEF ClipInv, DataOK, Reject
<1>3. PermitInv'
  <2>1. \A j \in Clients : Serving(j)' <=> Serving(j)
    BY <1>0, <1>1 DEF Serving
  <2>2. QED
    BY <2>1, PermitSame DEF ClipInv
<1>4. LocalOK(k)'
  BY <1>0, <1>1, OffersGrow DEF ClipInv, LocalOK, AllMatch
<1>5. \A j \in Clients \ {k} : LocalOK(j)'
  BY <1>1, OthersFrame
<1>6. QED
  BY <1>2, <1>3, <1>4, <1>5 DEF ClipInv

\* The formats that the helpers are asked for.
LEMMA CandidatesType ==
  ASSUME NEW format \in Formats \cup {"auto"}
  PROVE  Candidates(format) \in Seq({"png", "jpeg", "tiff"})
<1>1. \A T, U \in Seq({"png", "jpeg", "tiff"}) : T \o U \in Seq({"png", "jpeg", "tiff"})
  OBVIOUS
<1>2. /\ <<"png", "jpeg">> \in Seq({"png", "jpeg", "tiff"})
      /\ format # "auto" => <<format>> \in Seq({"png", "jpeg", "tiff"})
      /\ <<"tiff">> \in Seq({"png", "jpeg", "tiff"}) /\ <<>> \in Seq({"png", "jpeg", "tiff"})
  BY DEF Formats
<1>3. QED
  BY <1>1, <1>2 DEF Candidates

LEMMA StartCapturePreserves ==
  ASSUME ClipInv, NEW k \in Clients, StartCapture(k)
  PROVE  ClipInv'
<1> USE DEF StartCapture, fixed, clientVars
<1>0. Listing \in Seq(ImageSet) /\ (Listing # <<>> => Listing \in Offers(k))
  <2>1. clip \in seen /\ clip.images \in Seq(ImageSet)
    BY ClipFacts DEF ClipInv
  <2>2. clip.files => Selected(clip.images, k)
    BY <2>1 DEF Selected, Whole
  <2>3. QED
    BY <2>1, <2>2, EmptySeq DEF Listing, Offers
<1>1. DataOK'
  <2>1. Candidates(want[k]) \in Seq({"png", "jpeg", "tiff"})
    BY CandidatesType DEF ClipInv, DataOK
  <2>2. QED
    BY <1>0, <2>1 DEF ClipInv, DataOK
<1>2. PermitInv'
  <2>1. \A j \in Clients : ~Serving(j)
    BY DEF ClipInv, PermitInv
  <2>2. \A j \in Clients : Serving(j)' <=> j = k
    BY <2>1 DEF Serving, ClipInv, DataOK
  <2>3. QED
    BY <2>2 DEF PermitInv
<1>3. LocalOK(k)'
  <2>1. host'[k] = "capturing" /\ batch'[k] = Listing
    BY DEF ClipInv, DataOK
  <2>2. StreamOK(k) => StreamOK(k)'
    <3>1. StreamOK(k) => Quiet(k)
      BY DEF StreamOK, Stream
    <3>2. Quiet(k) => Quiet(k)'
      BY <2>1 DEF Quiet
    <3>3. QED
      BY <3>1, <3>2 DEF StreamOK
  <2>3. QED
    BY <1>0, <2>1, <2>2, OffersGrow DEF ClipInv, LocalOK, AllMatch
<1>4. \A j \in Clients \ {k} : LocalOK(j)'
  BY OthersFrame DEF ClipInv, DataOK
<1>5. QED
  BY <1>1, <1>2, <1>3, <1>4 DEF ClipInv

\* A failed capture sends an error and drops the permit.
LEMMA GiveUpPreserves ==
  ASSUME ClipInv, NEW k \in Clients, host[k] = "capturing", GiveUp(k), faults' \in 0..MaxFaults,
         rendered' \in [Clients -> BOOLEAN], \A j \in Clients : rendered[j] => rendered'[j],
         UNCHANGED <<fixed, clip, seen, clientVars>>
  PROVE  ClipInv'
<1> USE DEF GiveUp, HelperGone, fixed, clientVars
<1>1. /\ client[k] \in {"idle", "waiting"} => StreamOK(k)'
      /\ wire' \in [Clients -> Seq(FrameSet)]
      /\ \A j \in Clients \ {k} : wire'[j] = wire[j] /\ host'[j] = host[j]
      /\ host'[k] = "closed"
  BY RejectStream
<1>2. DataOK'
  <2>1. batch' \in [Clients -> Seq(ImageSet)]
    BY EmptySeq DEF ClipInv, DataOK
  <2>2. host' \in [Clients -> {"none", "asked", "capturing", "sending", "closed"}]
    BY DEF ClipInv, DataOK, Reject
  <2>3. tried' \in [Clients -> Seq({"png", "jpeg", "tiff"})] /\ stale' \in [Clients -> BOOLEAN]
    BY EmptySeq DEF ClipInv, DataOK
  <2>4. QED
    BY <1>1, <2>1, <2>2, <2>3 DEF ClipInv, DataOK
<1>3. PermitInv'
  BY PermitReturned DEF ClipInv, Serving, Reject
<1>4. LocalOK(k)'
  BY <1>1, OffersGrow DEF ClipInv, LocalOK, AllMatch
<1>5. \A j \in Clients \ {k} : batch'[j] = batch[j] /\ stale'[j] = stale[j]
  BY DEF ClipInv, DataOK
<1>6. \A j \in Clients \ {k} : LocalOK(j)'
  BY <1>1, <1>5, OthersFrame
<1>7. QED
  BY <1>2, <1>3, <1>4, <1>6 DEF ClipInv

\* A successful capture starts a stream: its images are a selection.
LEMMA CapturedPreserves ==
  ASSUME ClipInv, NEW k \in Clients, host[k] = "capturing", NEW images \in Seq(ImageSet),
         Selected(images, k)', Len(images) \in 1..MaxBatchImages, Captured(k, images),
         rendered' \in [Clients -> BOOLEAN], \A j \in Clients : rendered[j] => rendered'[j],
         UNCHANGED <<fixed, clip, seen, clientVars, faults>>
  PROVE  ClipInv'
<1> USE DEF Captured, HelperGone, fixed, clientVars
<1> DEFINE frame == [type |-> "batch", count |-> Len(images)]
<1>0. /\ images \in Seq(ImageSet) /\ Len(images) \in Nat
      /\ frame \in FrameSet /\ MaxBatchImages \in Nat
      /\ wire \in [Clients -> Seq(FrameSet)] /\ host'[k] = "sending" /\ batch'[k] = images
  <2>1. /\ MaxBatchImages \in Nat /\ wire \in [Clients -> Seq(FrameSet)]
        /\ host'[k] = "sending" /\ batch'[k] = images
    BY ClipFacts DEF ClipInv, DataOK
  <2>2. images \in Seq(ImageSet) /\ Len(images) \in Nat
    OBVIOUS
  <2>3. frame \in FrameSet
    BY <2>2 DEF FrameSet
  <2>4. QED
    BY <2>1, <2>2, <2>3
<1>1. wire' \in [Clients -> Seq(FrameSet)]
  BY <1>0
<1>2. DataOK'
  <2>1. tried' \in [Clients -> Seq({"png", "jpeg", "tiff"})] /\ stale' \in [Clients -> BOOLEAN]
    BY EmptySeq DEF ClipInv, DataOK
  <2>2. QED
    BY <1>0, <1>1, <2>1 DEF ClipInv, DataOK
<1>3. PermitInv'
  <2>1. \A j \in Clients : Serving(j)' <=> Serving(j)
    BY DEF Serving, ClipInv, DataOK
  <2>2. QED
    BY <2>1, PermitSame DEF ClipInv
<1>4. ASSUME StreamOK(k) PROVE StreamOK(k)'
  <2>1. Quiet(k) /\ wire[k] = <<>>
    BY <1>4 DEF StreamOK, Stream, Quiet
  <2>2. /\ Len(wire'[k]) = Header(images)
        /\ \A i \in 1..Header(images) : wire'[k][i] = FrameOf(images, i)
    <3>1. CASE Len(images) > 1
      <4>1. wire'[k] = <<frame>>
        BY <1>0, <2>1, <3>1
      <4>2. Header(images) = 1 /\ FrameOf(images, 1) = frame
        BY <3>1 DEF Header, FrameOf
      <4>3. \A i \in 1..1 : i = 1
        OBVIOUS
      <4> HIDE DEF frame
      <4>4. Len(<<frame>>) = 1 /\ <<frame>>[1] = frame
        OBVIOUS
      <4>5. QED
        BY <4>1, <4>2, <4>3, <4>4
    <3>2. CASE ~(Len(images) > 1)
      <4>1. wire'[k] = <<>>
        BY <1>0, <2>1, <3>2
      <4>2. QED
        BY <3>2, <4>1 DEF Header
    <3>3. QED
      BY <3>1, <3>2
  <2>3. Header(images) \in 0..1
    BY DEF Header
  <2>4. Len(got'[k]) = 0 /\ count'[k] = 0
    BY <2>1 DEF Quiet
  <2>5. Stream(k, images, 0, Header(images))'
    BY <1>0, <2>2, <2>3, <2>4 DEF Stream, AllMatch, Header, FrameOf
  <2>6. Header(images) \in 0..(MaxBatchImages + 1) /\ 0 \in 0..Header(images) /\ images \in Offers(k)'
    BY <1>0, <2>3 DEF Offers
  <2>7. QED
    BY <2>5, <2>6 DEF StreamOK
<1>5. LocalOK(k)'
  BY <1>0, <1>4, OffersGrow DEF ClipInv, LocalOK, AllMatch
<1>6. \A j \in Clients \ {k} : LocalOK(j)'
  BY <1>0, OthersFrame DEF ClipInv, DataOK
<1>7. QED
  BY <1>2, <1>3, <1>5, <1>6 DEF ClipInv

\* A list that is cut short is of a selection that was replaced.
LEMMA ListingCutPreserves ==
  ASSUME ClipInv, NEW k \in Clients, ListingCut(k)
  PROVE  ClipInv'
<1> USE DEF ListingCut, fixed, clientVars
<1>1. Front(batch[k]) \in Seq(ImageSet)
  <2>1. batch[k] \in Seq(ImageSet) /\ batch[k] # <<>>
    BY DEF ClipInv, DataOK
  <2>2. QED
    BY <2>1 DEF Front
<1>2. DataOK'
  BY <1>1 DEF ClipInv, DataOK
<1>3. PermitInv'
  BY PermitSame DEF ClipInv, Serving
<1>4. StreamOK(k) => StreamOK(k)'
  <2>1. StreamOK(k) => Quiet(k)
    BY DEF StreamOK, Stream
  <2>2. Quiet(k) => Quiet(k)'
    BY DEF Quiet
  <2>3. QED
    BY <2>1, <2>2 DEF StreamOK
<1>5. LocalOK(k)'
  BY <1>4, OffersGrow DEF ClipInv, LocalOK, AllMatch
<1>6. \A j \in Clients \ {k} : LocalOK(j)'
  BY OthersFrame DEF ClipInv, DataOK
<1>7. QED
  BY <1>2, <1>3, <1>5, <1>6 DEF ClipInv

LEMMA MacCapturePreserves ==
  ASSUME ClipInv, NEW k \in Clients, MacCapture(k)
  PROVE  ClipInv'
<1>1. /\ host[k] = "capturing" /\ batch[k] # <<>> /\ faults' \in 0..MaxFaults
      /\ rendered' = rendered /\ rendered \in [Clients -> BOOLEAN]
  BY DEF MacCapture, ClipInv, DataOK
<1>2. CASE Within(batch[k]) /\ ~stale[k] /\ Captured(k, batch[k])
  <2>1. batch[k] \in Offers(k)
    BY <1>1, <1>2 DEF ClipInv, LocalOK
  <2>2. batch[k] \in Seq(ImageSet) /\ Selected(batch[k], k)
    BY <2>1 DEF Offers
  <2>3. ASSUME NEW S, Selected(S, k) PROVE Selected(S, k)'
    BY <1>1, <2>3 DEF MacCapture, Selected, Whole
  <2>4. \E S : S = batch[k] /\ Selected(S, k)'
    BY <2>2, <2>3
  <2>5. PICK S : S = batch[k] /\ Selected(S, k)'
    BY <2>4
  <2>6. QED
    BY <1>1, <1>2, <2>2, <2>5, CapturedPreserves DEF MacCapture, Within
<1>3. CASE GiveUp(k)
  BY <1>1, <1>3, GiveUpPreserves DEF MacCapture
<1>4. QED
  BY <1>2, <1>3 DEF MacCapture

\* One picture, delivered as it is or as a PNG.
LEMMA DeliverPreserves ==
  ASSUME ClipInv, NEW k \in Clients, host[k] = "capturing", NEW image \in ImageSet, Deliver(k, image),
         Selected(<<image>>, k)',
         image.format = "tiff" => \A n \in Nat \ {0} : Selected(<<[format |-> "png", size |-> n]>>, k)',
         rendered' \in [Clients -> BOOLEAN], \A j \in Clients : rendered[j] => rendered'[j],
         UNCHANGED <<fixed, clip, seen, clientVars, faults>>
  PROVE  ClipInv'
<1>1. faults' \in 0..MaxFaults /\ 1 \in 1..MaxBatchImages
  BY ClipboardAssumption DEF ClipInv, DataOK
<1>2. CASE GiveUp(k)
  BY <1>1, <1>2, GiveUpPreserves
<1>3. ASSUME NEW x \in ImageSet, Selected(<<x>>, k)', Captured(k, <<x>>) PROVE ClipInv'
  <2>1. <<x>> \in Seq(ImageSet) /\ Len(<<x>>) = 1
    OBVIOUS
  <2>2. QED
    BY <1>1, <1>3, <2>1, CapturedPreserves
<1>4. CASE image.format = "tiff" /\ \E n \in 1..MaxImageBytes : Captured(k, <<[format |-> "png", size |-> n]>>)
  <2>1. PICK n \in 1..MaxImageBytes : Captured(k, <<[format |-> "png", size |-> n]>>)
    BY <1>4
  <2>2. n \in Nat \ {0} /\ [format |-> "png", size |-> n] \in ImageSet
    BY <2>1, ClipboardAssumption DEF ImageSet
  <2>3. QED
    BY <1>3, <1>4, <2>1, <2>2
<1>5. QED
  BY <1>2, <1>3, <1>4 DEF Deliver

LEMMA PictureCapturePreserves ==
  ASSUME ClipInv, NEW k \in Clients, PictureCapture(k)
  PROVE  ClipInv'
<1>1. /\ host[k] = "capturing" /\ faults' = faults /\ faults' \in 0..MaxFaults
      /\ UNCHANGED <<fixed, clip, seen, clientVars>>
      /\ rendered \in [Clients -> BOOLEAN] /\ DataOK
  BY DEF PictureCapture, ClipInv, DataOK
<1>2. CASE GiveUp(k) /\ rendered' = rendered
  BY <1>1, <1>2, GiveUpPreserves
<1>3. CASE /\ tried[k] # <<>> /\ tried' = [tried EXCEPT ![k] = Tail(@)]
           /\ UNCHANGED <<permit, host, stale, rendered, batch, wire>>
  <2> USE <1>1, <1>3 DEF fixed, clientVars
  <2>1. DataOK'
    <3>1. tried' \in [Clients -> Seq({"png", "jpeg", "tiff"})]
      BY DEF DataOK
    <3>2. QED
      BY <3>1 DEF DataOK
  <2>2. PermitInv'
    BY PermitSame DEF ClipInv, Serving
  <2>3. StreamOK(k) => StreamOK(k)'
    BY StreamFrame
  <2>4. LocalOK(k)'
    BY <2>3, OffersGrow DEF ClipInv, LocalOK, AllMatch
  <2>5. \A j \in Clients \ {k} : LocalOK(j)'
    BY OthersFrame
  <2>6. QED
    BY <2>1, <2>2, <2>4, <2>5 DEF ClipInv
<1>4. ASSUME tried[k] # <<>>, rendered' = rendered,
             NEW i \in Offered(Head(tried[k])), Deliver(k, clip.images[i])
      PROVE  ClipInv'
  <2>1. clip \in seen /\ ~clip.files /\ i \in DOMAIN clip.images /\ clip.images \in Seq(ImageSet)
    BY <1>1, <1>4, ClipFacts DEF Offered
  <2>2. PICK image : image = clip.images[i]
    OBVIOUS
  <2>3. image \in ImageSet /\ Deliver(k, image)
    BY <1>4, <2>1, <2>2
  <2>4. clip' \in seen' /\ ~clip'.files /\ i \in DOMAIN clip'.images /\ image = clip'.images[i]
    BY <1>1, <2>1, <2>2
  <2>5. Selected(<<image>>, k)'
    <3>1. Whole(<<image>>, clip)'
      BY <2>4 DEF Whole
    <3>2. QED
      BY <2>4, <3>1 DEF Selected
  <2>6. ASSUME image.format = "tiff", NEW n \in Nat \ {0}
        PROVE  Selected(<<[format |-> "png", size |-> n]>>, k)'
    <3>1. Whole(<<[format |-> "png", size |-> n]>>, clip)'
      BY <2>4, <2>6 DEF Whole
    <3>2. QED
      BY <2>4, <3>1 DEF Selected
  <2>7. rendered' \in [Clients -> BOOLEAN] /\ \A j \in Clients : rendered[j] => rendered'[j]
    BY <1>1, <1>4
  <2>8. QED
    BY <1>1, <2>3, <2>5, <2>6, <2>7, DeliverPreserves
<1>5. CASE /\ tried[k] # <<>> /\ rendered' = [rendered EXCEPT ![k] = TRUE]
           /\ Deliver(k, [format |-> Head(tried[k]), size |-> 1])
  <2>1. PICK image : image = [format |-> Head(tried[k]), size |-> 1]
    OBVIOUS
  <2>2. image \in ImageSet /\ Deliver(k, image)
    <3>1. Head(tried[k]) \in {"png", "jpeg", "tiff"}
      BY <1>1, <1>5 DEF DataOK
    <3>2. QED
      BY <1>5, <2>1, <3>1 DEF ImageSet
  <2>3. rendered'[k] /\ rendered' \in [Clients -> BOOLEAN] /\ \A j \in Clients : rendered[j] => rendered'[j]
    BY <1>1, <1>5
  <2>4. \A x : Selected(<<x>>, k)'
    BY <2>3 DEF Selected
  <2>5. QED
    BY <1>1, <2>2, <2>3, <2>4, DeliverPreserves
<1>6. QED
  BY <1>2, <1>3, <1>4, <1>5 DEF PictureCapture

LEMMA CaptureFailsPreserves ==
  ASSUME ClipInv, NEW k \in Clients, CaptureFails(k)
  PROVE  ClipInv'
<1>1. faults' \in 0..MaxFaults /\ rendered \in [Clients -> BOOLEAN] /\ rendered' = rendered
  BY ClipboardAssumption DEF CaptureFails, Fault, ClipInv, DataOK
<1>2. QED
  BY <1>1, GiveUpPreserves DEF CaptureFails

\* The next image of the selection goes from batch to wire; with the last one
\* the connection is closed and the permit dropped.
LEMMA SendImagePreserves ==
  ASSUME ClipInv, NEW k \in Clients, SendImage(k)
  PROVE  ClipInv'
<1> USE DEF SendImage, Put, fixed, clientVars
<1> DEFINE frame == [type |-> "image", image |-> Head(batch[k])]
<1>0. /\ batch[k] \in Seq(ImageSet) /\ Len(batch[k]) \in 1..MaxBatchImages /\ batch[k] # <<>>
      /\ MaxBatchImages \in Nat /\ wire \in [Clients -> Seq(FrameSet)] /\ batch \in [Clients -> Seq(ImageSet)]
      /\ DOMAIN host = Clients
  <2>1. Len(batch[k]) \in 1..MaxBatchImages
    BY DEF ClipInv, LocalOK
  <2>2. batch[k] \in Seq(ImageSet) /\ MaxBatchImages \in Nat
    BY ClipFacts DEF ClipInv
  <2>3. batch[k] # <<>>
    BY <2>1, <2>2
  <2>4. QED
    BY <2>1, <2>2, <2>3 DEF ClipInv, DataOK
<1>1. /\ Head(batch[k]) \in ImageSet /\ Tail(batch[k]) \in Seq(ImageSet)
      /\ Len(Tail(batch[k])) = Len(batch[k]) - 1 /\ Head(batch[k]) = batch[k][1]
      /\ \A i \in 1..Len(Tail(batch[k])) : Tail(batch[k])[i] = batch[k][i + 1]
  BY <1>0, HeadTailProperties
<1>2. frame \in FrameSet
  BY <1>1 DEF FrameSet
<1>3. /\ wire'[k] = Append(wire[k], frame) /\ wire' \in [Clients -> Seq(FrameSet)]
      /\ batch'[k] = Tail(batch[k]) /\ batch' \in [Clients -> Seq(ImageSet)]
  BY <1>0, <1>1, <1>2
<1>4. \/ Len(batch[k]) = 1 /\ host'[k] = "closed" /\ host' = [host EXCEPT ![k] = "closed"] /\ permit' = 1
      \/ Len(batch[k]) # 1 /\ host' = host /\ permit' = permit
  BY <1>0
<1>5. DataOK'
  <2>1. permit' \in 0..1 /\ host' \in [Clients -> {"none", "asked", "capturing", "sending", "closed"}]
    <3> HIDE DEF SendImage
    <3>1. permit \in 0..1 /\ host \in [Clients -> {"none", "asked", "capturing", "sending", "closed"}]
      BY DEF ClipInv, DataOK
    <3>2. CASE host' = host /\ permit' = permit
      BY <3>1, <3>2
    <3>3. CASE host' = [host EXCEPT ![k] = "closed"] /\ permit' = 1
      BY <3>1, <3>3
    <3>4. QED
      BY <1>4, <3>2, <3>3
  <2> HIDE DEF SendImage
  <2>2. UNCHANGED <<os, clip, seen, want, tried, stale, rendered, client, count, got, kept, faults>>
    BY DEF SendImage
  <2>3. QED
    BY <1>3, <2>1, <2>2 DEF ClipInv, DataOK
<1>6. PermitInv'
  <2>1. CASE host' = host /\ permit' = permit
    BY <2>1, PermitSame DEF ClipInv, Serving
  <2>2. CASE host' = [host EXCEPT ![k] = "closed"] /\ permit' = 1
    BY <2>2, PermitReturned DEF ClipInv, Serving
  <2>3. QED
    BY <1>4, <2>1, <2>2
<1>7. ASSUME StreamOK(k) PROVE StreamOK(k)'
  <2>1. ~Quiet(k) /\ UNCHANGED <<seen, want, got, count>> /\ host[k] = "sending"
    BY DEF Quiet
  <2> HIDE DEF SendImage, Put, fixed, clientVars
  <2>a. PICK S \in Offers(k), s \in 0..(MaxBatchImages + 1) : \E r \in 0..s : Stream(k, S, r, s)
    BY <1>7, <2>1 DEF StreamOK
  <2>2. PICK r \in 0..s : Stream(k, S, r, s)
    BY <2>a
  <2>3. /\ Len(S) \in 1..MaxBatchImages /\ Header(S) \in 0..1
        /\ s \in Header(S)..(Header(S) + Len(S)) /\ r \in 0..s
        /\ Len(batch[k]) = Header(S) + Len(S) - s
        /\ batch[k][1] = S[s - Header(S) + 1]
        /\ s \in Nat /\ r \in Nat /\ Len(S) \in Nat /\ Len(batch[k]) \in Nat
    BY <1>0, <2>1, <2>2 DEF Stream, Header
  <2>4. s + 1 \in Header(S)..(Header(S) + Len(S)) /\ s + 1 \in 0..(MaxBatchImages + 1) /\ r \in 0..(s + 1)
    BY <1>0, <2>3
  <2>5. frame = FrameOf(S, s + 1)
    <3>0. s + 1 > Header(S)
      BY <2>3
    <3>1. ~(s + 1 <= Header(S)) /\ (s + 1) - Header(S) = s - Header(S) + 1
      BY <2>3, <3>0
    <3>2. QED
      BY <1>1, <2>3, <3>1 DEF FrameOf
  <2>6. /\ Len(wire'[k]) = (s + 1) - r
        /\ \A i \in 1..((s + 1) - r) : wire'[k][i] = FrameOf(S, r + i)
    <3> HIDE DEF frame
    <3>1. Len(wire[k]) = s - r /\ (\A i \in 1..(s - r) : wire[k][i] = FrameOf(S, r + i)) /\ wire[k] \in Seq(FrameSet)
      BY <1>0, <2>2 DEF Stream
    <3>2. Len(wire'[k]) = (s - r) + 1
      BY <1>2, <1>3, <3>1, AppendProperties
    <3>3. ASSUME NEW i \in 1..((s + 1) - r) PROVE wire'[k][i] = FrameOf(S, r + i)
      <4>1. CASE i \in 1..(s - r)
        BY <1>2, <1>3, <3>1, <4>1
      <4>2. CASE i = (s - r) + 1
        <5>1. wire'[k][i] = frame
          BY <1>2, <1>3, <3>1, <4>2, <2>3, SMTT(30)
        <5>2. r + i = s + 1
          BY <4>2, <2>3
        <5>3. QED
          BY <2>5, <5>1, <5>2
      <4>3. QED
        BY <2>3, <4>1, <4>2
    <3>4. QED
      BY <2>3, <3>2, <3>3
  <2>7. \A i \in 1..Len(batch'[k]) : batch'[k][i] = S[(s + 1) - Header(S) + i]
    <3>1. TAKE i \in 1..Len(batch'[k])
    <3>2. batch'[k][i] = batch[k][i + 1] /\ i + 1 \in 1..Len(batch[k]) /\ i \in Nat
      BY <1>0, <1>1, <1>3
    <3>3. batch[k][i + 1] = S[s - Header(S) + (i + 1)]
      BY <2>1, <2>2, <3>2 DEF Stream
    <3>4. s - Header(S) + (i + 1) = (s + 1) - Header(S) + i
      <4>1. Header(S) \in Int /\ s \in Int /\ i \in Int
        BY <2>3, <3>2
      <4>2. QED
        BY <4>1
    <3>5. QED
      BY <3>2, <3>3, <3>4
  <2>8. Len(batch'[k]) = Header(S) + Len(S) - (s + 1)
    BY <1>0, <1>1, <1>3, <2>3
  <2>9. Stream(k, S, r, s + 1)'
    <3>1. /\ r < Header(S) + Len(S) /\ count'[k] = IF r = 0 THEN 0 ELSE Len(S)
          /\ Len(got'[k]) = IF r <= Header(S) THEN 0 ELSE r - Header(S)
          /\ (\A i \in 1..Len(got'[k]) : got'[k][i] = S[i])
          /\ AllMatch(got[k], k)'
      BY <2>1, <2>2 DEF Stream, AllMatch
    <3>2. host'[k] = "closed" \/ host'[k] = "sending"
      BY <1>4, <2>1
    <3>3. QED
      BY <2>3, <2>4, <2>6, <2>7, <2>8, <3>1, <3>2 DEF Stream, Header, FrameOf
  <2>10. QED
    BY <2>1, <2>2, <2>4, <2>9, OffersGrow DEF StreamOK, SendImage
<1>8. LocalOK(k)'
  <2>1. LocalOK(k)
    BY DEF ClipInv
  <2>2. host'[k] = "sending" => Len(batch'[k]) \in 1..MaxBatchImages
    BY <1>0, <1>1, <1>3, <1>4
  <2>3. QED
    BY <2>1, <2>2, <1>4, <1>7, OffersGrow DEF LocalOK, AllMatch
<1>9. \A j \in Clients \ {k} : LocalOK(j)'
  BY <1>0, <1>4, OthersFrame
<1>10. QED
  BY <1>5, <1>6, <1>8, <1>9 DEF ClipInv

\* A transfer that is dropped leaves what was sent before.
LEMMA AbandonPreserves ==
  ASSUME ClipInv, NEW k \in Clients, Abandon(k)
  PROVE  ClipInv'
<1> USE DEF Abandon, HelperGone, fixed, clientVars
<1>0. /\ faults' \in 0..MaxFaults /\ host'[k] = "closed" /\ batch \in [Clients -> Seq(ImageSet)]
      /\ host' \in [Clients -> {"none", "asked", "capturing", "sending", "closed"}]
      /\ batch' \in [Clients -> Seq(ImageSet)]
      /\ tried' \in [Clients -> Seq({"png", "jpeg", "tiff"})] /\ stale' \in [Clients -> BOOLEAN]
  <2>1. faults' \in 0..MaxFaults
    BY ClipboardAssumption DEF Fault, ClipInv, DataOK
  <2>2. QED
    BY <2>1, EmptySeq DEF ClipInv, DataOK
<1>1. DataOK'
  BY <1>0 DEF ClipInv, DataOK
<1>2. PermitInv'
  BY PermitReturned DEF ClipInv
<1>3. ASSUME StreamOK(k) PROVE StreamOK(k)'
  <2>1. CASE Quiet(k)
    BY <1>0, <2>1 DEF Quiet, StreamOK, Serving
  <2>2. ASSUME NEW S \in Offers(k), NEW s \in 0..(MaxBatchImages + 1), NEW r \in 0..s, Stream(k, S, r, s)
        PROVE  StreamOK(k)'
    <3>1. Stream(k, S, r, s)'
      BY <1>0, <2>2 DEF Stream, AllMatch
    <3>2. QED
      BY <2>2, <3>1, OffersGrow DEF StreamOK
  <2>3. QED
    BY <1>3, <2>1, <2>2 DEF StreamOK
<1>4. LocalOK(k)'
  BY <1>0, <1>3, OffersGrow DEF ClipInv, LocalOK, AllMatch, Serving
<1>5. \A j \in Clients \ {k} : LocalOK(j)'
  BY OthersFrame DEF ClipInv, DataOK
<1>6. QED
  BY <1>1, <1>2, <1>4, <1>5 DEF ClipInv
------------------------------------------------------------------------------
(* The client *)

\* A client that leaves, in any way but with images to save, owes nothing.
LEMMA LeavePreserves ==
  ASSUME ClipInv, NEW k \in Clients, NEW how \in {"pasting"} \cup Ends, Leave(k, how), faults' \in 0..MaxFaults,
         UNCHANGED <<fixed, clip, seen, hostVars, kept>>,
         got' = got, wire' \in [Clients -> Seq(FrameSet)], count' \in [Clients -> Nat],
         count'[k] <= MaxBatchImages,
         \A j \in Clients \ {k} : wire'[j] = wire[j] /\ count'[j] = count[j]
  PROVE  ClipInv'
<1> USE DEF Leave, fixed, hostVars
<1>1. client'[k] = how /\ how \notin {"idle", "waiting", "saving"} /\ DOMAIN client = Clients
  BY DEF ClipInv, DataOK, Ends
<1>2. DataOK'
  BY <1>1 DEF ClipInv, DataOK
<1>3. PermitInv'
  BY PermitSame DEF ClipInv, Serving
<1>4. LocalOK(k)'
  BY <1>1, OffersGrow DEF ClipInv, LocalOK, AllMatch
<1>5. \A j \in Clients \ {k} : LocalOK(j)'
  BY <1>1, OthersFrame
<1>6. QED
  BY <1>2, <1>3, <1>4, <1>5 DEF ClipInv

LEMMA AskPreserves ==
  ASSUME ClipInv, NEW k \in Clients, Ask(k)
  PROVE  ClipInv'
<1> USE DEF Ask, fixed
<1>1. DataOK' /\ client'[k] = "waiting" /\ host'[k] = "asked" /\ host[k] = "none"
  BY DEF ClipInv, DataOK, LocalOK
<1>2. PermitInv'
  <2>1. \A j \in Clients : Serving(j)' <=> Serving(j)
    BY <1>1 DEF Serving, ClipInv, DataOK
  <2>2. QED
    BY <2>1, PermitSame DEF ClipInv
<1>3. StreamOK(k)'
  <2>1. StreamOK(k)
    BY DEF ClipInv, LocalOK
  <2>2. Quiet(k)
    BY <1>1, <2>1 DEF StreamOK, Stream
  <2>3. QED
    BY <1>1, <2>2 DEF Quiet, StreamOK
<1>4. LocalOK(k)'
  BY <1>1, <1>3, OffersGrow DEF ClipInv, LocalOK, AllMatch
<1>5. \A j \in Clients \ {k} : LocalOK(j)'
  BY OthersFrame DEF ClipInv, DataOK
<1>6. QED
  BY <1>1, <1>2, <1>4, <1>5 DEF ClipInv

\* The frame a client takes is the next of its selection.
LEMMA NextFrame ==
  ASSUME DataOK, NEW k \in Clients, wire[k] # <<>>,
         NEW S \in Offers(k), NEW s \in Nat, NEW r \in Nat, Stream(k, S, r, s)
  PROVE  /\ Head(wire[k]) = FrameOf(S, r + 1) /\ r < s
         /\ Len(Tail(wire[k])) = s - (r + 1)
         /\ \A i \in 1..(s - (r + 1)) : Tail(wire[k])[i] = FrameOf(S, (r + 1) + i)
<1>1. wire[k] \in Seq(FrameSet)
  BY ClipFacts
<1>2. Len(wire[k]) = s - r /\ \A i \in 1..(s - r) : wire[k][i] = FrameOf(S, r + i)
  BY DEF Stream
<1>3. /\ Head(wire[k]) = wire[k][1] /\ Len(wire[k]) >= 1
      /\ Len(Tail(wire[k])) = Len(wire[k]) - 1
      /\ \A i \in 1..Len(Tail(wire[k])) : Tail(wire[k])[i] = wire[k][i + 1]
  BY <1>1, HeadTailProperties
<1>4. r < s /\ Head(wire[k]) = FrameOf(S, r + 1) /\ Len(Tail(wire[k])) = s - (r + 1)
  BY <1>2, <1>3
<1>5. ASSUME NEW i \in 1..(s - (r + 1)) PROVE Tail(wire[k])[i] = FrameOf(S, (r + 1) + i)
  <2>1. i + 1 \in 1..(s - r) /\ r + (i + 1) = (r + 1) + i /\ i \in 1..Len(Tail(wire[k]))
    BY <1>4
  <2>2. Tail(wire[k])[i] = wire[k][i + 1] /\ wire[k][i + 1] = FrameOf(S, r + (i + 1))
    BY <1>2, <1>3, <2>1
  <2>3. QED
    BY <2>1, <2>2
<1>6. QED
  BY <1>4, <1>5

\* A frame received on k's stream that keeps the client waiting: the count, or
\* an image that is not the last.
LEMMA StreamReceives ==
  ASSUME DataOK, NEW k \in Clients, wire[k] # <<>>,
         NEW S \in Offers(k), NEW s \in 0..(MaxBatchImages + 1), NEW r \in 0..s, Stream(k, S, r, s),
         UNCHANGED <<seen, rendered, want, host, batch>>,
         wire'[k] = Tail(wire[k]), count'[k] = Len(S),
         r + 1 < Header(S) + Len(S),
         Len(got'[k]) = IF r + 1 <= Header(S) THEN 0 ELSE (r + 1) - Header(S),
         \A i \in 1..Len(got'[k]) : got'[k][i] = S[i],
         AllMatch(got[k], k)'
  PROVE  StreamOK(k)'
<1>0. s \in Nat /\ r \in Nat /\ MaxBatchImages \in Nat
  BY ClipboardAssumption
<1>1. /\ r < s /\ Len(wire'[k]) = s - (r + 1)
      /\ \A i \in 1..(s - (r + 1)) : wire'[k][i] = FrameOf(S, (r + 1) + i)
  BY <1>0, NextFrame
<1>2. r + 1 \in 0..s /\ r + 1 # 0
  BY <1>0, <1>1
<1>3. /\ Len(S) \in 1..MaxBatchImages /\ s \in Header(S)..(Header(S) + Len(S))
      /\ \/ host[k] = "closed"
         \/ /\ host[k] = "sending"
            /\ Len(batch[k]) = Header(S) + Len(S) - s
            /\ \A i \in 1..Len(batch[k]) : batch[k][i] = S[s - Header(S) + i]
  BY DEF Stream
<1>4. Stream(k, S, r + 1, s)'
  BY <1>1, <1>2, <1>3 DEF Stream, Header, FrameOf
<1>5. QED
  BY <1>2, <1>4, OffersGrow DEF StreamOK

\* receive_images: after the last image, got is the selection.
LEMMA ReceivePreserves ==
  ASSUME ClipInv, NEW k \in Clients, Receive(k)
  PROVE  ClipInv'
<1> DEFINE f == Head(wire[k])
           images == Append(got[k], f.image)
           valid == f.image.size > 0 /\ f.image.size <= MaxImageBytes /\ Total(images) <= MaxBatchBytes
                    /\ Matches(f.image, want[k])
<1>0. /\ client[k] = "waiting" /\ wire[k] # <<>> /\ StreamOK(k) /\ LocalOK(k) /\ DataOK
      /\ UNCHANGED <<fixed, clip, seen, hostVars, kept, faults>> /\ faults' \in 0..MaxFaults
  BY DEF Receive, ClipInv, LocalOK, DataOK
<1>1. /\ wire'[k] = Tail(wire[k]) /\ wire' \in [Clients -> Seq(FrameSet)]
      /\ \A j \in Clients \ {k} : wire'[j] = wire[j]
  <2>1. wire[k] \in Seq(FrameSet) /\ Tail(wire[k]) \in Seq(FrameSet)
    BY <1>0, ClipFacts, HeadTailProperties
  <2>2. QED
    BY <1>0, <2>1 DEF Receive, DataOK
<1>2. /\ count' = [count EXCEPT ![k] = Expected(k, f)]
      /\ f.type = "error" => Leave(k, "refused") /\ UNCHANGED got
      /\ f.type = "batch" /\ count[k] = 0 =>
           /\ UNCHANGED got
           /\ IF f.count \in 1..MaxBatchImages THEN UNCHANGED client ELSE Leave(k, "invalid")
      /\ f.type = "image" /\ valid =>
           /\ got' = [got EXCEPT ![k] = images]
           /\ IF Len(images) = Expected(k, f) THEN Leave(k, "saving") ELSE UNCHANGED client
      /\ f.type = "image" /\ ~valid => Leave(k, "invalid") /\ UNCHANGED got
  BY DEF Receive
<1>3. CASE Quiet(k)
  <2>1. wire[k] = <<ErrorFrame>> /\ count[k] = 0
    BY <1>0, <1>3 DEF Quiet
  <2>2. f = ErrorFrame
    BY <2>1
  <2>3. f.type = "error"
    BY <2>2 DEF ErrorFrame
  <2> HIDE DEF f
  <2>4. Leave(k, "refused") /\ got' = got /\ count' = [count EXCEPT ![k] = 1]
    BY <1>2, <2>1, <2>3 DEF Expected
  <2>5. count' \in [Clients -> Nat] /\ count'[k] <= MaxBatchImages /\ \A j \in Clients \ {k} : count'[j] = count[j]
    BY <1>0, <2>4, ClipboardAssumption DEF DataOK
  <2>6. QED
    BY <1>0, <1>1, <2>4, <2>5, LeavePreserves DEF Ends
<1>4. ASSUME NEW S \in Offers(k), NEW s \in 0..(MaxBatchImages + 1), NEW r \in 0..s, Stream(k, S, r, s)
      PROVE  ClipInv'
  <2>0. /\ s \in Nat /\ r \in Nat /\ MaxBatchImages \in Nat /\ S \in Seq(ImageSet)
        /\ got[k] \in Seq(ImageSet) /\ Len(S) \in Nat
    BY <1>0, ClipboardAssumption, ClipFacts
  <2>1. f = FrameOf(S, r + 1) /\ r < s
    BY <1>0, <1>4, <2>0, NextFrame
  <2>2. /\ Len(S) \in 1..MaxBatchImages /\ Header(S) \in 0..1 /\ (Header(S) = 0 <=> Len(S) = 1)
        /\ s \in Header(S)..(Header(S) + Len(S)) /\ r < Header(S) + Len(S)
        /\ count[k] = IF r = 0 THEN 0 ELSE Len(S)
        /\ Len(got[k]) = IF r <= Header(S) THEN 0 ELSE r - Header(S)
        /\ \A i \in 1..Len(got[k]) : got[k][i] = S[i]
        /\ AllMatch(got[k], k)
    <3>1. Len(S) \in 1..MaxBatchImages
      BY <1>4 DEF Stream
    <3>2. Header(S) \in 0..1 /\ (Header(S) = 0 <=> Len(S) = 1)
      BY <2>0, <3>1, HeaderFacts
    <3>3. QED
      BY <1>4, <3>1, <3>2 DEF Stream
  <2> HIDE DEF f
  <2>3. \/ f.type = "batch" /\ f.count = Len(S) /\ r = 0 /\ Header(S) = 1
        \/ f.type = "image" /\ f.image = S[r + 1 - Header(S)] /\ r >= Header(S)
    BY <2>0, <2>1, <2>2 DEF FrameOf
  <2>4. Expected(k, f) = Len(S) /\ count'[k] = Len(S)
    <3>1. Expected(k, f) = Len(S)
      BY <2>0, <2>2, <2>3 DEF Expected
    <3>2. QED
      BY <1>0, <1>2, <3>1 DEF DataOK
  <2>5. count' \in [Clients -> Nat] /\ count'[k] <= MaxBatchImages /\ \A j \in Clients \ {k} : count'[j] = count[j]
    BY <1>0, <1>2, <2>0, <2>2, <2>4 DEF DataOK
  <2>6. CASE f.type = "batch" /\ f.count = Len(S) /\ r = 0 /\ Header(S) = 1
    <3>1. got' = got /\ client' = client
      BY <1>2, <2>2, <2>6
    <3>2. StreamOK(k)'
      <4>1. UNCHANGED <<seen, rendered, want, host, batch>>
        BY <1>0 DEF fixed, hostVars
      <4>2. r + 1 < Header(S) + Len(S) /\ r + 1 <= Header(S) /\ Len(got'[k]) = 0
        BY <2>0, <2>2, <2>6, <3>1
      <4>3. AllMatch(got[k], k)' /\ \A i \in 1..Len(got'[k]) : got'[k][i] = S[i]
        BY <2>2, <3>1, <4>1 DEF AllMatch
      <4>4. QED
        BY <1>0, <1>1, <1>4, <2>4, <4>1, <4>2, <4>3, StreamReceives
    <3>3. QED
      <4>1. DataOK'
        BY <1>0, <1>1, <2>5, <3>1 DEF DataOK, fixed, hostVars
      <4>2. PermitInv'
        BY <1>0, PermitSame DEF ClipInv, Serving, hostVars
      <4>3. LocalOK(k)'
        BY <1>0, <2>5, <3>1, <3>2, OffersGrow DEF LocalOK, AllMatch, fixed, hostVars
      <4>4. \A j \in Clients \ {k} : LocalOK(j)'
        BY <1>0, <1>1, <2>5, <3>1, OthersFrame DEF fixed, hostVars
      <4>5. QED
        BY <4>1, <4>2, <4>3, <4>4 DEF ClipInv
  <2>7. CASE f.type = "image" /\ f.image = S[r + 1 - Header(S)] /\ r >= Header(S)
    <3> DEFINE n == r + 1 - Header(S)
    <3>1. n \in 1..Len(S) /\ Len(got[k]) = n - 1 /\ f.image \in ImageSet
      <4>1. n \in 1..Len(S) /\ Len(got[k]) = n - 1
        BY <2>0, <2>2, <2>7
      <4>2. QED
        BY <2>0, <2>7, <4>1
    <3>2. /\ images \in Seq(ImageSet) /\ Len(images) = n
          /\ \A i \in 1..n : images[i] = S[i]
      <4>1. images \in Seq(ImageSet) /\ Len(images) = n
        BY <2>0, <3>1, AppendProperties
      <4>2. \A i \in 1..(n - 1) : images[i] = S[i]
        BY <2>0, <2>2, <3>1, AppendProperties
      <4>3. images[n] = S[n]
        BY <2>0, <2>7, <3>1, AppendProperties
      <4>4. QED
        BY <3>1, <4>1, <4>2, <4>3
    <3>3. CASE ~valid
      <4>1. Leave(k, "invalid") /\ got' = got
        BY <1>2, <2>7, <3>3
      <4>2. QED
        BY <1>0, <1>1, <2>5, <4>1, LeavePreserves DEF Ends
    <3>4. CASE valid
      <4>1. /\ got' = [got EXCEPT ![k] = images]
            /\ IF n = Len(S) THEN Leave(k, "saving") ELSE UNCHANGED client
        BY <1>2, <2>4, <2>7, <3>2, <3>4
      <4>2. got'[k] = images /\ got' \in [Clients -> Seq(ImageSet)] /\ \A j \in Clients \ {k} : got'[j] = got[j]
        BY <1>0, <3>2, <4>1 DEF DataOK
      <4>3. AllMatch(got[k], k)'
        <5>1. \A i \in 1..n : Matches(images[i], want[k])
          <6>1. \A i \in 1..(n - 1) : Matches(S[i], want[k])
            BY <2>2, <3>1 DEF AllMatch
          <6>2. Matches(S[n], want[k])
            BY <2>7, <3>4
          <6>3. ASSUME NEW i \in 1..n PROVE Matches(images[i], want[k])
            <7>1. images[i] = S[i] /\ (i \in 1..(n - 1) \/ i = n)
              BY <3>1, <3>2
            <7>2. QED
              BY <6>1, <6>2, <7>1
          <6>4. QED
            BY <6>3
        <5>2. QED
          BY <1>0, <3>2, <4>2, <5>1 DEF AllMatch, fixed
      <4>4. /\ client'[k] \in {"waiting", "saving"} /\ DOMAIN client = Clients
            /\ client' \in [Clients -> {"idle", "waiting", "saving", "pasting"} \cup Ends]
            /\ \A j \in Clients \ {k} : client'[j] = client[j]
        BY <1>0, <4>1 DEF Leave, DataOK
      <4>5. ASSUME client'[k] = "waiting" PROVE StreamOK(k)'
        <5>1. n # Len(S)
          BY <1>0, <4>1, <4>5 DEF Leave, DataOK
        <5>2. UNCHANGED <<seen, rendered, want, host, batch>>
          BY <1>0 DEF fixed, hostVars
        <5>3. /\ r + 1 < Header(S) + Len(S) /\ ~(r + 1 <= Header(S))
              /\ Len(got'[k]) = (r + 1) - Header(S)
              /\ \A i \in 1..Len(got'[k]) : got'[k][i] = S[i]
          <6>1. n \in Int /\ n < Len(S) /\ Header(S) \in Int /\ n = (r + 1) - Header(S) /\ n >= 1
            BY <2>0, <2>2, <3>1, <5>1
          <6>2. r + 1 < Header(S) + Len(S) /\ ~(r + 1 <= Header(S))
            BY <2>0, <6>1
          <6>3. QED
            BY <3>2, <4>2, <6>1, <6>2
        <5>4. QED
          BY <1>0, <1>1, <1>4, <2>4, <4>3, <5>2, <5>3, StreamReceives
      <4>6. ASSUME client'[k] = "saving" PROVE got'[k] \in Offers(k)'
        <5>1. n = Len(S)
          BY <1>0, <4>1, <4>6
        <5>2. images = S
          BY <2>0, <3>2, <5>1, SeqEqual
        <5>3. Offers(k) \subseteq Offers(k)'
          BY <1>0, OffersGrow DEF hostVars
        <5>4. QED
          BY <4>2, <5>2, <5>3
      <4>7. QED
        <5>1. DataOK'
          BY <1>0, <1>1, <2>5, <4>2, <4>4 DEF DataOK, fixed, hostVars
        <5>2. PermitInv'
          BY <1>0, PermitSame DEF ClipInv, Serving, hostVars
        <5>3. LocalOK(k)'
          <6>1. Len(got'[k]) <= MaxBatchImages
            BY <2>0, <2>2, <3>1, <3>2, <4>2
          <6>0. Offers(k) \subseteq Offers(k)'
            BY <1>0, OffersGrow DEF hostVars
          <6>2. kept'[k] # <<>> => kept'[k] \in Offers(k)' /\ AllMatch(kept[k], k)'
            BY <1>0, <6>0 DEF LocalOK, AllMatch, fixed
          <6>3. /\ host'[k] = "capturing" /\ batch'[k] # <<>> /\ ~stale'[k] => batch'[k] \in Offers(k)'
                /\ host'[k] = "sending" => Len(batch'[k]) \in 1..MaxBatchImages
            BY <1>0, <6>0 DEF LocalOK, fixed, hostVars
          <6>4. QED
            BY <2>5, <4>3, <4>4, <4>5, <4>6, <6>1, <6>2, <6>3 DEF LocalOK
        <5>4. \A j \in Clients \ {k} : LocalOK(j)'
          BY <1>0, <1>1, <2>5, <4>2, <4>4, OthersFrame DEF fixed, hostVars
        <5>5. QED
          BY <5>1, <5>2, <5>3, <5>4 DEF ClipInv
    <3>5. QED
      BY <3>3, <3>4
  <2>8. QED
    BY <2>3, <2>6, <2>7
<1>5. QED
  BY <1>0, <1>3, <1>4 DEF StreamOK

\* save_images keeps all that was received, or nothing.
LEMMA SavePreserves ==
  ASSUME ClipInv, NEW k \in Clients, Save(k)
  PROVE  ClipInv'
<1> USE DEF Save
<1>1. CASE Fault /\ Leave(k, "failed") /\ UNCHANGED kept
  <2>1. faults' \in 0..MaxFaults
    BY <1>1, ClipboardAssumption DEF Fault, ClipInv, DataOK
  <2>2. count \in [Clients -> Nat] /\ count[k] <= MaxBatchImages /\ wire \in [Clients -> Seq(FrameSet)]
    BY DEF ClipInv, DataOK, LocalOK
  <2>3. QED
    BY <1>1, <2>1, <2>2, LeavePreserves DEF Ends
<1>2. CASE kept' = [kept EXCEPT ![k] = got[k]] /\ Leave(k, "pasting") /\ UNCHANGED faults
  <2> USE <1>2 DEF Leave, fixed, hostVars
  <2>1. DataOK' /\ client'[k] = "pasting" /\ kept'[k] = got[k]
    BY DEF ClipInv, DataOK
  <2>2. PermitInv'
    BY PermitSame DEF ClipInv, Serving
  <2>3. LocalOK(k)'
    BY <2>1, OffersGrow DEF ClipInv, LocalOK, AllMatch
  <2>4. \A j \in Clients \ {k} : LocalOK(j)'
    BY OthersFrame DEF ClipInv, DataOK
  <2>5. QED
    BY <2>1, <2>2, <2>3, <2>4 DEF ClipInv
<1>3. QED
  BY <1>1, <1>2

LEMMA EndingPreserves ==
  ASSUME ClipInv, NEW k \in Clients, AskRejected(k) \/ ReceiveFails(k) \/ Paste(k)
  PROVE  ClipInv'
<1>1. faults' \in 0..MaxFaults
  <2>1. faults \in 0..MaxFaults
    BY DEF ClipInv, DataOK
  <2>2. faults' = faults \/ (faults > 0 /\ faults' = faults - 1)
    BY DEF AskRejected, ReceiveFails, Paste, Fault
  <2>3. QED
    BY <2>1, <2>2, ClipboardAssumption
<1>2. count \in [Clients -> Nat] /\ count[k] <= MaxBatchImages /\ wire \in [Clients -> Seq(FrameSet)]
  BY DEF ClipInv, DataOK, LocalOK
<1>3. /\ \E how \in {"pasting"} \cup Ends : Leave(k, how)
      /\ UNCHANGED <<fixed, clip, seen, hostVars, kept, got, wire, count>>
  BY DEF AskRejected, ReceiveFails, Paste, Leave, Ends
<1>4. QED
  BY <1>1, <1>2, <1>3, LeavePreserves

\* A new selection joins those that were on the clipboard.
LEMMA CopyPreserves ==
  ASSUME ClipInv, NEW c \in Clips, Copy(c)
  PROVE  ClipInv'
<1> USE DEF Copy, fixed
<1>1. faults' \in 0..MaxFaults
  BY ClipboardAssumption DEF Fault, ClipInv, DataOK
<1>2. DataOK'
  BY <1>1 DEF ClipInv, DataOK
<1>3. PermitInv'
  BY PermitSame DEF ClipInv, Serving
<1>4. ASSUME NEW k \in Clients PROVE LocalOK(k)'
  <2>1. StreamOK(k) => StreamOK(k)'
    BY StreamFrame
  <2>2. stale'[k] = FALSE => stale[k] = FALSE
    BY DEF ClipInv, DataOK
  <2>3. QED
    BY <2>1, <2>2, OffersGrow DEF ClipInv, LocalOK, AllMatch
<1>5. QED
  BY <1>2, <1>3, <1>4 DEF ClipInv
------------------------------------------------------------------------------
LEMMA ClipInit == Init => ClipInv
<1> SUFFICES ASSUME Init PROVE ClipInv
  OBVIOUS
<1> USE DEF Init, None
<1>1. DataOK
  <2>1. clip \in seen /\ seen \subseteq Clips /\ faults \in 0..MaxFaults /\ permit \in 0..1
    BY ClipboardAssumption
  <2>2. QED
    BY <2>1, EmptySeq DEF DataOK
<1>2. PermitInv
  BY DEF PermitInv, Serving
<1>3. ASSUME NEW k \in Clients PROVE LocalOK(k)
  <2>1. Quiet(k)
    BY DEF Quiet
  <2>2. Len(got[k]) <= MaxBatchImages /\ count[k] <= MaxBatchImages
    BY ClipboardAssumption
  <2>3. QED
    BY <2>1, <2>2 DEF LocalOK, StreamOK
<1>4. QED
  BY <1>1, <1>2, <1>3 DEF ClipInv

LEMMA ClipStep == ClipInv /\ [Next]_vars => ClipInv'
<1> SUFFICES ASSUME ClipInv, [Next]_vars PROVE ClipInv'
  OBVIOUS
<1>1. ASSUME NEW k \in Clients, Serve(k) PROVE ClipInv'
  BY <1>1, RefusePreserves, StartCapturePreserves, ListingCutPreserves, MacCapturePreserves,
     PictureCapturePreserves, CaptureFailsPreserves, SendImagePreserves, AbandonPreserves DEF Serve
<1>2. ASSUME NEW k \in Clients, Client(k) PROVE ClipInv'
  BY <1>2, AskPreserves, ReceivePreserves, SavePreserves, EndingPreserves DEF Client
<1>3. ASSUME NEW c \in Clips, Copy(c) PROVE ClipInv'
  BY <1>3, CopyPreserves
<1>4. CASE UNCHANGED vars
  <2> USE <1>4 DEF vars
  <2>1. DataOK'
    BY DEF ClipInv, DataOK
  <2>2. PermitInv'
    BY PermitSame DEF ClipInv, Serving
  <2>3. ASSUME NEW k \in Clients PROVE LocalOK(k)'
    <3>1. StreamOK(k) => StreamOK(k)'
      BY StreamFrame
    <3>2. QED
      BY <3>1, OffersGrow DEF ClipInv, LocalOK, AllMatch
  <2>4. QED
    BY <2>1, <2>2, <2>3 DEF ClipInv
<1>5. QED
  BY <1>1, <1>2, <1>3, <1>4 DEF Next

LEMMA ClipInvariant == Spec => []ClipInv
BY ClipInit, ClipStep, PTL DEF Spec

\* The semaphore of ClipboardService: at most one transfer, and the permit is
\* free exactly when there is none, however the last one ended; client and
\* host keep to MAX_BATCH_IMAGES.
THEOREM PermitConservedHolds == Spec => []PermitConserved
<1>1. ClipInv => PermitConserved
  BY DEF ClipInv, DataOK, PermitInv, LocalOK, PermitConserved, TypeOK
<1>2. QED
  BY <1>1, ClipInvariant, PTL

\* What save_images leaves is one selection from its first image to its last,
\* or one representation of a picture, for any number of images, clients,
\* timeouts and changes of the clipboard - but for the picture that Finder
\* draws of files selected while the helper runs.
THEOREM WholeSelectionHolds == Spec => []WholeSelection
<1>1. ClipInv => WholeSelection
  <2>1. SUFFICES ASSUME ClipInv, NEW k \in Clients, kept[k] # <<>>
                 PROVE  Selected(kept[k], k) /\ \A i \in DOMAIN kept[k] : Matches(kept[k][i], want[k])
    BY DEF WholeSelection
  <2>2. Selected(kept[k], k) /\ AllMatch(kept[k], k)
    BY <2>1 DEF ClipInv, LocalOK, Offers
  <2>3. DOMAIN kept[k] = 1..Len(kept[k])
    BY <2>1, ClipFacts DEF ClipInv
  <2>4. QED
    BY <2>2, <2>3 DEF AllMatch
<1>2. QED
  BY <1>1, ClipInvariant, PTL
==============================================================================

----------------------------- MODULE Clipboard -----------------------------
(***************************************************************************)
(* Clipboard images (host/clipboard.rs, clipboard_capture.rs,              *)
(* clipboard_client.rs): `dbr paste` asks the host on a data connection of *)
(* its own, the host authenticates, takes the one transfer permit,         *)
(* captures the selection and streams it; the client checks, saves and     *)
(* pastes.  Several clients ask at once, the selection changes meanwhile,  *)
(* and both sides give up after thirty seconds.                            *)
(*                                                                         *)
(* An image is its format and its size; "other" is what matches no         *)
(* signature.  A selection is a list of copied files, or one picture in    *)
(* one or more representations.  On macOS one helper reads either kind, on *)
(* Linux a helper per format reads a picture.                              *)
(***************************************************************************)
EXTENDS Integers, Sequences, SequencesExt, FiniteSets

CONSTANTS
  Clients,        \* `dbr paste` commands
  Clips,          \* selections the user may copy
  MaxImageBytes,  \* MAX_IMAGE_BYTES
  MaxBatchBytes,  \* MAX_BATCH_BYTES
  MaxBatchImages, \* MAX_BATCH_IMAGES
  MaxFaults       \* bound on new selections, timeouts and full disks

ASSUME ClipboardAssumption ==
  /\ Clips \subseteq [files : BOOLEAN, images : Seq([format : {"png", "jpeg", "tiff", "other"}, size : Nat \ {0}])]
  /\ \A c \in Clips : c.images # <<>>
  /\ MaxImageBytes \in Nat /\ MaxBatchBytes \in Nat /\ MaxBatchImages \in Nat \ {0}
  /\ MaxFaults \in Nat

VARIABLES
  os,        \* target_os
  clip,      \* the selection
  seen,      \* history: the selections so far
  permit,    \* free permits of ClipboardService::transfer
  want,      \* want[k]: the requested format
  allowed,   \* allowed[k]: sharing is enabled, and k has the token
  client,    \* client[k]: where paste() is
  host,      \* host[k]: where the host is with k's request
  tried,     \* tried[k]: representations the capture has still to ask for
  stale,     \* stale[k]: the selection changed during k's capture
  rendered,  \* history: k's capture took a picture that Finder drew of a file
  batch,     \* batch[k]: the files listed, the images captured or still to be sent
  wire,      \* wire[k]: frames on the way to k
  count,     \* count[k]: images k expects; 0 before the first frame
  got,       \* got[k]: images k has received
  kept,      \* kept[k]: files that stay when paste() returns
  faults     \* what is left of MaxFaults

hostVars == <<permit, host, tried, stale, rendered, batch>>
clientVars == <<client, count, got, kept>>
fixed == <<os, want, allowed>>
vars == <<os, clip, seen, permit, want, allowed, client, host, tried, stale, rendered,
          batch, wire, count, got, kept, faults>>

Formats == {"png", "jpeg"}
None == [k \in Clients |-> <<>>]
Fault == faults > 0 /\ faults' = faults - 1
Total(images) == FoldSeq(LAMBDA x, n : x.size + n, 0, images)
Matches(image, format) == image.format \in Formats /\ (format = "auto" \/ image.format = format)

\* Sharing without a token is refused when the daemon starts, so that nobody is
\* allowed without one.
Init ==
  /\ os \in {"linux", "macos"}
  /\ clip \in Clips /\ seen = {clip}
  /\ permit = 1
  /\ want \in [Clients -> Formats \cup {"auto"}] /\ allowed \in [Clients -> BOOLEAN]
  /\ client = [k \in Clients |-> "idle"] /\ host = [k \in Clients |-> "none"]
  /\ tried = None /\ batch = None /\ wire = None
  /\ stale = [k \in Clients |-> FALSE] /\ rendered = [k \in Clients |-> FALSE]
  /\ count = [k \in Clients |-> 0] /\ got = None /\ kept = None
  /\ faults = MaxFaults

\* The tmux pane or the output directory will not do: nothing is sent.
AskRejected(k) ==
  /\ client[k] = "idle"
  /\ client' = [client EXCEPT ![k] = "failed"]
  /\ UNCHANGED <<fixed, clip, seen, hostVars, wire, count, got, kept, faults>>

\* The connection and ClipboardRead.
Ask(k) ==
  /\ client[k] = "idle"
  /\ client' = [client EXCEPT ![k] = "waiting"] /\ host' = [host EXCEPT ![k] = "asked"]
  /\ UNCHANGED <<fixed, clip, seen, permit, tried, stale, rendered, batch, wire, count, got, kept, faults>>
------------------------------------------------------------------------------
(* The host: ClipboardService::serve *)

Put(k, frame) == wire' = [wire EXCEPT ![k] = Append(@, frame)]
Reject(k) ==
  /\ Put(k, [type |-> "error"])
  /\ host' = [host EXCEPT ![k] = "closed"]

\* The representations in the order they are asked for; the macOS helper can
\* also make a PNG of a TIFF.
Candidates(format) ==
  (IF format = "auto" THEN <<"png", "jpeg">> ELSE <<format>>)
    \o (IF os = "macos" /\ format # "jpeg" THEN <<"tiff">> ELSE <<>>)

\* Disabled, not authenticated, or another transfer holds the permit.
Refuse(k) ==
  /\ host[k] = "asked" /\ (~allowed[k] \/ permit = 0)
  /\ Reject(k)
  /\ UNCHANGED <<fixed, clip, seen, permit, tried, stale, rendered, batch, clientVars, faults>>

\* The macOS helper notes changeCount and lists the files that are selected.
Listing == IF os = "macos" /\ clip.files THEN clip.images ELSE <<>>

\* try_acquire, and the helper starts.
StartCapture(k) ==
  /\ host[k] = "asked" /\ allowed[k] /\ permit = 1
  /\ permit' = 0
  /\ host' = [host EXCEPT ![k] = "capturing"]
  /\ tried' = [tried EXCEPT ![k] = Candidates(want[k])]
  /\ stale' = [stale EXCEPT ![k] = FALSE]
  /\ batch' = [batch EXCEPT ![k] = Listing]
  /\ UNCHANGED <<fixed, clip, seen, rendered, wire, clientVars, faults>>

\* The limits of the helper's script.
Within(images) ==
  /\ Len(images) \in 1..MaxBatchImages
  /\ \A i \in DOMAIN images : images[i].size <= MaxImageBytes
  /\ Total(images) <= MaxBatchBytes

\* The helper is gone, and what it kept.
HelperGone(k) ==
  /\ tried' = [tried EXCEPT ![k] = <<>>]
  /\ stale' = [stale EXCEPT ![k] = FALSE]

\* Capture fails: the error is sent and the permit dropped.
GiveUp(k) ==
  /\ Reject(k) /\ permit' = 1 /\ HelperGone(k)
  /\ batch' = [batch EXCEPT ![k] = <<>>]
Captured(k, images) ==
  /\ host' = [host EXCEPT ![k] = "sending"]
  /\ batch' = [batch EXCEPT ![k] = images]
  /\ HelperGone(k)
  /\ UNCHANGED permit
  /\ wire' = IF Len(images) > 1
             THEN [wire EXCEPT ![k] = Append(@, [type |-> "batch", count |-> Len(images)])]
             ELSE wire

\* An item of a selection that was replaced while it was listed has no URL any
\* more: the list stays short, or empty.
ListingCut(k) ==
  /\ host[k] = "capturing" /\ stale[k] /\ batch[k] # <<>>
  /\ batch' = [batch EXCEPT ![k] = Front(@)]
  /\ UNCHANGED <<fixed, clip, seen, permit, host, tried, stale, rendered, wire, clientVars, faults>>

\* Mutant of MacCapture: changeCount is not compared.
MacCaptureIgnoresChange(k) ==
  /\ host[k] = "capturing" /\ batch[k] # <<>>
  /\ IF Within(batch[k]) /\ \A i \in DOMAIN batch[k] : Matches(batch[k][i], want[k])
     THEN Captured(k, batch[k])
     ELSE GiveUp(k)
  /\ UNCHANGED <<fixed, clip, seen, rendered, clientVars, faults>>

\* The files listed, and split_captured_images: all of them, if every one
\* matches, the limits hold and changeCount is what it was; else nothing.
MacCapture(k) ==
  /\ host[k] = "capturing" /\ batch[k] # <<>>
  /\ IF Within(batch[k]) /\ ~stale[k] /\ \A i \in DOMAIN batch[k] : Matches(batch[k][i], want[k])
     THEN Captured(k, batch[k])
     ELSE GiveUp(k)
  /\ UNCHANGED <<fixed, clip, seen, rendered, clientVars, faults>>

\* The representations of the selected picture in this format.
Offered(format) == {i \in DOMAIN clip.images : ~clip.files /\ clip.images[i].format = format}

\* One image within the limit, or the PNG that a TIFF becomes if it is within
\* the limit, can be converted, and stays within it.
Deliver(k, image) ==
  IF image.size > MaxImageBytes THEN GiveUp(k)
  ELSE IF image.format # "tiff" THEN Captured(k, <<image>>)
  ELSE GiveUp(k) \/ \E n \in 1..MaxImageBytes : Captured(k, <<[format |-> "png", size |-> n]>>)

\* No file was listed: capture_candidates, or dataForType in the helper, asks
\* for one representation after the other of what is selected now.  Files that
\* were selected since the listing have on macOS the picture that Finder draws
\* of them: nothing compares changeCount here.
PictureCapture(k) ==
  /\ host[k] = "capturing" /\ batch[k] = <<>>
  /\ \/ tried[k] = <<>> /\ GiveUp(k) /\ UNCHANGED rendered
     \/ /\ tried[k] # <<>> /\ Offered(Head(tried[k])) = {}
        /\ tried' = [tried EXCEPT ![k] = Tail(@)]
        /\ UNCHANGED <<permit, host, stale, rendered, batch, wire>>
     \/ /\ tried[k] # <<>>
        /\ \E i \in Offered(Head(tried[k])) : Deliver(k, clip.images[i])
        /\ UNCHANGED rendered
     \/ /\ tried[k] # <<>> /\ clip.files /\ os = "macos"
        /\ Deliver(k, [format |-> Head(tried[k]), size |-> 1])
        /\ rendered' = [rendered EXCEPT ![k] = TRUE]
  /\ UNCHANGED <<fixed, clip, seen, clientVars, faults>>

\* run_helper: the helper hangs beyond CAPTURE_TIMEOUT, or prints too much.
CaptureFails(k) ==
  /\ host[k] = "capturing" /\ Fault
  /\ GiveUp(k)
  /\ UNCHANGED <<fixed, clip, seen, rendered, clientVars>>

\* write_images: one image after the other, then shutdown, and the permit goes.
SendImage(k) ==
  /\ host[k] = "sending"
  /\ Put(k, [type |-> "image", image |-> Head(batch[k])])
  /\ batch' = [batch EXCEPT ![k] = Tail(@)]
  /\ IF Len(batch[k]) = 1
     THEN host' = [host EXCEPT ![k] = "closed"] /\ permit' = 1
     ELSE UNCHANGED <<host, permit>>
  /\ UNCHANGED <<fixed, clip, seen, tried, stale, rendered, clientVars, faults>>

Serving(k) == host[k] \in {"capturing", "sending"}

\* Mutant of Abandon: the permit is not given back.
AbandonKeepsPermit(k) ==
  /\ Serving(k)
  /\ \/ Fault
     \/ client[k] # "waiting" /\ host[k] = "sending" /\ UNCHANGED faults
  /\ host' = [host EXCEPT ![k] = "closed"] /\ HelperGone(k)
  /\ batch' = [batch EXCEPT ![k] = <<>>]
  /\ UNCHANGED <<fixed, clip, seen, rendered, wire, clientVars, permit>>

\* The transfer timeout, or a write to a client that has left: the future is
\* dropped, with the helper and the permit, and the connection closed.
Abandon(k) ==
  /\ Serving(k)
  /\ \/ Fault
     \/ client[k] # "waiting" /\ host[k] = "sending" /\ UNCHANGED faults
  /\ host' = [host EXCEPT ![k] = "closed"] /\ permit' = 1 /\ HelperGone(k)
  /\ batch' = [batch EXCEPT ![k] = <<>>]
  /\ UNCHANGED <<fixed, clip, seen, rendered, wire, clientVars>>
------------------------------------------------------------------------------
(* The client: paste *)

Leave(k, how) == client' = [client EXCEPT ![k] = how]
Expected(k, frame) == IF count[k] > 0 THEN count[k] ELSE IF frame.type = "batch" THEN frame.count ELSE 1

\* receive_images: the count if there is one, then that many images, each with
\* its checks; the first frame that is not a count is the only image.
Receive(k) ==
  /\ client[k] = "waiting" /\ wire[k] # <<>>
  /\ wire' = [wire EXCEPT ![k] = Tail(@)]
  /\ LET f == Head(wire[k])
         images == Append(got[k], f.image)
         valid == f.image.size > 0 /\ f.image.size <= MaxImageBytes /\ Total(images) <= MaxBatchBytes
                  /\ Matches(f.image, want[k])
     IN  /\ count' = [count EXCEPT ![k] = Expected(k, f)]
         /\ CASE f.type = "error" -> Leave(k, "refused") /\ UNCHANGED got
              [] f.type = "batch" /\ count[k] = 0 ->
                   /\ UNCHANGED got
                   /\ IF f.count \in 1..MaxBatchImages THEN UNCHANGED client ELSE Leave(k, "invalid")
              [] f.type = "image" /\ valid ->
                   /\ got' = [got EXCEPT ![k] = images]
                   /\ IF Len(images) = Expected(k, f) THEN Leave(k, "saving") ELSE UNCHANGED client
              [] OTHER -> Leave(k, "invalid") /\ UNCHANGED got
  /\ UNCHANGED <<fixed, clip, seen, hostVars, kept, faults>>

\* Mutant of ReceiveFails: no timeout, and the end of the stream is not noticed.
ReceiveFailsNever(k) ==
  /\ client[k] = "waiting" /\ Fault
  /\ Leave(k, "failed")
  /\ UNCHANGED <<fixed, clip, seen, hostVars, wire, count, got, kept>>

\* The connection ends early, or TRANSFER_TIMEOUT is over.
ReceiveFails(k) ==
  /\ client[k] = "waiting"
  /\ \/ host[k] = "closed" /\ wire[k] = <<>> /\ UNCHANGED faults
     \/ Fault
  /\ Leave(k, "failed")
  /\ UNCHANGED <<fixed, clip, seen, hostVars, wire, count, got, kept>>

\* Mutant of Save: what was written before an error stays.
SaveLeavesPartial(k) ==
  /\ client[k] = "saving"
  /\ \/ /\ kept' = [kept EXCEPT ![k] = got[k]] /\ Leave(k, "pasting") /\ UNCHANGED faults
     \/ /\ \E n \in 0..Len(got[k]) - 1 : kept' = [kept EXCEPT ![k] = SubSeq(got[k], 1, n)]
        /\ Fault /\ Leave(k, "failed")
  /\ UNCHANGED <<fixed, clip, seen, hostVars, wire, count, got>>

\* save_images: every file in a temporary directory that is kept at the end;
\* an error before that removes it.
Save(k) ==
  /\ client[k] = "saving"
  /\ \/ kept' = [kept EXCEPT ![k] = got[k]] /\ Leave(k, "pasting") /\ UNCHANGED faults
     \/ Fault /\ Leave(k, "failed") /\ UNCHANGED kept
  /\ UNCHANGED <<fixed, clip, seen, hostVars, wire, count, got>>

\* The paths go to tmux; if that fails the files stay.
Paste(k) ==
  /\ client[k] = "pasting"
  /\ \E how \in {"done", "tmux failed"} : Leave(k, how)
  /\ UNCHANGED <<fixed, clip, seen, hostVars, wire, count, got, kept, faults>>
------------------------------------------------------------------------------
\* The user copies something else; macOS counts the change.
Copy(c) ==
  /\ c # clip /\ Fault
  /\ clip' = c /\ seen' = seen \cup {c}
  /\ stale' = [k \in Clients |-> stale[k] \/ host[k] = "capturing"]
  /\ UNCHANGED <<fixed, permit, client, host, tried, rendered, batch, wire, count, got, kept>>

Serve(k) ==
  \/ Refuse(k) \/ StartCapture(k) \/ ListingCut(k) \/ MacCapture(k) \/ PictureCapture(k)
  \/ CaptureFails(k) \/ SendImage(k) \/ Abandon(k)
Client(k) == AskRejected(k) \/ Ask(k) \/ Receive(k) \/ ReceiveFails(k) \/ Save(k) \/ Paste(k)

Next == (\E k \in Clients : Serve(k) \/ Client(k)) \/ (\E c \in Clips : Copy(c))

\* Both processes are scheduled, and their timeouts end every wait.
Fairness == WF_vars(\E k \in Clients : Serve(k) \/ Client(k))

Spec == Init /\ [][Next]_vars /\ Fairness
------------------------------------------------------------------------------
Ends == {"refused", "invalid", "failed", "done", "tmux failed"}

TypeOK ==
  /\ permit \in 0..1 /\ faults \in 0..MaxFaults
  /\ client \in [Clients -> {"idle", "waiting", "saving", "pasting"} \cup Ends]
  /\ host \in [Clients -> {"none", "asked", "capturing", "sending", "closed"}]
  /\ \A k \in Clients :
       /\ Len(got[k]) <= MaxBatchImages /\ count[k] <= MaxBatchImages
       /\ host[k] = "sending" => Len(batch[k]) \in 1..MaxBatchImages

\* ClipboardService: one transfer at a time, and the permit is back whenever
\* none is under way, whichever timeout, error or lost client ended it.  What
\* is on its way keeps to the limits.
PermitConserved == TypeOK /\ permit = IF \E k \in Clients : Serving(k) THEN 0 ELSE 1

\* All the files of a selection, or one representation of a picture.
Whole(images, s) ==
  IF s.files THEN images = s.images
  ELSE /\ Len(images) = 1
       /\ \E i \in DOMAIN s.images :
            \/ images[1] = s.images[i]
            \/ s.images[i].format = "tiff" /\ images[1].format = "png"

Selected(images, k) == (\E s \in seen : Whole(images, s)) \/ (rendered[k] /\ Len(images) = 1)

\* All or nothing: the files paste() leaves are one whole selection that was
\* on the clipboard, each of the requested format - never part of one, never
\* parts of two, whatever fails, times out or is copied meanwhile.  The one
\* exception is the single picture that Finder draws of files selected after
\* the helper had listed none.
WholeSelection ==
  \A k \in Clients : kept[k] # <<>> =>
    /\ Selected(kept[k], k)
    /\ \A i \in DOMAIN kept[k] : Matches(kept[k][i], want[k])

\* Every request is answered or given up, and the service is free again; the
\* client rejects nothing that the host's limits let through.
RequestsEnd == <>[](permit = 1 /\ \A k \in Clients : client[k] \in Ends \ {"invalid"})
==============================================================================

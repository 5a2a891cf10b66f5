------------------------------ MODULE MCClipboard ------------------------------
(* An instance of Clipboard for TLC. *)
EXTENDS Clipboard

Image(f, n) == [format |-> f, size |-> n]
Files(images) == [files |-> TRUE, images |-> images]
Picture(images) == [files |-> FALSE, images |-> images]

\* Selections on both sides of each limit: two images, three bytes together, two
\* bytes each; pictures with one representation or two.
MCClips == {Picture(<<Image("tiff", 2)>>), Picture(<<Image("jpeg", 1), Image("tiff", 3)>>),
            Files(<<Image("png", 1), Image("jpeg", 2)>>), Files(<<Image("png", 2), Image("png", 2)>>),
            Files(<<Image("png", 1), Image("png", 1), Image("png", 1)>>)}
================================================================================

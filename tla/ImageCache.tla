----------------------------- MODULE ImageCache -----------------------------
(***************************************************************************)
(* The image cache (robot/app/catalog/images.py): a file per content, that *)
(* is written once, and a row per print and face that names the content.   *)
(*                                                                         *)
(* write_bytes opens the file, which cuts it to nothing, and then fills    *)
(* it; the existence of the file is looked up before that, and nothing     *)
(* keeps two requests apart.                                               *)
(***************************************************************************)
EXTENDS Catalog

CONSTANTS
  Copiers,        \* threads of requests for an image
  Digests,        \* contents of images
  NoImage

VARIABLES
  files,          \* of each digest: "absent", "torn" or "whole"
  images,         \* print_face_images: the digest of a print
  copy,           \* of each thread: what it stores
  cut             \* digests the writing of which failed or was cut off

cache == <<files, images, copy, cut>>

NoCopy == [pc |-> "idle"]

Storing(w, pc) == copy[w].pc = pc

Goto(w, pc) == copy' = [copy EXCEPT ![w].pc = pc]

Filling(d) == {w \in Copiers : Storing(w, "fill") /\ copy[w].digest = d}

CacheInit ==
  /\ files = [d \in Digests |-> "absent"]
  /\ images = [p \in Prints |-> NoImage]
  /\ copy = [w \in Copiers |-> NoCopy]
  /\ cut = {}

(* A request, with the image already fetched.                              *)
Fetch(w) ==
  /\ loop = "serving"
  /\ Storing(w, "idle")
  /\ \E p \in Prints, d \in Digests :
       copy' = [copy EXCEPT ![w] = [pc |-> "look", print |-> p, digest |-> d]]
  /\ UNCHANGED <<files, images, cut>>

(* Mutant of AfterLook: the row is saved whether there is a file or not.    *)
RowFirst(d) == "row"

AfterLook(d) == IF files[d] = "absent" THEN "open" ELSE "row"

Look(w) ==
  /\ Storing(w, "look")
  /\ Goto(w, AfterLook(copy[w].digest))
  /\ UNCHANGED <<files, images, cut>>

Open(w) ==
  /\ Storing(w, "open")
  /\ files' = [files EXCEPT ![copy[w].digest] = "torn"]
  /\ Goto(w, "fill")
  /\ UNCHANGED <<images, cut>>

(* Mutant of AfterFill: the bytes are not flushed.                         *)
NeverFlushed(d, w) == {"torn"}

(* Another thread that opened the file after this one may have cut off     *)
(* what this one had written, and puts it back itself, or failed to.       *)
AfterFill(d, w) ==
  IF Filling(d) = {w} /\ d \notin cut THEN {"whole"} ELSE {"whole", "torn"}

Fill(w) ==
  /\ Storing(w, "fill")
  /\ \E f \in AfterFill(copy[w].digest, w) :
       files' = [files EXCEPT ![copy[w].digest] = f]
  /\ Goto(w, "row")
  /\ UNCHANGED <<images, cut>>

(* The disk is full, say.                                                  *)
FillFails(w) ==
  /\ Storing(w, "fill")
  /\ cut' = cut \cup {copy[w].digest}
  /\ copy' = [copy EXCEPT ![w] = NoCopy]
  /\ UNCHANGED <<files, images>>

SaveRow(w) ==
  /\ Storing(w, "row")
  /\ prints[copy[w].print] # 0
  /\ images' = [images EXCEPT ![copy[w].print] = copy[w].digest]
  /\ copy' = [copy EXCEPT ![w] = NoCopy]
  /\ UNCHANGED <<files, cut>>

(* No file can be made; or the print is not in the catalog (404), or the   *)
(* database stays locked.                                                  *)
Refused(w) ==
  /\ Storing(w, "open") \/ Storing(w, "row")
  /\ copy' = [copy EXCEPT ![w] = NoCopy]
  /\ UNCHANGED <<files, images, cut>>

KillCopies ==
  /\ cut' = cut \cup {d \in Digests : Filling(d) # {}}
  /\ copy' = [w \in Copiers |-> NoCopy]
  /\ UNCHANGED <<files, images>>

CacheNext ==
  \E w \in Copiers : \/ Fetch(w) \/ Look(w) \/ Open(w) \/ Fill(w)
                     \/ FillFails(w) \/ SaveRow(w) \/ Refused(w)

-----------------------------------------------------------------------------
(* The files, rows and threads have the types the code gives them; every   *)
(* row belongs to a print of the catalog and names a file that was opened: *)
(* no row is ahead of its file (cache_print_face_image writes it last).    *)
CacheOK ==
  /\ files \in [Digests -> {"absent", "torn", "whole"}]
  /\ cut \subseteq Digests
  /\ \A w \in Copiers :
       Storing(w, "fill") \/ Storing(w, "row") => files[copy[w].digest] # "absent"
  /\ \A p \in Prints : images[p] # NoImage =>
       prints[p] # 0 /\ files[images[p]] # "absent"

(* A file that does not hold what its name says is being written right     *)
(* now, or the writing of it was cut off: although two requests may write  *)
(* one file at once and each trusts an existing one.                       *)
TornExplained ==
  \A d \in Digests : files[d] = "torn" => d \in cut \/ Filling(d) # {}

=============================================================================

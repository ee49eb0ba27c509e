------------------------------- MODULE Zipjpeg -------------------------------
(***************************************************************************)
(* hw03/zipjpeg_test.c: skips an image, then lists the names in the local  *)
(* file headers of an archive.  The fields of a header that are skipped,   *)
(* and the size of the name, are one byte each here.                       *)
(***************************************************************************)
EXTENDS Integers, FiniteSets, SequencesExt

CONSTANTS
  FF, D8, D9, P, K,         \* the bytes of the signatures
  LocalType,                \* the two bytes 3 and 4 after PK, as one
  Size,                     \* of each byte, its value as a size
  MAX_FILENAME_LENGTH,
  Inputs                    \* the files that may be given, by their parts

VARIABLES
  pc,       \* "jpeg", "jpeg_end", "archive", "done"
  file,
  pos,      \* the byte fgetc reads next
  listing   \* the names printed

vars == <<pc, file, pos, listing>>

\* An image, local headers with their data, and the end of the archive
Bytes(input) ==
  input.image
    \o FlattenSeq([n \in DOMAIN input.entries |-> LET e == input.entries[n] IN
                     <<P, K, LocalType, e.skipped, e.size, e.skipped>> \o e.name \o e.data])
    \o input.end

Init == pc = "jpeg" /\ file \in { Bytes(input) : input \in Inputs } /\ pos = 1 /\ listing = <<>>

Nothing == [pos |-> 0, at |-> 0]

\* Mutant of Advance: a mismatch does not start over.
advance_on(f, signature, s, n) ==
  LET p == IF f[n] = signature[s.pos + 1] THEN s.pos + 1 ELSE s.pos IN
  IF s.at # 0 THEN s ELSE [pos |-> p, at |-> IF p = Len(signature) THEN n + 1 ELSE 0]

\* The byte at n.  One that does not continue a match is not looked at again as
\* the first of another one.
Advance(f, signature, s, n) ==
  LET p == IF f[n] = signature[s.pos + 1] THEN s.pos + 1 ELSE 0 IN
  IF s.at # 0 THEN s ELSE [pos |-> p, at |-> IF p = Len(signature) THEN n + 1 ELSE 0]

\* signature_search: the position behind the signature, or 0
signature_search(f, from, signature) ==
  LET scan[n \in from - 1 .. Len(f)] ==
        IF n < from THEN Nothing ELSE Advance(f, signature, scan[n-1], n)
  IN scan[Len(f)].at

FindJpeg ==
  /\ pc = "jpeg"
  /\ LET at == signature_search(file, 1, <<FF, D8>>) IN
     IF at = 0 THEN pc' = "archive" /\ UNCHANGED pos
               ELSE pc' = "jpeg_end" /\ pos' = at
  /\ UNCHANGED <<file, listing>>

FindJpegEnd ==
  /\ pc = "jpeg_end"
  /\ LET at == signature_search(file, pos, <<FF, D9>>) IN
     IF at = 0 THEN pc' = "done" /\ UNCHANGED pos
               ELSE pc' = "archive" /\ pos' = at
  /\ UNCHANGED <<file, listing>>

\* get_filename: behind the type at p come a skipped byte, the size, a skipped
\* byte, and the name.  A name that is cut off is not printed.
NameSize(p) == Min({Size[file[p + 2]], MAX_FILENAME_LENGTH - 1})
HasName(p) == p + 2 <= Len(file) /\ p + 3 + NameSize(p) <= Len(file)
Name(p) == SubSeq(file, p + 4, p + 3 + NameSize(p))

\* Mutant of IsLocalHeader: any header is read as a local one.
IsAnyHeader(p) == p <= Len(file)

\* check_zip_header: EXIT_FAILURE and END_OF_CENTRAL_DIRECTORY are both 1, so
\* everything but a local file header ends the listing.
IsLocalHeader(p) == p <= Len(file) /\ file[p] = LocalType

NextSignature ==
  /\ pc = "archive"
  /\ LET at == signature_search(file, pos, <<P, K>>) IN
     IF at # 0 /\ IsLocalHeader(at)
       THEN /\ pos' = IF HasName(at) THEN at + 4 + NameSize(at) ELSE Len(file) + 1
            /\ listing' = IF HasName(at) THEN Append(listing, Name(at)) ELSE listing
            /\ UNCHANGED pc
       ELSE pc' = "done" /\ UNCHANGED <<pos, listing>>
  /\ UNCHANGED file

Next == FindJpeg \/ FindJpegEnd \/ NextSignature

-----------------------------------------------------------------------------
\* The ends of s in f, of those that begin at from or later
Occurrences(f, from, s) == { e \in from+1 .. Len(f) : f[e-1] = s[1] /\ f[e] = s[2] }

\* The signature searched next
Sought == [jpeg |-> <<FF, D8>>, jpeg_end |-> <<FF, D9>>, archive |-> <<P, K>>]

\* The search ends at the signature and at nothing else, and does not run past one
\* whose first byte is not repeated, wherever in the file it is begun and whatever
\* is before it (zipjpeg_test.c:83-103).
SearchStopsAtSignature ==
  \A s \in Range(Sought) :
    LET ends == Occurrences(file, pos, s)
        at == signature_search(file, pos, s)
    IN /\ at # 0 => at - 1 \in ends
       /\ \A e \in ends : (e - 2 >= pos => file[e-2] # s[1]) => at - 1 \in pos .. e

\* The search finds the first signature, as hw03/README.md:30-31 has it.  It does not:
\* see the run zip_signature.
SearchFindsFirst ==
  pc # "done" =>
    LET ends == Occurrences(file, pos, Sought[pc])
    IN signature_search(file, pos, Sought[pc]) = IF ends = {} THEN 0 ELSE Min(ends) + 1

\* a and then b are nowhere in f behind byte n.
Without(a, b, f, n) == \A m \in n+2 .. Len(f) : ~ (f[m-1] = a /\ f[m] = b)

\* There is a signature where one belongs, its first byte not repeated, and none
\* where it misleads the program: headers tell the size of the name, the bytes of
\* the data are any others, and so are those of an image up to its end.
Clean(input) ==
  LET i == input.image
      z == Len(i) IN
  /\ IF i = <<>> THEN Without(FF, D8, Bytes(input), 0)
     ELSE /\ z >= 4 /\ i[1] = FF /\ i[2] = D8
          /\ i[z-2] # FF /\ i[z-1] = FF /\ i[z] = D9
          /\ \A n \in 4 .. z : i[n-1] = FF /\ i[n] = D9 => Without(P, K, i, n)
  /\ \A n \in DOMAIN input.entries : LET e == input.entries[n] IN
       /\ Without(P, K, e.data, 0)
       /\ e.data # <<>> => Last(e.data) # P
       /\ Size[e.size] = Len(e.name) /\ Len(e.name) < MAX_FILENAME_LENGTH
  /\ input.end # <<>> =>
       /\ Len(input.end) >= 3 /\ input.end[1] = P /\ input.end[2] = K
       /\ input.end[3] # LocalType

\* All names of a clean archive are listed in order, whatever they are, behind an
\* image or not (zipjpeg_test.c:46-77).
ArchiveIsListed ==
  pc = "done" =>
    \A input \in Inputs :
      file = Bytes(input) /\ Clean(input)
        => listing = [n \in DOMAIN input.entries |-> input.entries[n].name]
=============================================================================

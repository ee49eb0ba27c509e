-------------------------------- MODULE Tools --------------------------------
(***************************************************************************)
(* Zipjpeg, Telefig and GtkTree side by side.  The programs have nothing   *)
(* to do with each other: each behaviour is one of one of them, the others *)
(* stay where they begin.                                                  *)
(***************************************************************************)
EXTENDS Integers, FiniteSets, Sequences

CONSTANTS
  FF, D8, D9, P, K, LocalType, Size, MAX_FILENAME_LENGTH, Inputs, \* of Zipjpeg
  Addresses, Banner, Answer, Echo, BUF_SIZE,                      \* of Telefig
  Root, Dir, RegularFile, Trees                                   \* of GtkTree

\* The bytes of a signature differ; there is a buffer and something to put into
\* it; every file and every directory but the root is in some directory.
ASSUME ToolsAssumption ==
  /\ FF \notin {D8, D9} /\ P \notin {K, D9}
  /\ {Addresses, Banner, Echo} \subseteq Nat
  /\ {Answer, BUF_SIZE} \subseteq Nat \ {0}
  /\ Root \in Dir /\ Dir \cap RegularFile = {}
  /\ Trees \subseteq [(Dir \ {Root}) \cup RegularFile -> Dir]

VARIABLES tool,
  zip_pc, zip_file, zip_pos, listing,
  fig_pc, rp, coming, socket, buf, printed, late,
  parent, stack, order, iter1, under

zipVars == <<zip_pc, zip_file, zip_pos, listing>>
figVars == <<fig_pc, rp, coming, socket, buf, printed, late>>
treeVars == <<parent, stack, order, iter1, under>>

Zipj == INSTANCE Zipjpeg WITH pc <- zip_pc, file <- zip_file, pos <- zip_pos
Fig == INSTANCE Telefig WITH pc <- fig_pc
Tree == INSTANCE GtkTree

\* Bytes have a size, and a file is made of bytes.
ASSUME ZipjpegAssumption ==
  LET Byte == DOMAIN Size IN
  /\ {FF, D8, D9, P, K, LocalType} \subseteq Byte
  /\ Size \in [Byte -> Nat] /\ MAX_FILENAME_LENGTH \in Nat \ {0}
  /\ Inputs \subseteq
       [image : Seq(Byte), end : Seq(Byte),
        entries : Seq([skipped : Byte, size : Byte, name : Seq(Byte), data : Seq(Byte)])]

ToolsInit ==
  /\ tool \in {"zipjpeg", "telefig", "gtk_tree"}
  /\ tool # "zipjpeg" => zip_file = Zipj!Bytes(CHOOSE input \in Inputs : TRUE)
  /\ tool # "gtk_tree" => parent = CHOOSE t \in Trees : TRUE
  /\ Zipj!Init /\ Fig!Init /\ Tree!Init

ToolsNext ==
  \/ tool = "zipjpeg" /\ Zipj!Next /\ UNCHANGED <<tool, figVars, treeVars>>
  \/ tool = "telefig" /\ Fig!Next /\ UNCHANGED <<tool, zipVars, treeVars>>
  \/ tool = "gtk_tree" /\ Tree!Next /\ UNCHANGED <<tool, zipVars, figVars>>

ToolsSpec == ToolsInit /\ [][ToolsNext]_<<tool, zipVars, figVars, treeVars>>

-----------------------------------------------------------------------------
\* The properties of the three programs (zipjpeg_test.c:46-103, telefig.c:84-112,
\* gtk_tree.c:9-60): each is stated with its program.
SearchStopsAtSignature == tool = "zipjpeg" => Zipj!SearchStopsAtSignature
ArchiveIsListed == tool = "zipjpeg" => Zipj!ArchiveIsListed
PromptAnswerIsShown == Fig!PromptAnswerIsShown
HangsInOwnDirectory == Tree!HangsInOwnDirectory

\* And what the code does not do (hw03/README.md:30-31, gtk_tree.c:51)
SearchFindsFirst == tool = "zipjpeg" => Zipj!SearchFindsFirst
HangsUnderOwnDirectory == Tree!HangsUnderOwnDirectory
=============================================================================

------------------------------ MODULE MCPipeline ------------------------------
(* Pipeline with a small and a large stick, one port for both, and every       *)
(* command line: two plugs are what it takes to exchange the sticks under the  *)
(* same name.  The images are those the classifier has a rule for: NT 5.x with *)
(* each marker and loader, Vista with its tree in UDF only, later media, one   *)
(* that carries an NT 5.x Setup as well, a repair disc without installer, and  *)
(* Linux for BIOS and for EFI.                                                 *)
EXTENDS Pipeline

Setup == {"I386/TXTSETUP.SIF", "I386/SETUPLDR.BIN", "I386/NTDETECT.COM"}

MCMedia ==
  {[product |-> "nt5.0", iso |-> Setup, udf |-> {}],
   [product |-> "nt5.0", iso |-> Setup \ {"I386/SETUPLDR.BIN"}, udf |-> {}],
   [product |-> "nt5.1", iso |-> Setup \cup {"WIN51*"}, udf |-> {}],
   [product |-> "nt5.1", iso |-> {"I386/TXTSETUP.SIF", "WIN52*"}, udf |-> Setup],
   [product |-> "nt6", iso |-> {},
    udf |-> {"BOOTMGR", "SOURCES/*", "SOURCES/INSTALL.WIM", "EFI/BOOT/BOOTX64.EFI"}],
   [product |-> "nt6", iso |-> {"BOOTMGR", "SOURCES/*", "SOURCES/INSTALL.ESD"}, udf |-> {}],
   [product |-> "nt6", iso |-> Setup \cup {"WIN51*", "BOOTMGR", "SOURCES/*"},
    udf |-> {"SOURCES/INSTALL.WIM"}],
   [product |-> "other", iso |-> {"BOOTMGR", "SOURCES/*"}, udf |-> {}],
   [product |-> "linux", iso |-> {"ISOLINUX/ISOLINUX.BIN", "EFI/BOOT/BOOTX64.EFI"}, udf |-> {}],
   [product |-> "linux", iso |-> {"EFI/BOOT/BOOTX64.EFI"}, udf |-> {}]}
=============================================================================

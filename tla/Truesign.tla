-------------------------------- MODULE Truesign ------------------------------
(***************************************************************************)
(* The tool that makes keys and signs modules, tools/truesign.c.  A file   *)
(* is the sequence of pieces written to it, or absent.  Every call that    *)
(* may fail does; what fclose could not write is not noticed.              *)
(***************************************************************************)
EXTENDS Integers, Sequences

VARIABLES
    disk,       \* the files: pub, priv, module, signed, header
    command, code,      \* the last command, and its exit code
    lost        \* history: files that fclose left incomplete

truesign == <<disk, command, code, lost>>

ABSENT == <<"absent">>
CRASH == 139
PUBLICKEYBYTES == 32

TruesignInit ==
    /\ disk = [f \in {"pub", "priv", "module", "signed", "header"} |->
                    IF f = "module" THEN <<"data">> ELSE ABSENT]
    /\ command = "" /\ code = 0 /\ lost = {}

Ends(name, with) == command' = name /\ code' = with

(* A command that stops before it has opened its output.  Without one of   *)
(* its files it calls fclose(NULL) at the label out.                       *)
Stops(name, with) == Ends(name, with) /\ UNCHANGED <<disk, lost>>

(* Pieces written to the file f, all of them; or only the first, noticed   *)
(* as an error or not before fclose.                                       *)
WriteAnyway(name, f, pieces) ==
    \E k \in 0 .. Len(pieces) :
       /\ disk' = [disk EXCEPT ![f] = SubSeq(pieces, 1, k)]
       /\ Ends(name, 0) /\ UNCHANGED lost
Write(name, f, pieces) ==
    \E k \in 0 .. Len(pieces) :
       /\ disk' = [disk EXCEPT ![f] = SubSeq(pieces, 1, k)]
       /\ \/ Ends(name, 0) /\ lost' = IF k < Len(pieces) THEN lost \cup {f} ELSE lost \ {f}
          \/ k < Len(pieces) /\ Ends(name, -1) /\ lost' = lost \ {f}

(* generate_key.  After opening the secret key's file it tests the other   *)
(* one again, and a file that is not open is written to.                   *)
generate_key ==
    \/ Stops("generate", CRASH)
    \/ /\ disk' = [disk EXCEPT !["pub"] = <<>>]
       /\ Ends("generate", CRASH) /\ lost' = lost \ {"pub"}
    \/ \E p, s \in {<<>>, <<"key">>} :
          /\ disk' = [disk EXCEPT !["pub"] = p, !["priv"] = s]
          /\ \/ /\ Ends("generate", 0)
                /\ lost' = (lost \ {"pub", "priv"}) \cup {f \in {"pub", "priv"} : disk'[f] = <<>>}
             \/ s = <<>> /\ Ends("generate", -1) /\ lost' = lost \ {"pub", "priv"}

(* sign_file: the copy, the magic string and the signature. *)
sign_file ==
    \/ Stops("sign", CRASH)
    \/ disk["priv"] # ABSENT /\ disk["priv"] # <<"key">>
       /\ disk' = [disk EXCEPT !["signed"] = <<>>] /\ Ends("sign", -1) /\ lost' = lost \ {"signed"}
    \/ disk["priv"] = <<"key">> /\ Write("sign", "signed", disk["module"] \o <<"magic", "signature">>)

(* verify_file counts the bytes of the key and expects one.  It expects    *)
(* one record of everything else.                                          *)
Bytes(f) == IF disk[f] = <<"key">> THEN PUBLICKEYBYTES ELSE 0
Verifies == disk["signed"] = <<"data", "magic", "signature">>
verify_file ==
    \/ Stops("verify", CRASH)
    \/ /\ disk["pub"] # ABSENT /\ disk["signed"] # ABSENT
       /\ \/ Stops("verify", -1)
          \/ Stops("verify", IF Bytes("pub") = 1 /\ Verifies THEN 0 ELSE -1)

convert_public_key_to_header_file ==
    \/ Stops("header", CRASH)
    \/ disk["pub"] # ABSENT /\ disk["pub"] # <<"key">>
       /\ disk' = [disk EXCEPT !["header"] = <<>>] /\ Ends("header", -1) /\ lost' = lost \ {"header"}
    \/ disk["pub"] = <<"key">> /\ Write("header", "header", <<"prelude", "magic", "name", "key", "end">>)

TruesignNext == generate_key \/ sign_file \/ verify_file \/ convert_public_key_to_header_file

-------------------------------------------------------------------------------
(* When sign or header exits with 0, its output is complete, with the      *)
(* layout that module_verify reads, unless fclose lost a part of it: the   *)
(* one failure that no exit code of the tool reports.  verify succeeds     *)
(* with no key that generate has written, also for what sign has just      *)
(* signed with the other half: it takes the number of bytes read for a     *)
(* number of records.                                                      *)
ExitHonest ==
    /\ command = "sign" /\ code = 0 /\ "signed" \notin lost =>
           disk["signed"] = <<"data", "magic", "signature">>
    /\ command = "header" /\ code = 0 /\ "header" \notin lost =>
           Len(disk["header"]) = 5
    /\ command = "verify" => code # 0
===============================================================================

------------------------------- MODULE Policy -------------------------------
(***************************************************************************)
(* The pure fail-closed policy of internal/policy: the gates, in the order *)
(* the code applies them, and the confirmation token.                      *)
(*   target: Observer's Target record                                      *)
(*   image:  [sha, compressed, uncompressed]                               *)
(*   host:   [euid, mounted, swap, fs, backing, root, memory, sysrq]       *)
(***************************************************************************)
EXTENDS Integers, Sequences

CONSTANTS MinimumLiveAvailableBytes,   \* 512 MiB
          ValidLabel,                  \* device names naming.ValidLabel accepts
          ValidText,                   \* serials and WWNs validIdentityText accepts
          ValidDigest                  \* well-formed SHA-256 texts

Modes == {"rescue", "live"}

deviceNames(target) == target.descendants \union {target.kname}

intersects(devices, candidates) == devices \intersect candidates # {}

validTarget(target) ==
  /\ target.size > 0
  /\ target.kname \in ValidLabel
  /\ target.serial \in ValidText
  /\ target.wwn \in ValidText

\* ConfirmationToken.  The last component is the record the code hashes:
\* SHA-256 is taken to be injective, also when cut to eight bytes.
ConfirmationToken(target, image) ==
  <<"confirm-v1", target.kname, image.sha,
    <<target.kname, target.serial, target.wwn, target.size,
      image.uncompressed, image.sha>>>>

\* inspectMode: the gates of each mode as <<code, refuses>> pairs, in order.
inspectMode(mode, target, host) ==
  IF mode = "rescue"
  THEN << <<"target_mounted", intersects(host.mounted, deviceNames(target))>>,
          <<"target_swap",    intersects(host.swap, deviceNames(target))>> >>
  ELSE << <<"live_target_not_root",  host.root # target.kname>>,
          <<"live_source_not_tmpfs", host.fs # "tmpfs">>,
          <<"live_memory",           host.memory < MinimumLiveAvailableBytes>>,
          <<"live_sysrq",            ~host.sysrq>> >>

commonGates(mode, target, image, host) ==
  << <<"invalid_mode",       mode \notin Modes>>,
     <<"not_root",           host.euid # 0>>,
     <<"target_partition",   target.partition>>,
     <<"target_too_small",   target.size < image.uncompressed>>,
     <<"invalid_target",     ~validTarget(target)>>,
     <<"invalid_image_size", image.uncompressed <= 0>>,
     <<"invalid_digest",     image.sha \notin ValidDigest>>,
     <<"source_on_target",   intersects(host.backing, deviceNames(target))>> >>

\* The code of the first gate that refuses, or "ok".
FirstRefusal(gates) ==
  LET refused == {i \in DOMAIN gates : gates[i][2]}
  IN  IF refused = {} THEN "ok"
      ELSE gates[CHOOSE i \in refused : \A j \in refused : i <= j][1]

Inspect(mode, target, image, host) ==
  LET common == FirstRefusal(commonGates(mode, target, image, host))
  IN  IF common # "ok" THEN common
      ELSE FirstRefusal(inspectMode(mode, target, host))
=============================================================================

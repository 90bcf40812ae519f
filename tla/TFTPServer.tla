----------------------------- MODULE TFTPServer -----------------------------
(***************************************************************************)
(* One read of the TFTP server, serveRRQ of src/internal/pxe/tftp.go, over *)
(* a network that loses and duplicates packets, against a client that      *)
(* follows RFC 1350 (external); and the installation of the boot assets it *)
(* serves, src/internal/app/tftp_assets.go, which a reconcile of the PXE   *)
(* manager repeats while transfers of the previous server still run.       *)
(*                                                                         *)
(* A file of size k is read as k full blocks and a short, possibly empty,  *)
(* one.  Block numbers are taken modulo Wrap, 65536 in the code.           *)
(***************************************************************************)
EXTENDS Naturals, Sequences

CONSTANTS
    Sizes,       \* the sizes, in full blocks, a version of the asset may have
    Options,     \* the options a client may ask for: subsets of them
    Wrap,        \* block numbers are below Wrap
    MaxRetries,  \* tftpMaxRetries
    MaxPackets,  \* bound on the packets in flight in one direction
    MaxVersions  \* bound on the installations of the asset

ASSUME TFTPAssumption ==
    /\ Sizes \subseteq Nat
    /\ Wrap \in Nat /\ Wrap >= 3

VARIABLES
    inode,       \* the files: a sequence of [ver, size, partial]
    entry,       \* the directory entry of the asset: an index into inode
    xfer,        \* the transfer: the local variables of serveRRQ
    down,        \* packets to the client
    up,          \* packets to the server
    client       \* the client: options, last acknowledgement, blocks received

tftpVars == <<inode, entry, xfer, down, up, client>>

Asset == {"grub", "ipxe"}

(* negotiateRRQOptions: tsize is always accepted, blksize when it is within *)
(* the limits ("blksize" here; "badblksize" is not).                        *)
Accepted(options) == options \ {"badblksize"}

(* f.Read at block i of a file: what is sent, and whether it is short.      *)
Chunk(file, i) == [ver |-> file.ver, i |-> i, short |-> i > file.size]

DataPacket(i, chunk) == [op |-> "data", block |-> i % Wrap, chunk |-> {chunk}]
OACK == [op |-> "oack", block |-> 0, chunk |-> {}]

Send(q, pkt) == IF Len(q) < MaxPackets THEN Append(q, pkt) ELSE q

-----------------------------------------------------------------------------
TFTPInit ==
    /\ \E n \in Sizes : inode = <<[ver |-> 1, size |-> n, partial |-> FALSE]>>
    /\ entry = 1
    /\ xfer = [pc |-> "idle", file |-> 1, block |-> 0, chunk |-> {}, retry |-> 0]
    /\ down = <<>>
    /\ up = <<>>
    /\ \E o \in SUBSET Options : \E a \in Asset :
          client = [asset |-> a, options |-> o, acked |-> 0, got |-> <<>>, done |-> FALSE]

(* A read request is parsed and its file opened: an option acknowledgement  *)
(* goes first when an option was accepted.  A request that does not parse,  *)
(* leaves the root or names no file is answered with an error and ends.     *)
ServeRRQ ==
    /\ xfer.pc = "idle"
    /\ IF Accepted(client.options) # {}
       THEN /\ xfer' = [xfer EXCEPT !.pc = "oack", !.file = entry]
            /\ down' = Send(down, OACK)
       ELSE /\ xfer' = [xfer EXCEPT !.pc = "data", !.file = entry, !.block = 1,
                                    !.chunk = {Chunk(inode[entry], 1)}]
            /\ down' = Send(down, DataPacket(1, Chunk(inode[entry], 1)))
    /\ UNCHANGED <<inode, entry, up, client>>
RefuseRRQ ==
    /\ xfer.pc = "idle"
    /\ xfer' = [xfer EXCEPT !.pc = "failed"]
    /\ UNCHANGED <<inode, entry, down, up, client>>

(* What the server sends again when it does not get the acknowledgement. *)
Outstanding ==
    IF xfer.pc = "oack" THEN OACK
    ELSE DataPacket(xfer.block, CHOOSE c \in xfer.chunk : TRUE)

(* Bug: the awaited acknowledgement is waited for without counting. *)
RetryUncounted == UNCHANGED xfer /\ down' = Send(down, Outstanding)
(* waitForAck returned false or an error: one retry is used up. *)
Retry ==
    IF xfer.retry + 1 < MaxRetries
    THEN /\ xfer' = [xfer EXCEPT !.retry = @ + 1]
         /\ down' = Send(down, Outstanding)
    ELSE /\ xfer' = [xfer EXCEPT !.pc = "failed"]
         /\ UNCHANGED down

Waiting == xfer.pc \in {"oack", "data"}

(* Bug: any acknowledgement is taken for the one awaited. *)
AckAny(n) == TRUE
(* The acknowledgement waitForAck is called for. *)
AckMatches(n) == n = xfer.block % Wrap

(* The loop ends after a block shorter than the block size. *)
IsLast(file, i) == i > file.size

(* An acknowledgement arrives: the expected one advances the transfer, any  *)
(* other one makes waitForAck return false at once.                         *)
AckArrives ==
    /\ Waiting
    /\ up # <<>>
    /\ up' = Tail(up)
    /\ IF ~AckMatches(Head(up))
       THEN Retry
       ELSE IF xfer.pc = "data" /\ IsLast(inode[xfer.file], xfer.block)
       THEN xfer' = [xfer EXCEPT !.pc = "done"] /\ UNCHANGED down
       ELSE LET next == Chunk(inode[xfer.file], xfer.block + 1)
            IN /\ xfer' = [xfer EXCEPT !.pc = "data", !.block = @ + 1, !.retry = 0,
                                       !.chunk = {next}]
               /\ down' = Send(down, DataPacket(xfer.block + 1, next))
    /\ UNCHANGED <<inode, entry, client>>

(* The deadline passes, or the client reports an error. *)
AckTimeout ==
    /\ Waiting
    /\ Retry
    /\ UNCHANGED <<inode, entry, up, client>>

-----------------------------------------------------------------------------
(* The client (external): it acknowledges the options and every new block,  *)
(* repeats the acknowledgement of the block it got last, ignores the rest.  *)
ClientReceives ==
    /\ down # <<>>
    /\ down' = Tail(down)
    /\ LET pkt == Head(down)
           expected == client.acked + 1
       IN \/ /\ pkt.op = "oack"
             /\ up' = Send(up, 0)
             /\ UNCHANGED client
          \/ /\ pkt.op = "data" /\ pkt.block = expected % Wrap /\ ~client.done
             /\ LET c == CHOOSE c \in pkt.chunk : TRUE
                IN client' = [client EXCEPT !.acked = expected,
                                            !.got = Append(@, c), !.done = c.short]
             /\ up' = Send(up, pkt.block)
          \/ /\ pkt.op = "data" /\ (pkt.block # expected % Wrap \/ client.done)
             /\ up' = IF pkt.block = client.acked % Wrap THEN Send(up, pkt.block) ELSE up
             /\ UNCHANGED client
    /\ UNCHANGED <<inode, entry, xfer>>
(* The network (external) loses the oldest packet or delivers it twice. *)
Lose ==
    /\ \/ down # <<>> /\ down' = Tail(down) /\ UNCHANGED up
       \/ up # <<>> /\ up' = Tail(up) /\ UNCHANGED down
    /\ UNCHANGED <<inode, entry, xfer, client>>
Duplicate ==
    /\ \/ down # <<>> /\ Len(down) < MaxPackets /\ down' = <<Head(down)>> \o down /\ UNCHANGED up
       \/ up # <<>> /\ Len(up) < MaxPackets /\ up' = <<Head(up)>> \o up /\ UNCHANGED down
    /\ UNCHANGED <<inode, entry, xfer, client>>

-----------------------------------------------------------------------------
(* ensureUEFILocalBootGRUBAssets: the image is built in a temporary file    *)
(* and renamed over the asset: a new file behind the same name.             *)
InstallGRUB(n) ==
    /\ client.asset = "grub"
    /\ Len(inode) < MaxVersions
    /\ inode' = Append(inode, [ver |-> Len(inode) + 1, size |-> n, partial |-> FALSE])
    /\ entry' = Len(inode')
    /\ UNCHANGED <<xfer, down, up, client>>

(* copyFileIfChanged, for ipxe.efi and undionly.kpxe: os.WriteFile          *)
(* truncates the file a transfer may have open and then fills it.           *)
TruncateIPXE ==
    /\ client.asset = "ipxe"
    /\ inode[entry].ver < MaxVersions
    /\ ~inode[entry].partial
    /\ inode' = [inode EXCEPT ![entry] = [ver |-> @.ver + 1, size |-> 0, partial |-> TRUE]]
    /\ UNCHANGED <<entry, xfer, down, up, client>>
FillIPXE(n) ==
    /\ inode[entry].partial
    /\ inode' = [inode EXCEPT ![entry].size = n, ![entry].partial = FALSE]
    /\ UNCHANGED <<entry, xfer, down, up, client>>

TFTPServerStep == ServeRRQ \/ AckArrives \/ AckTimeout
TFTPNext ==
    \/ TFTPServerStep \/ RefuseRRQ
    \/ ClientReceives \/ Lose \/ Duplicate
    \/ TruncateIPXE
    \/ \E n \in Sizes : InstallGRUB(n) \/ FillIPXE(n)
TFTPSpec == TFTPInit /\ [][TFTPNext]_tftpVars

-----------------------------------------------------------------------------
(* The server calls a transfer of the GRUB image complete only when the     *)
(* client has the whole file, every block once, in order and of a single    *)
(* version, although block numbers wrap, acknowledgements are lost,         *)
(* repeated or late and the manager installs a new image meanwhile.         *)
CompletedIsWhole ==
    (xfer.pc = "done" /\ client.asset = "grub")
        => /\ client.done
           /\ Len(client.got) = inode[xfer.file].size + 1
           /\ \A k \in DOMAIN client.got :
                  client.got[k].ver = client.got[1].ver /\ client.got[k].i = k

(* A transfer ends, whatever the network does: repeated acknowledgements    *)
(* use up retries instead of starting the wait anew.                        *)
TransferEnds == (xfer.pc # "idle") ~> (xfer.pc \in {"done", "failed"})
=============================================================================

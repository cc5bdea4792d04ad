------------------------------- MODULE TftpNet -------------------------------
(***************************************************************************)
(* TftpServer talking to an honest TFTP client (RFC 1350) over a network   *)
(* that loses, duplicates and reorders packets.  The client, one machine   *)
(* driven by one operator, works through a list of jobs: it puts an image  *)
(* or gets the last one back, resends what is not answered, gives an       *)
(* attempt up and starts another from a new port.                          *)
(*                                                                         *)
(* A packet stays deliverable, any number of times and in any order, until *)
(* time passes: the model's tick is longer than a packet survives on the   *)
(* LAN, and the 20 seconds of the WRQ rule are WrqTimeout ticks.  The      *)
(* monitor is idle: its commands in mid-transfer are TftpServer's subject. *)
(***************************************************************************)
EXTENDS TftpServer, Sequences

CONSTANTS
    Jobs,         \* what the operator does: [kind, name, blocks] records
    Pc,           \* the client's machine
    MaxAttempts,  \* bound: attempts at one job
    MaxCrashes    \* bound: power failures of the board

VARIABLES
    net, back,    \* packets in flight to the server, to the client
    job, attempt, phase,
    tid,          \* the port the server answered from
    blk,          \* block being put, or last block got
    got,          \* payloads the current get has received
    published,    \* the put whose image downloads read, 0 for none
    stored,       \* the puts the server has ever completed
    crashes,
    restarted     \* has the board been restarted at all?

clientVars == <<job, attempt, phase, tid, blk, got>>
history    == <<published, stored, crashes, restarted>>
netVars    == <<vars, net, back, clientVars, history>>

JobNo    == 1 .. Len(Jobs)
IsPut(j) == j \in JobNo /\ Jobs[j].kind = "put"
IsGet(j) == j \in JobNo /\ Jobs[j].kind = "get"
BlocksOf(j) == IF IsPut(j) THEN Jobs[j].blocks ELSE 0

(***************************************************************************)
(* Payloads and ports carry their origin, for the properties to compare.   *)
(***************************************************************************)
Payload == {<<j, i>> : j \in JobNo, i \in 1 .. MaxBlocks + 1}
MyPort  == <<job, attempt>>

(***************************************************************************)
(* Block numbers and server ports do not wrap: an image is shorter than    *)
(* 32 MB, and there are fewer uploads than ports.                          *)
(***************************************************************************)
ASSUME NetAssumption ==
    /\ Jobs \in Seq([kind : {"put", "get"}, name : FileName, blocks : 0 .. MaxBlocks])
    /\ Pc \in Host
    /\ MaxAttempts \in Nat \ {0}
    /\ MaxCrashes \in Nat
    /\ JobNo \X (1 .. MaxAttempts) \subseteq Port
    /\ Payload \subseteq Chunk
    /\ MaxBlocks + 2 < BlockMod
    /\ Len(Jobs) * MaxAttempts < PortMod

NetInit ==
    /\ Init
    /\ net = {} /\ back = {}
    /\ job = 1 /\ attempt = 1 /\ phase = "request"
    /\ tid = 0 /\ blk = 0 /\ got = <<>>
    /\ published = 0 /\ stored = {} /\ crashes = 0 /\ restarted = FALSE

-----------------------------------------------------------------------------
(***************************************************************************)
(* The client.  Outgoing is the packet it sends, and resends, in the phase *)
(* it is in; the set is empty when it has nothing to say.                  *)
(***************************************************************************)
Request(op) == [op |-> op, host |-> Pc, port |-> MyPort, dport |-> TFTP_PORT]

Outgoing ==
    CASE IsPut(job) /\ phase = "request" ->
            {[op |-> "WRQ", host |-> Pc, port |-> MyPort, dport |-> TFTP_PORT,
              name |-> Jobs[job].name]}
      [] IsPut(job) /\ phase = "transfer" ->
            {[op |-> "DATA", host |-> Pc, port |-> MyPort, dport |-> tid,
              block |-> blk, chunk |-> <<job, blk>>, full |-> blk <= BlocksOf(job)]}
      [] IsGet(job) /\ phase = "request" ->
            {[op |-> "RRQ", host |-> Pc, port |-> MyPort, dport |-> TFTP_PORT]}
      [] IsGet(job) /\ phase \in {"transfer", "dally"} ->
            {[op |-> "ACK", host |-> Pc, port |-> MyPort, dport |-> tid, block |-> blk]}
      [] OTHER -> {}

Send ==
    /\ ~(Outgoing \subseteq net)
    /\ net' = net \cup Outgoing
    /\ UNCHANGED <<vars, back, clientVars, history>>

StartJob(j, a) ==
    /\ job' = j /\ attempt' = a /\ phase' = "request"
    /\ tid' = 0 /\ blk' = 0 /\ got' = <<>>

PutAcked(r) ==
    /\ IsPut(job) /\ r.op = "ACK" /\ r.block = blk
    /\ \/ /\ phase = "request"
          /\ phase' = "transfer" /\ tid' = r.sport /\ blk' = 1
          /\ UNCHANGED <<job, attempt, got>>
       \/ /\ phase = "transfer" /\ r.sport = tid /\ blk <= BlocksOf(job)
          /\ blk' = blk + 1
          /\ UNCHANGED <<job, attempt, phase, tid, got>>
       \/ /\ phase = "transfer" /\ r.sport = tid /\ blk > BlocksOf(job)
          /\ StartJob(job + 1, 1)

GetData(r) ==
    /\ IsGet(job) /\ r.op = "DATA" /\ r.block = blk + 1
    /\ \/ phase = "request"
       \/ phase = "transfer" /\ r.sport = tid
    /\ phase' = IF r.full THEN "transfer" ELSE "dally"
    /\ tid' = r.sport /\ blk' = r.block /\ got' = Append(got, r.chunk)
    /\ UNCHANGED <<job, attempt>>

Receive ==
    /\ \E r \in back : r.port = MyPort /\ (PutAcked(r) \/ GetData(r))
    /\ UNCHANGED <<vars, net, back, history>>

(***************************************************************************)
(* An attempt may be given up at any moment, its packets still in flight;  *)
(* after a restart of the board only once the old packets are gone, for    *)
(* SERVER_port starts again from 2098 and no longer sets them apart.       *)
(***************************************************************************)
GiveUp ==
    /\ job \in JobNo /\ phase # "dally" /\ attempt < MaxAttempts
    /\ restarted => net = {} /\ back = {}
    /\ StartJob(job, attempt + 1)
    /\ UNCHANGED <<vars, net, back, history>>

(***************************************************************************)
(* A get ends when the client has dallied long enough to answer duplicates *)
(* of the last block, or when the operator abandons its last attempt.      *)
(***************************************************************************)
LeaveGet ==
    /\ IsGet(job) /\ net = {} /\ back = {}
    /\ phase = "dally" \/ attempt = MaxAttempts
    /\ StartJob(job + 1, 1)
    /\ UNCHANGED <<vars, net, back, history>>

-----------------------------------------------------------------------------
(***************************************************************************)
(* The network and the board.  An upload has completed when the server     *)
(* moves to its next port.                                                 *)
(***************************************************************************)
Deliver(p) ==
    /\ p \in net
    /\ kick_tftpd(p)
    /\ back' = back \cup tx'
    /\ IF SERVER_port' # SERVER_port
       THEN published' = p.chunk[1] /\ stored' = stored \cup {p.chunk[1]}
       ELSE UNCHANGED <<published, stored>>
    /\ UNCHANGED <<net, clientVars, crashes, restarted>>

TimePasses ==
    /\ Tick \/ (control = "serving" /\ silence > WrqTimeout /\ net \cup back # {}
                  /\ UNCHANGED vars)
    /\ net' = {} /\ back' = {}
    /\ UNCHANGED <<clientVars, history>>

Restart ==
    /\ PowerCycle
    /\ net' = {} /\ back' = {}
    /\ published' = 0 /\ restarted' = TRUE
    /\ UNCHANGED <<clientVars, stored>>

Reset   == control # "serving" /\ Restart /\ UNCHANGED crashes
Crash   == control = "serving" /\ crashes < MaxCrashes /\ Restart /\ crashes' = crashes + 1

NetNext ==
    \/ Send
    \/ Receive
    \/ GiveUp
    \/ LeaveGet
    \/ \E p \in net : Deliver(p)
    \/ TimePasses
    \/ Reset
    \/ Crash

(***************************************************************************)
(* Fairness: the client's resend timer, a network that lets a packet (and  *)
(* the answer to it) through if it is sent again and again, the board's    *)
(* timer, and an operator who resets a board that has left the server and  *)
(* does not dally for ever.  Nothing makes stale packets arrive.           *)
(***************************************************************************)
DeliverOutgoing == \E p \in Outgoing : Deliver(p)

Fairness ==
    /\ SF_netVars(Send)
    /\ SF_netVars(DeliverOutgoing)
    /\ SF_netVars(Receive)
    /\ SF_netVars(LeaveGet)
    /\ WF_netVars(TimePasses)
    /\ WF_netVars(Reset)

NetSpec     == NetInit /\ [][NetNext]_netVars
FairNetSpec == NetSpec /\ Fairness

-----------------------------------------------------------------------------
(***************************************************************************)
(* What an upload has stored so far is the beginning of one image, the one *)
(* the client is putting or, when stale packets have begun an upload of    *)
(* their own, one that was completed before: no block twice, none missing, *)
(* no mixture, however packets were repeated, delayed, lost or sent by an  *)
(* attempt that was given up.                                              *)
(***************************************************************************)
UploadIntegrity ==
    bootState = "CLIENT_WRQ" =>
        \E j \in {job} \cup stored : \A i \in 1 .. address_to_store.off :
            ram[address_to_store.base][i] = <<j, i>>

(***************************************************************************)
(* While the server is free, what a download would read, and what          *)
(* checkAutoFlashing was given, is the whole of the last completed image,  *)
(* although an earlier attempt may have left a longer trail in RAM.        *)
(***************************************************************************)
PublishedImage ==
    ~one_tftp_lock /\ published # 0 =>
        /\ file_length_to_client = BlocksOf(published)
        /\ \A i \in 1 .. file_length_to_client + 1 : ram[image_address][i] = <<published, i>>

(***************************************************************************)
(* What the client was told is stored is stored: a put it has finished was *)
(* completed by the server, and a block it has seen acknowledged is in RAM *)
(* for as long as the server is on this upload's port.                     *)
(***************************************************************************)
AckedIsStored ==
    /\ \A j \in 1 .. job - 1 : IsPut(j) => j \in stored
    /\ IsPut(job) /\ phase = "transfer" /\ bootState = "CLIENT_WRQ" /\ tid = SERVER_port
       => address_to_store.off + 1 >= blk

(***************************************************************************)
(* A get receives, in order, the image published when it was begun.        *)
(***************************************************************************)
DownloadIntegrity ==
    IsGet(job) /\ published # 0 =>
        /\ \A i \in 1 .. Len(got) : got[i] = <<published, i>>
        /\ phase = "dally" => Len(got) = BlocksOf(published) + 1

(***************************************************************************)
(* The honest client never makes tftpd_send_data reach behind the end of   *)
(* the file, where its length is negative, although a stale WRQ may turn   *)
(* the download into an upload under the client's ACKs.  This takes images *)
(* of a block at least: after a shorter one, a repeated ACK 1 that follows *)
(* a stale WRQ does it.                                                    *)
(***************************************************************************)
ReadsInsideFile ==
    (\A j \in JobNo : IsPut(j) => BlocksOf(j) > 0) => control # "wild"

(***************************************************************************)
(* Nothing a stale or repeated packet does rewinds an upload that has      *)
(* stored data: "fix TFTP WRQ retransmit issue" (kick_tftpd) accepts a WRQ *)
(* only before the first block or after the timeout.                       *)
(***************************************************************************)
NoSilentRestart ==
    [][bootState = "CLIENT_WRQ" /\ bootState' = "CLIENT_WRQ" =>
         \/ address_to_store'.off >= address_to_store.off
         \/ silence > WrqTimeout]_netVars

(***************************************************************************)
(* Server and client do not drift apart.  Whenever the DATA of a client    *)
(* that has not given this put up before reaches the upload it belongs to, *)
(* the answer is the ACK the client waits for, first time or repeated:     *)
(* neither an ACK that got lost nor stale or repeated packets lead to an   *)
(* exchange in which both repeat themselves for ever.                      *)
(***************************************************************************)
BlocksAnswered ==
    [][\A p \in Outgoing :
          /\ p.op = "DATA" /\ p.dport = SERVER_port /\ bootState = "CLIENT_WRQ"
          /\ attempt = 1 /\ Deliver(p)
          => [op |-> "ACK", host |-> Pc, port |-> MyPort, sport |-> tid, block |-> blk]
               \in back']_netVars

(***************************************************************************)
(* An attempt that was given up can still do that: prepareACK compares the *)
(* block number and the server's port, never the client's, so that a late  *)
(* block of it is stored in the place of the new attempt's own.  The bytes *)
(* are the same, but the server is then ahead of the client, which goes on *)
(* sending a block that the server answers with a later one's ACK.         *)
(***************************************************************************)
Overtaken ==
    /\ IsPut(job) /\ attempt > 1
    /\ bootState = "CLIENT_WRQ" /\ tid = SERVER_port
    /\ address_to_store.off > blk

(***************************************************************************)
(* Every put the client begins is completed by the server, whatever is     *)
(* lost - a lost ACK 0, a transfer given up in the middle, a get that left *)
(* the lock behind - unless a retried put is overtaken by a block of the   *)
(* attempt before it.                                                      *)
(***************************************************************************)
PutsComplete ==
    \A j \in JobNo : IsPut(j) => (job = j ~> j \in stored \/ (job = j /\ Overtaken))

(***************************************************************************)
(* Server, network and client together are the service of ImageService.    *)
(* In particular a late packet of an earlier put never brings its image    *)
(* back, and a get never mixes two images or misses a block.               *)
(***************************************************************************)
Service == INSTANCE ImageService WITH
    Puts    <- {j \in JobNo : IsPut(j)},
    Gets    <- {j \in JobNo : IsGet(j)},
    Size    <- [j \in JobNo |-> BlocksOf(j) + 1],
    turn    <- job,
    offered <- published,
    done    <- phase = "dally"

ServiceSpec == Service!Spec

(***************************************************************************)
(* What a get reads is the image of the last put before it, if the board   *)
(* has not been restarted since.                                           *)
(***************************************************************************)
LatestImage ==
    IsGet(job) /\ published # 0 => \A j \in published + 1 .. job - 1 : ~IsPut(j)

=============================================================================

------------------------------- MODULE Programs ------------------------------
(***************************************************************************)
(* The programs that need no other model, next to each other: lab says     *)
(* which of them is run, and the variables of the others stay as they are. *)
(* Each has its own constants; the two file programs send the same file.   *)
(***************************************************************************)
EXTENDS Integers, Sequences

CONSTANTS
    ps_Bytes, send_file, CHUNK_SIZE, MAX_SIZE, Own, IndexInputs, MaxRuns

CONSTANTS
    Bytes, test_avi, BUF_SIZE, PIECE, size_bytes, Misreadings, Strays

CONSTANTS
    Messages, te_BUF_SIZE, MaxMessages, Clients, ue_None

CONSTANTS
    NUM_PROCESSES, EACH_SCAN_NUM, START_PORT, END_PORT, sc_Garbage

CONSTANTS
    BYTE, Ids, Texts

CONSTANTS
    ub_None, cs_MaxPackets, Lengths, RECORD, cp_MaxPackets

CONSTANTS
    NameLists, Max_Num_Adapter, ROW, Inputs, Blocks, ALIGNMENT, pd_Garbage,
    MaxBlocks

VARIABLE lab

VARIABLES
    ps_pc, ps_start_index, ps_end_index, ps_fp, ps_chunk_index,
    ps_size_of_packet, ps_outcome, ps_wire, ps_first, ps_runs
psVars == <<ps_pc, ps_start_index, ps_end_index, ps_fp, ps_chunk_index,
            ps_size_of_packet, ps_outcome, ps_wire, ps_first, ps_runs>>

VARIABLES
    tf_client, tf_server, tf_link, tf_stream, tf_bytes_sent,
    tf_total_received, tf_received_test_avi, tf_unwritten
tfVars == <<tf_client, tf_server, tf_link, tf_stream, tf_bytes_sent,
            tf_total_received, tf_received_test_avi, tf_unwritten>>

VARIABLES
    uf_client, uf_sent_size, uf_net, uf_server, uf_total_size,
    uf_received_size, uf_received_test_avi, uf_trouble
ufVars == <<uf_client, uf_sent_size, uf_net, uf_server, uf_total_size,
            uf_received_size, uf_received_test_avi, uf_trouble>>

VARIABLES
    te_client, te_server, te_link, te_to_server, te_to_client, te_sent,
    te_answers, te_split
teVars == <<te_client, te_server, te_link, te_to_server, te_to_client,
            te_sent, te_answers, te_split>>

VARIABLES
    ue_client, ue_answer, ue_requests, ue_replies, ue_server,
    ue_client_addr, ue_recive_buf, ue_unreachable, ue_trouble
ueVars == <<ue_client, ue_answer, ue_requests, ue_replies, ue_server,
            ue_client_addr, ue_recive_buf, ue_unreachable, ue_trouble>>

VARIABLES
    sc_main, sc_created, sc_thread, sc_port, sc_pend, sc_scans, sc_trouble
scVars == <<sc_main, sc_created, sc_thread, sc_port, sc_pend, sc_scans,
            sc_trouble>>

VARIABLES
    ic_pc, ic_packet, ic_i, ic_sum
icVars == <<ic_pc, ic_packet, ic_i, ic_sum>>

VARIABLES
    ub_main, ub_alldevs, ub_adapters, ub_thread, ub_print_cs,
    ub_kill_forwaders, ub_handler, ub_doomed, ub_late, ub_trouble
ubVars == <<ub_main, ub_alldevs, ub_adapters, ub_thread, ub_print_cs,
            ub_kill_forwaders, ub_handler, ub_doomed, ub_late, ub_trouble>>

VARIABLES
    cs_program, cs_at, cs_held, cs_misused, cs_dumped, cs_on_disk,
    cs_outcome
csVars == <<cs_program, cs_at, cs_held, cs_misused, cs_dumped, cs_on_disk,
            cs_outcome>>

VARIABLES
    cp_pc, cp_capfile, cp_torn, cp_caplen, cp_squeue, cp_sent, cp_readable,
    cp_warned, cp_grown
cpVars == <<cp_pc, cp_capfile, cp_torn, cp_caplen, cp_squeue, cp_sent,
            cp_readable, cp_warned, cp_grown>>

VARIABLES
    pd_program, pd_pc, pd_installed, pd_AdapterName, pd_before, pd_temp,
    pd_temp1, pd_AdapterList, pd_Open, pd_held, pd_received, pd_block,
    pd_off, pd_printed, pd_blocks, pd_kbhit
pdVars == <<pd_program, pd_pc, pd_installed, pd_AdapterName, pd_before,
            pd_temp, pd_temp1, pd_AdapterList, pd_Open, pd_held,
            pd_received, pd_block, pd_off, pd_printed, pd_blocks, pd_kbhit>>

-----------------------------------------------------------------------------
PS == INSTANCE PacketSend WITH
    Bytes <- ps_Bytes, pc <- ps_pc, start_index <- ps_start_index,
    end_index <- ps_end_index, fp <- ps_fp, chunk_index <- ps_chunk_index,
    size_of_packet <- ps_size_of_packet, outcome <- ps_outcome,
    wire <- ps_wire, first <- ps_first, runs <- ps_runs

TF == INSTANCE TcpFile WITH
    client <- tf_client, server <- tf_server, link <- tf_link,
    stream <- tf_stream, bytes_sent <- tf_bytes_sent,
    total_received <- tf_total_received,
    received_test_avi <- tf_received_test_avi, unwritten <- tf_unwritten

UF == INSTANCE UdpFile WITH
    client <- uf_client, sent_size <- uf_sent_size, net <- uf_net,
    server <- uf_server, total_size <- uf_total_size,
    received_size <- uf_received_size,
    received_test_avi <- uf_received_test_avi, trouble <- uf_trouble

TE == INSTANCE TcpEcho WITH
    BUF_SIZE <- te_BUF_SIZE, client <- te_client, server <- te_server,
    link <- te_link, to_server <- te_to_server, to_client <- te_to_client,
    sent <- te_sent, answers <- te_answers, split <- te_split

UE == INSTANCE UdpEcho WITH
    None <- ue_None, client <- ue_client, answer <- ue_answer,
    requests <- ue_requests, replies <- ue_replies, server <- ue_server,
    client_addr <- ue_client_addr, recive_buf <- ue_recive_buf,
    unreachable <- ue_unreachable, trouble <- ue_trouble

SC == INSTANCE PortScan WITH
    Garbage <- sc_Garbage, main <- sc_main, created <- sc_created,
    thread <- sc_thread, port <- sc_port, pend <- sc_pend,
    scans <- sc_scans, trouble <- sc_trouble

IC == INSTANCE IcmpChecksum WITH
    pc <- ic_pc, packet <- ic_packet, i <- ic_i, sum <- ic_sum

UB == INSTANCE UserBridge WITH
    None <- ub_None, main <- ub_main, alldevs <- ub_alldevs,
    adapters <- ub_adapters, thread <- ub_thread, print_cs <- ub_print_cs,
    kill_forwaders <- ub_kill_forwaders, handler <- ub_handler,
    doomed <- ub_doomed, late <- ub_late, trouble <- ub_trouble

CS == INSTANCE CaptureSamples WITH
    MaxPackets <- cs_MaxPackets, program <- cs_program, at <- cs_at,
    held <- cs_held, misused <- cs_misused, dumped <- cs_dumped,
    on_disk <- cs_on_disk, outcome <- cs_outcome

CP == INSTANCE SendCap WITH
    MaxPackets <- cp_MaxPackets, pc <- cp_pc, capfile <- cp_capfile,
    torn <- cp_torn, caplen <- cp_caplen, squeue <- cp_squeue,
    sent <- cp_sent, readable <- cp_readable, warned <- cp_warned,
    grown <- cp_grown

PD == INSTANCE PacketDriver WITH
    Garbage <- pd_Garbage, program <- pd_program, pc <- pd_pc,
    installed <- pd_installed, AdapterName <- pd_AdapterName,
    before <- pd_before, temp <- pd_temp, temp1 <- pd_temp1,
    AdapterList <- pd_AdapterList, Open <- pd_Open, held <- pd_held,
    received <- pd_received, block <- pd_block, off <- pd_off,
    printed <- pd_printed, blocks <- pd_blocks, kbhit <- pd_kbhit

ASSUME ProgramsAssumption ==
    /\ PS!PacketSendAssumption
    /\ TF!TcpFileAssumption
    /\ UF!UdpFileAssumption
    /\ TE!TcpEchoAssumption
    /\ UE!UdpEchoAssumption
    /\ SC!PortScanAssumption
    /\ IC!IcmpChecksumAssumption
    /\ UB!UserBridgeAssumption
    /\ CS!CaptureSamplesAssumption
    /\ CP!SendCapAssumption
    /\ PD!PacketDriverAssumption

-----------------------------------------------------------------------------
Labs == {"send", "tcp_file", "udp_file", "tcp_echo", "udp_echo",
         "port_scan", "icmp", "bridge", "samples", "sendcap", "driver"}

\* The sample that is run and the machine it is run on are chosen; those that
\* are not run stay at one choice.
Init ==
    /\ lab \in Labs
    /\ PS!Init
    /\ TF!Init
    /\ UF!Init
    /\ TE!Init
    /\ UE!Init
    /\ SC!Init
    /\ IC!Init
    /\ UB!Init
    /\ CS!Init
    /\ CP!Init
    /\ PD!Init
    /\ lab # "samples" => cs_program = CS!smp_1
    /\ lab # "driver" =>
           pd_program = "mac" /\ pd_installed = <<>> /\ pd_before = 0

RunPacketSend ==
    /\ lab = "send"
    /\ PS!Next
    /\ UNCHANGED <<lab, tfVars, ufVars, teVars, ueVars, scVars, icVars,
                  ubVars, csVars, cpVars, pdVars>>

RunTcpFile ==
    /\ lab = "tcp_file"
    /\ TF!Next
    /\ UNCHANGED <<lab, psVars, ufVars, teVars, ueVars, scVars, icVars,
                  ubVars, csVars, cpVars, pdVars>>

RunUdpFile ==
    /\ lab = "udp_file"
    /\ UF!Next
    /\ UNCHANGED <<lab, psVars, tfVars, teVars, ueVars, scVars, icVars,
                  ubVars, csVars, cpVars, pdVars>>

RunTcpEcho ==
    /\ lab = "tcp_echo"
    /\ TE!Next
    /\ UNCHANGED <<lab, psVars, tfVars, ufVars, ueVars, scVars, icVars,
                  ubVars, csVars, cpVars, pdVars>>

RunUdpEcho ==
    /\ lab = "udp_echo"
    /\ UE!Next
    /\ UNCHANGED <<lab, psVars, tfVars, ufVars, teVars, scVars, icVars,
                  ubVars, csVars, cpVars, pdVars>>

PortScanAlone ==
    /\ lab = "port_scan"
    /\ UNCHANGED <<lab, psVars, tfVars, ufVars, teVars, ueVars, icVars,
                  ubVars, csVars, cpVars, pdVars>>

RunPortScan == SC!Next /\ PortScanAlone

RunIcmpChecksum ==
    /\ lab = "icmp"
    /\ IC!Next
    /\ UNCHANGED <<lab, psVars, tfVars, ufVars, teVars, ueVars, scVars,
                  ubVars, csVars, cpVars, pdVars>>

UserBridgeAlone ==
    /\ lab = "bridge"
    /\ UNCHANGED <<lab, psVars, tfVars, ufVars, teVars, ueVars, scVars,
                  icVars, csVars, cpVars, pdVars>>

RunUserBridge == UB!Next /\ UserBridgeAlone

RunCaptureSamples ==
    /\ lab = "samples"
    /\ CS!Next
    /\ UNCHANGED <<lab, psVars, tfVars, ufVars, teVars, ueVars, scVars,
                  icVars, ubVars, cpVars, pdVars>>

RunSendCap ==
    /\ lab = "sendcap"
    /\ CP!Next
    /\ UNCHANGED <<lab, psVars, tfVars, ufVars, teVars, ueVars, scVars,
                  icVars, ubVars, csVars, pdVars>>

RunPacketDriver ==
    /\ lab = "driver"
    /\ PD!Next
    /\ UNCHANGED <<lab, psVars, tfVars, ufVars, teVars, ueVars, scVars,
                  icVars, ubVars, csVars, cpVars>>

Next ==
    \/ RunPacketSend \/ RunTcpFile \/ RunUdpFile
    \/ RunTcpEcho \/ RunUdpEcho \/ RunPortScan
    \/ RunIcmpChecksum \/ RunUserBridge \/ RunCaptureSamples
    \/ RunSendCap \/ RunPacketDriver

vars ==
    <<lab, psVars, tfVars, ufVars, teVars, ueVars, scVars, icVars, ubVars,
      csVars, cpVars, pdVars>>

\* The fairness of PortScan and UserBridge, whose end is a property.
Spec ==
    /\ Init /\ [][Next]_vars
    /\ WF_vars(SC!MainStep /\ PortScanAlone)
    /\ \A t \in SC!Threads : WF_vars(SC!ThreadStep(t) /\ PortScanAlone)
    /\ WF_vars(UB!Exit /\ UserBridgeAlone)
    /\ \A t \in UB!Threads : WF_vars(UB!ThreadStep(t) /\ UserBridgeAlone)

-----------------------------------------------------------------------------
(***************************************************************************)
(* The properties, each of the module that states and explains it.         *)
(***************************************************************************)
\* send.cpp: the frames carry what belongs in them...
FramesSound == PS!FramesSound

\* ...and each run of it sends its range.
RunSendsRange == PS!RunSendsRange

\* socketlab_tcp: what is saved is the file that is sent, but for what could
\* not be written.
IsFileCopy == TF!IsFileCopy

\* The ways to a file that is cut short under a message of success.
ShortOnlyWhenBroken == TF!ShortOnlyWhenBroken

\* socketlab_udp: what the loss of datagrams does to a file.
LossOnlyStalls == UF!LossOnlyStalls

\* The messages of socketlab_tcp come back in order, and nobody waits for ever.
EchoInOrder == TE!EchoInOrder

\* The clients of socketlab_udp and the server they share.
ClientsApart == UE!ClientsApart

\* The scanner with threads: every port that its definitions name.
ScanComplete == SC!ScanComplete

\* Its threads, and the function that has started them.
NothingOutlivesTheCall == SC!NothingOutlivesTheCall

\* It ends.
ScanEnds == lab = "port_scan" => SC!ScanEnds

\* The echo request arrives with a checksum that is right.
ReceiverVerifies == IC!ReceiverVerifies

\* The bridge gives back once, and nothing that is in use.
CleanWithThreads == UB!CleanWithThreads

\* Its threads see the order to end on every turn.
OneMoreAtMost == UB!OneMoreAtMost

\* And they obey it by themselves.
OrderObeyed == UB!OrderObeyed

\* The samples hold what they use, and use what they hold.
TidyCapture == CS!TidyCapture

\* A capture file is sent whole, or the user is told.
WholeOrTold == CP!WholeOrTold

\* What the driver writes into memory is what its programs read there, as far
\* as they have room for it.
MemoryReadAsWritten == PD!MemoryReadAsWritten
=============================================================================

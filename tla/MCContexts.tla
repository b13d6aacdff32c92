----------------------------- MODULE MCContexts -----------------------------
(* Instances of Contexts for TLC.  Devices 65, 32769 and 16385 and process   *)
(* 256 share their lower bits with device 1 and process 0.                   *)
EXTENDS Contexts, TLC

ThreeDevices == {1, 65, 32769}
EightBitAlias == {1, 16385}
TwoProcesses  == {0, 256}

(* An extended format IOMMU with two levels; every mode but some. *)
TwoLevels ==
  [msi_flat |-> TRUE, ats |-> TRUE, t2gpa |-> TRUE, amo_hwad |-> TRUE,
   end |-> TRUE, be |-> FALSE, fctl_be_writeable |-> FALSE,
   gxl |-> FALSE, gxl_writeable |-> TRUE, sv32 |-> TRUE, sv32x4 |-> FALSE,
   iosatp |-> {8, 9}, iohgatp |-> {8}, pdtp |-> {PD8, PD17},
   max_iommu_mode |-> 3, max_devid |-> 2^15 - 1]

Plain == [V |-> TRUE, reserved |-> FALSE, qos |-> FALSE, EN_ATS |-> TRUE,
          EN_PRI |-> FALSE, PRPR |-> FALSE, T2GPA |-> FALSE, PDTV |-> FALSE,
          DPE |-> FALSE, SXL |-> FALSE, SBE |-> FALSE, ADE |-> FALSE,
          fsc |-> 9, pdt |-> "P", gmode |-> 0, aligned |-> TRUE, msi |-> 0]

(* Processes of a host and of a guest, the latter with Sv32; a device that   *)
(* is given guest pages and whose process directory is not mapped.           *)
Host    == [Plain EXCEPT !.PDTV = TRUE, !.fsc = PD8, !.EN_PRI = TRUE]
Guest   == [Plain EXCEPT !.PDTV = TRUE, !.fsc = PD17, !.DPE = TRUE,
                         !.EN_ATS = FALSE, !.SXL = TRUE, !.gmode = 8, !.pdt = "Q"]
Aware   == [Host EXCEPT !.T2GPA = TRUE, !.gmode = 8]
Broken  == [Plain EXCEPT !.T2GPA = TRUE]

Dc(dc) == [fault |-> 0, dc |-> dc]
SomeDdtCells == {Dc(Host), Dc(Guest), Dc(Aware), Dc(Broken)}

(* A process of either guest or host, and one that only a host may have.     *)
Pc(m, ens) == [fault |-> 0, pc |-> [V |-> TRUE, reserved |-> FALSE,
                                    ENS |-> ens, mode |-> m]]
SomePdtCells == {Pc(8, TRUE), Pc(9, FALSE)}

Roots == {"P", "Q"}
OnlyQIsMapped == [r \in Roots |-> IF r = "Q" THEN "mapped" ELSE "page_fault"]

Ddt1 == [m \in Levels |-> [p \in DdtPaths[m] |->
          IF p = 1 THEN Dc(Host) ELSE Dc(Guest)]]
Pdt1 == [r \in Roots |-> [p \in PdtPaths |->
          IF p = 0 THEN Pc(9, FALSE) ELSE Pc(8, TRUE)]]
=============================================================================

---------------------------- MODULE IlpSchema ----------------------------
(***************************************************************************)
(* The schema of the Internal Location Protocol,                           *)
(* src/example/ilp/*.asn: each of its type assignments as a module of its  *)
(* own, with the numbers it uses, and the heads of its modules. Comments   *)
(* are shortened and blanks collapsed.                                     *)
(***************************************************************************)
LOCAL INSTANCE Sequences

LOCAL Begin == "Unit DEFINITIONS AUTOMATIC TAGS ::= BEGIN "
LOCAL End == "END"

\* The heads, with what they export and import, and no assignments.
Heads == <<
  "ILP-Components DEFINITIONS AUTOMATIC TAGS ::= BEGIN EXPORTS Version, SessionID2, " \o
    "LocationId, PosTechnology, Position, StatusCode, QoP, PosMethod, Velocity, PosPayLoad, " \o
    "SETCapabilities, SPCStatusCode, SPCSETKey, SPCTID, SPCSETKeylifetime, maxPosSize, " \o
    "UTRAN-GPSReferenceTimeResult, UTRAN-GANSSReferenceTimeResult, GNSSPosTechnology, " \o
    "UTRAN-GPSReferenceTimeAssistance, UTRAN-GANSSReferenceTimeAssistance, MultipleLocationIds, " \o
    "GANSSSignals; -- protocol ve\n" \o End,
  "ILP DEFINITIONS AUTOMATIC TAGS ::= BEGIN IMPORTS Version, SessionID2 FROM ILP-Components " \o
    "PREQ FROM ILP-PREQ PRES FROM ILP-PRES PRPT FROM ILP-PRPT PLREQ FROM ILP-PLREQ PLRES FROM " \o
    "ILP-PLRES PINIT FROM ILP-PINIT PAUTH FROM ILP-PAUTH PALIVE FROM ILP-PALIVE PEND FROM " \o
    "ILP-PEND PMESS FROM ILP-PMESS; -- general ILP\n" \o End,
  "ILP-PREQ DEFINITIONS AUTOMATIC TAGS ::= BEGIN EXPORTS PREQ; IMPORTS LocationId, Position, " \o
    "QoP, SPCSETKey, SPCTID, SPCSETKeylifetime, MultipleLocationIds, PosTechnology, " \o
    "SETCapabilities FROM ILP-Components;\n" \o End,
  "ILP-PRES DEFINITIONS AUTOMATIC TAGS ::= BEGIN EXPORTS PRES; IMPORTS Position, " \o
    "SPCStatusCode, PosTechnology, PosMethod, GNSSPosTechnology FROM ILP-Components;\n" \o End,
  "ILP-PRPT DEFINITIONS AUTOMATIC TAGS ::= BEGIN EXPORTS PRPT; IMPORTS Position, StatusCode " \o
    "FROM ILP-Components;\n" \o End,
  "ILP-PLREQ DEFINITIONS AUTOMATIC TAGS ::= BEGIN EXPORTS PLREQ; IMPORTS LocationId, " \o
    "MultipleLocationIds FROM ILP-Components;\n" \o End,
  "ILP-PLRES DEFINITIONS AUTOMATIC TAGS ::= BEGIN EXPORTS PLRES; IMPORTS Position, StatusCode, " \o
    "maxPosSize FROM ILP-Components;\n" \o End,
  "ILP-PINIT DEFINITIONS AUTOMATIC TAGS ::= BEGIN EXPORTS PINIT; IMPORTS LocationId, Position, " \o
    "PosMethod, MultipleLocationIds, PosPayLoad, SETCapabilities, UTRAN-GPSReferenceTimeResult, " \o
    "UTRAN-GANSSReferenceTimeResult, GNSSPosTechnology, GANSSSignals FROM ILP-Components;\n" \o End,
  "ILP-PAUTH DEFINITIONS AUTOMATIC TAGS ::= BEGIN EXPORTS PAUTH; IMPORTS SPCSETKey, SPCTID, " \o
    "SPCSETKeylifetime FROM ILP-Components;\n" \o End,
  "ILP-PALIVE DEFINITIONS AUTOMATIC TAGS ::= BEGIN EXPORTS PALIVE; IMPORTS SPCStatusCode FROM " \o
    "ILP-Components;\n" \o End,
  "ILP-PEND DEFINITIONS AUTOMATIC TAGS ::= BEGIN EXPORTS PEND; IMPORTS Position, StatusCode " \o
    "FROM ILP-Components;\n" \o End,
  "ILP-PMESS DEFINITIONS AUTOMATIC TAGS ::= BEGIN EXPORTS PMESS; IMPORTS Velocity, PosPayLoad, " \o
    "UTRAN-GPSReferenceTimeResult, UTRAN-GANSSReferenceTimeResult, " \o
    "UTRAN-GPSReferenceTimeAssistance, UTRAN-GANSSReferenceTimeAssistance FROM ILP-Components;\n" \o End>>

Assignments == <<
  Begin \o "Version ::= SEQUENCE { maj INTEGER(0..255), min INTEGER(0..255), servind INTEGER(0..255)} " \o End,
  Begin \o "SessionID2 ::= SEQUENCE { slcSessionID SlcSessionID, setSessionID SetSessionID OPTIONAL, " \o
    "spcSessionID SpcSessionID OPTIONAL -- the semanti\n -- The paramet\n -- there is no\n} " \o End,
  Begin \o "SetSessionID ::= SEQUENCE { sessionId INTEGER(0..65535), setId SETId } " \o End,
  Begin \o "SETId ::= CHOICE { msisdn OCTET STRING(SIZE (8)), mdn OCTET STRING(SIZE (8)), min BIT " \o
    "STRING(SIZE (34)), -- coded accor\n imsi OCTET STRING(SIZE (8)), nai IA5String(SIZE " \o
    "(1..1000)), iPAddress IPAddress, ..., imei OCTET STRING(SIZE (8))} -- msisdn, mnd\n-- " \o
    "represent d\n-- two digits \n-- bits 8765 o\n-- bits 4321 o\n-- not used di\n-- imei SHALL " \o
    "\n-- or greater\n " \o End,
  Begin \o "SlcSessionID ::= SEQUENCE { sessionID OCTET STRING(SIZE (4)), slcId NodeAddress } " \o End,
  Begin \o "SpcSessionID ::= SEQUENCE { sessionID OCTET STRING(SIZE (4)), spcId NodeAddress } " \o End,
  Begin \o "IPAddress ::= CHOICE { ipv4Address OCTET STRING(SIZE (4)), ipv6Address OCTET STRING(SIZE " \o
    "(16)) } " \o End,
  Begin \o "NodeAddress ::= CHOICE { iPAddress IPAddress, fqdn FQDN, ...} " \o End,
  Begin \o "FQDN ::= VisibleString(FROM (\"a\"..\"z\" | \"A\"..\"Z\" | \"0\"..\"9\" |\".-\"))(SIZE " \o
    "(1..255)) " \o End,
  Begin \o "LocationId ::= SEQUENCE { cellInfo CellInfo, status Status, ...} " \o End,
  Begin \o "Status ::= ENUMERATED {stale(0), current(1), unknown(2), ...} " \o End,
  Begin \o "maxLidSize INTEGER ::= 64 MultipleLocationIds ::= SEQUENCE SIZE (1..maxLidSize) OF " \o
    "LocationIdData " \o End,
  Begin \o "LocationIdData ::= SEQUENCE { locationId LocationId, relativetimestamp RelativeTime " \o
    "OPTIONAL, -- if relative\n servingFlag BOOLEAN, -- if \"true\" m\n...} -- status in l\n " \o End,
  Begin \o "RelativeTime ::= INTEGER (0..65535) -- relative ti\n " \o End,
  Begin \o "SETCapabilities ::= SEQUENCE { posTechnology PosTechnology, prefMethod PrefMethod, " \o
    "posProtocol PosProtocol, supportedBearers SupportedBearers OPTIONAL, ...} " \o End,
  Begin \o "PosTechnology ::= SEQUENCE { agpsSETassisted BOOLEAN, agpsSETBased BOOLEAN, autonomousGPS " \o
    "BOOLEAN, aflt BOOLEAN, ecid BOOLEAN, eotd BOOLEAN, otdoa BOOLEAN, gANSSPositionMethods " \o
    "GANSSPositionMethods OPTIONAL, ..., additionalPositioningMethods " \o
    "AdditionalPositioningMethods OPTIONAL} " \o End,
  Begin \o "GANSSPositionMethods ::= SEQUENCE (SIZE(1..16)) OF GANSSPositionMethod " \o End,
  Begin \o "GANSSPositionMethod ::= SEQUENCE { ganssId INTEGER(0..15), -- coding acco\n ganssSBASid BIT " \o
    "STRING(SIZE(3)) OPTIONAL, --coding accor\n gANSSPositioningMethodTypes " \o
    "GANSSPositioningMethodTypes, gANSSSignals GANSSSignals, ...} " \o End,
  Begin \o "GANSSPositioningMethodTypes ::= SEQUENCE { setAssisted BOOLEAN, setBased BOOLEAN, " \o
    "autonomous BOOLEAN, ...} -- indicates M\n-- coding acco\n" \o End,
  Begin \o "GANSSSignals ::= BIT STRING { signal1 (0), signal2 (1), signal3 (2), signal4 (3), signal5 " \o
    "(4), signal6 (5), signal7 (6), signal8 (7)} (SIZE (1..8)) " \o End,
  Begin \o "AdditionalPositioningMethods ::= SEQUENCE (SIZE(1..8)) OF AddPosSupport-Element " \o End,
  Begin \o "AddPosSupport-Element ::= SEQUENCE { addPosID ENUMERATED { mBS, ... }, addPosMode BIT " \o
    "STRING { standalone (0), setBased (1), setAssisted (2)} (SIZE (1..8)) OPTIONAL, ...} " \o End,
  Begin \o "PrefMethod ::= ENUMERATED { agnssSETAssistedPreferred, agnssSETBasedPreferred, " \o
    "noPreference, ...} -- Note: In UL\n-- kept the sa\n-- interpreted\n-- agpsSETBase\n-- " \o
    "agnssSETBas\n " \o End,
  Begin \o "PosProtocol ::= SEQUENCE { tia801 BOOLEAN, rrlp BOOLEAN, rrc BOOLEAN, lpp BOOLEAN, " \o
    "posProtocolVersionRRLP PosProtocolVersion3GPP OPTIONAL, posProtocolVersionRRC " \o
    "PosProtocolVersion3GPP OPTIONAL, posProtocolVersionTIA801 PosProtocolVersion3GPP2 OPTIONAL, " \o
    "posProtocolVersionLPP PosProtocolVersion3GPP OPTIONAL, ..., lppe BOOLEAN OPTIONAL, " \o
    "posProtocolVersionLPPe PosProtocolVersionOMA OPTIONAL} " \o End,
  Begin \o "PosProtocolVersion3GPP ::= SEQUENCE { majorVersionField INTEGER(0..255), " \o
    "technicalVersionField INTEGER(0..255), editorialVersionField INTEGER(0..255), ...} " \o End,
  Begin \o "PosProtocolVersion3GPP2 ::= SEQUENCE (SIZE(1..8)) OF Supported3GPP2PosProtocolVersion " \o End,
  Begin \o "Supported3GPP2PosProtocolVersion ::= SEQUENCE { revisionNumber BIT STRING(SIZE (6)), -- the " \o
    "locatio\n pointReleaseNumber INTEGER(0..255), internalEditLevel INTEGER(0..255), ...} " \o End,
  Begin \o "PosProtocolVersionOMA ::= SEQUENCE { majorVersionField INTEGER(0..255), minorVersionField " \o
    "INTEGER(0..255), ...} " \o End,
  Begin \o "SupportedBearers ::= SEQUENCE { gsm BOOLEAN, wcdma BOOLEAN, lte BOOLEAN, cdma BOOLEAN, hprd " \o
    "BOOLEAN, umb BOOLEAN, wlan BOOLEAN, wiMAX BOOLEAN, ..., nr BOOLEAN } " \o End,
  Begin \o "CellInfo ::= CHOICE { gsmCell GsmCellInformation, wcdmaCell WcdmaCellInformation, --WCDMA " \o
    "Cell I\n cdmaCell CdmaCellInformation, hrpdCell HrpdCellInformation, umbCell " \o
    "UmbCellInformation, lteCell LteCellInformation, wlanAP WlanAPInformation, wimaxBS " \o
    "WimaxBSInformation, ..., nrCell NRCellInformation } " \o End,
  Begin \o "UTRAN-GPSReferenceTimeResult ::= SEQUENCE { -- For ue-GPST\n-- used in thi\n-- Actual valu\n" \o
    "-- used on the\n set-GPSTimingOfCell SEQUENCE { ms-part INTEGER (0.. 16383), ls-part " \o
    "INTEGER (0..4294967295)}, modeSpecificInfo CHOICE { fdd SEQUENCE { referenceIdentity " \o
    "PrimaryCPICH-Info}, tdd SEQUENCE { referenceIdentity CellParametersID} }, sfn INTEGER " \o
    "(0..4095), gpsReferenceTimeUncertainty INTEGER (0..127) OPTIONAL, ...} " \o End,
  Begin \o "UTRAN-GANSSReferenceTimeResult ::= SEQUENCE { ganssTimeID INTEGER (0..15), " \o
    "set-GANSSReferenceTime SET-GANSSReferenceTime, ...} " \o End,
  Begin \o "SET-GANSSReferenceTime ::= SEQUENCE { -- Actual valu\n-- Actual valu\n-- protocol er\n " \o
    "set-GANSSTimingOfCell SEQUENCE { ms-part INTEGER (0..80), ls-part INTEGER (0..4294967295)} " \o
    "OPTIONAL, modeSpecificInfo CHOICE { fdd SEQUENCE { referenceIdentity PrimaryCPICH-Info}, " \o
    "tdd SEQUENCE { referenceIdentity CellParametersID}} OPTIONAL, sfn INTEGER (0..4095), " \o
    "ganss-TODUncertainty INTEGER (0..127) OPTIONAL, ...} " \o End,
  Begin \o "GNSSPosTechnology ::= SEQUENCE { gps BOOLEAN, galileo BOOLEAN, sbas BOOLEAN, modernized-gps " \o
    "BOOLEAN, qzss BOOLEAN, glonass BOOLEAN, ..., bds BOOLEAN OPTIONAL} " \o End,
  Begin \o "Position ::= SEQUENCE { timestamp UTCTime, -- shall inclu\n positionEstimate " \o
    "PositionEstimate, velocity Velocity OPTIONAL, ...} " \o End,
  Begin \o "PositionEstimate ::= SEQUENCE { latitudeSign ENUMERATED {north, south}, latitude " \o
    "INTEGER(0..8388607), longitude INTEGER(-8388608..8388607), uncertainty SEQUENCE " \o
    "{uncertaintySemiMajor INTEGER(0..127), uncertaintySemiMinor INTEGER(0..127), " \o
    "orientationMajorAxis INTEGER(0..180)} OPTIONAL, -- angle in de\n confidence INTEGER(0..100) " \o
    "OPTIONAL, altitudeInfo AltitudeInfo OPTIONAL, ...} -- Coding as i\n " \o End,
  Begin \o "AltitudeInfo ::= SEQUENCE { altitudeDirection ENUMERATED {height, depth}, altitude " \o
    "INTEGER(0..32767), altUncertainty INTEGER(0..127), ...} -- based on 3G\n " \o End,
  Begin \o "CdmaCellInformation ::= SEQUENCE { refNID INTEGER(0..65535), -- Network Id\n refSID " \o
    "INTEGER(0..32767), -- System Id\n refBASEID INTEGER(0..65535), -- Base Statio\n refBASELAT " \o
    "INTEGER(0..4194303), -- Base Statio\n reBASELONG INTEGER(0..8388607), -- Base Statio\n " \o
    "refREFPN INTEGER(0..511), -- Base Statio\n refWeekNumber INTEGER(0..65535), -- GPS Week Nu\n" \o
    " refSeconds INTEGER(0..4194303), -- GPS Seconds\n...} " \o End,
  Begin \o "GsmCellInformation ::= SEQUENCE { refMCC INTEGER(0..999), -- Mobile Coun\n refMNC " \o
    "INTEGER(0..999), -- Mobile Netw\n refLAC INTEGER(0..65535), -- Location ar\n refCI " \o
    "INTEGER(0..65535), -- Cell identi\n nmr NMR OPTIONAL, ta INTEGER(0..255) OPTIONAL, --Timing " \o
    "Advan\n...} " \o End,
  Begin \o "WcdmaCellInformation ::= SEQUENCE { refMCC INTEGER(0..999), -- Mobile Coun\n refMNC " \o
    "INTEGER(0..999), -- Mobile Netw\n refUC INTEGER(0..268435455), -- Cell identi\n " \o
    "frequencyInfo FrequencyInfo OPTIONAL, primaryScramblingCode INTEGER(0..511) OPTIONAL, -- " \o
    "Not applica\n measuredResultsList MeasuredResultsList OPTIONAL, cellParametersId " \o
    "INTEGER(0..127) OPTIONAL, -- Not applica\n timingAdvance TimingAdvance OPTIONAL, -- Not " \o
    "applica\n...} " \o End,
  Begin \o "TimingAdvance ::= SEQUENCE { ta INTEGER (0..8191), tAResolution TAResolution OPTIONAL, --If " \o
    "missing, \n chipRate ChipRate OPTIONAL, --If missing, \n...} " \o End,
  Begin \o "TAResolution ::= ENUMERATED {res10chip(0),res05chip(1),res0125chip(2), ...} -- Correspondi\n" \o
    " " \o End,
  Begin \o "ChipRate ::= ENUMERATED {tdd128(0),tdd384(1), tdd768(2), ...} -- Correspondi\n " \o End,
  Begin \o "HrpdCellInformation ::= SEQUENCE { refSECTORID BIT STRING(SIZE (128)) OPTIONAL, -- HRPD " \o
    "Sector\n refBASELAT INTEGER(0..4194303), -- Base Statio\n reBASELONG INTEGER(0..8388607), " \o
    "-- Base Statio\n refWeekNumber INTEGER(0..65535), -- GPS Week Nu\n refSeconds " \o
    "INTEGER(0..4194303), -- GPS Seconds\n ...} " \o End,
  Begin \o "UmbCellInformation ::= SEQUENCE { refSECTORID BIT STRING(SIZE (128)), -- UMB Sector \n " \o
    "refMCC INTEGER(0..999), -- Mobile Coun\n refMNC INTEGER(0..999), -- Mobile Netw\n " \o
    "refBASELAT INTEGER(0..4194303), -- Base Statio\n reBASELONG INTEGER(0..8388607), -- Base " \o
    "Statio\n refWeekNumber INTEGER(0..65535), -- GPS Week Nu\n refSeconds INTEGER(0..4194303), " \o
    "-- GPS Seconds\n ...} -- LTE Cell in\n-- If not othe\n " \o End,
  Begin \o "LteCellInformation ::= SEQUENCE { cellGlobalIdEUTRA CellGlobalIdEUTRA, physCellId " \o
    "PhysCellId, trackingAreaCode TrackingAreaCode, rsrpResult RSRP-Range OPTIONAL, rsrqResult " \o
    "RSRQ-Range OPTIONAL, ta INTEGER(0..1282) OPTIONAL, -- Currently u\n measResultListEUTRA " \o
    "MeasResultListEUTRA OPTIONAL, -- Neighbour m\n ..., earfcn INTEGER(0..65535) OPTIONAL, -- " \o
    "see Table 2\n earfcn-ext INTEGER (65536..262143) OPTIONAL, -- see Table 2\n rsrpResult-ext " \o
    "RSRP-Range-Ext OPTIONAL, rsrqResult-ext RSRQ-Range-Ext OPTIONAL, rs-sinrResult " \o
    "RS-SINR-Range OPTIONAL, servingInformation5G ServingInformation5G OPTIONAL } -- If " \o
    "rsrpResu\n-- If rsrqResu\n-- be included\n-- If rsrqResu\n-- be excluded\n-- rsrqResult\n-- " \o
    "servingInfo\n -- Measured re\n " \o End,
  Begin \o "maxCellReport INTEGER ::= 8 MeasResultListEUTRA ::= SEQUENCE (SIZE (1..maxCellReport)) OF " \o
    "MeasResultEUTRA " \o End,
  Begin \o "MeasResultEUTRA ::= SEQUENCE { physCellId PhysCellId, cgi-Info SEQUENCE { cellGlobalId " \o
    "CellGlobalIdEUTRA, trackingAreaCode TrackingAreaCode } OPTIONAL, measResult SEQUENCE { " \o
    "rsrpResult RSRP-Range OPTIONAL, -- Mapping to \n rsrqResult RSRQ-Range OPTIONAL, -- in 3GPP " \o
    "TS \n ..., earfcn INTEGER(0..65535) OPTIONAL, -- see Table 2\n earfcn-ext INTEGER " \o
    "(65536..262143) OPTIONAL, -- see Table 2\nrsrpResult-ext RSRP-Range-Ext OPTIONAL, " \o
    "rsrqResult-ext RSRQ-Range-Ext OPTIONAL, rs-sinrResult RS-SINR-Range OPTIONAL, " \o
    "neighbourInformation5G NeighbourInformation5G OPTIONAL } } -- If rsrpResu\n-- If rsrqResu\n" \o
    "-- be includ\n-- If rsrqResu\n-- be exclud\n-- rsrqResul\n-- neighbourIn\n " \o End,
  Begin \o "PhysCellId ::= INTEGER (0..503) " \o End,
  Begin \o "TrackingAreaCode ::= BIT STRING (SIZE (16)) " \o End,
  Begin \o "CellGlobalIdEUTRA ::= SEQUENCE { plmn-Identity PLMN-Identity, cellIdentity CellIdentity, " \o
    "... } " \o End,
  Begin \o "PLMN-Identity ::= SEQUENCE { mcc MCC OPTIONAL, mnc MNC } " \o End,
  Begin \o "CellIdentity ::= BIT STRING (SIZE (28)) " \o End,
  Begin \o "MCC ::= SEQUENCE (SIZE (3)) OF MCC-MNC-Digit " \o End,
  Begin \o "MNC ::= SEQUENCE (SIZE (2..3)) OF MCC-MNC-Digit " \o End,
  Begin \o "MCC-MNC-Digit ::= INTEGER (0..9) " \o End,
  Begin \o "RSRP-Range ::= INTEGER(0..97) " \o End,
  Begin \o "RSRQ-Range ::= INTEGER(0..34) " \o End,
  Begin \o "RSRP-Range-Ext ::= INTEGER(-17..-1) " \o End,
  Begin \o "RSRQ-Range-Ext ::= INTEGER(-30..46) " \o End,
  Begin \o "RS-SINR-Range ::= INTEGER(0..127) " \o End,
  Begin \o "ServingInformation5G ::= SEQUENCE { trackingAreaCode TrackingAreaCodeNR, ... } " \o End,
  Begin \o "NeighbourInformation5G ::= SEQUENCE { trackingAreaCode TrackingAreaCodeNR OPTIONAL, ... } " \o End,
  Begin \o "WlanAPInformation ::= SEQUENCE { -- as per [IEE\n apMACAddress BIT STRING(SIZE (48)), -- AP " \o
    "MAC Addr\n apTransmitPower INTEGER(-127..128) OPTIONAL, -- AP transmit\n apAntennaGain " \o
    "INTEGER(-127..128) OPTIONAL, -- AP antenna \n apSignaltoNoise INTEGER(-127..128) OPTIONAL, " \o
    "-- AP S/N rece\n apDeviceType ENUMERATED {wlan802-11a(0), wlan802-11b(1), wlan802-11g(2), " \o
    "..., wlan802-11n(3), wlan802-11ac(4), wlan802-11ad(5)} OPTIONAL, apSignalStrength " \o
    "INTEGER(-127..128) OPTIONAL, -- AP signal s\n apChannelFrequency INTEGER(0..256) OPTIONAL, " \o
    "-- AP channel/\n apRoundTripDelay RTD OPTIONAL, -- Round Trip \n setTransmitPower " \o
    "INTEGER(-127..128) OPTIONAL, -- SET transmi\n setAntennaGain INTEGER (-127..128) OPTIONAL, " \o
    "-- SET antenna\n setSignaltoNoise INTEGER (-127..128) OPTIONAL, -- SET S/N rec\n " \o
    "setSignalStrength INTEGER(-127..128) OPTIONAL, -- SET signal \n apReportedLocation " \o
    "ReportedLocation OPTIONAL, -- AP Location\n ..., apRepLocation RepLocation OPTIONAL, -- AP " \o
    "Location\n apSignalStrengthDelta INTEGER (0..1) OPTIONAL, -- see Table 2\n " \o
    "apSignaltoNoiseDelta INTEGER (0..1) OPTIONAL, -- see Table 2\n setSignalStrengthDelta " \o
    "INTEGER (0..1) OPTIONAL, -- see Table 2\n setSignaltoNoiseDelta INTEGER (0..1) OPTIONAL, -- " \o
    "see Table 2\n operatingClass INTEGER (0..255) OPTIONAL, apSSID OCTET STRING (SIZE (1..32)) " \o
    "OPTIONAL, apPHYType ENUMERATED {unknown(0), any(1), fhss(2), dsss(3), irbaseband(4), " \o
    "ofdm(5), hrdsss(6), erp(7), ht(8), ihv(9), ...} OPTIONAL, setMACAddress BIT STRING(SIZE " \o
    "(48)) OPTIONAL -- MAC Address\n} " \o End,
  Begin \o "RTD ::= SEQUENCE { -- as per [IEE\n rTDValue INTEGER(0..16777216), -- measured RT\n " \o
    "rTDUnits RTDUnits, -- units of RT\n rTDAccuracy INTEGER(0..255) OPTIONAL, -- RTD accurac\n " \o
    "...} " \o End,
  Begin \o "RTDUnits ::= ENUMERATED { microseconds(0), hundredsofnanoseconds(1), tensofnanoseconds(2), " \o
    "nanoseconds(3), tenthsofnanoseconds(4), ...} " \o End,
  Begin \o "ReportedLocation ::= SEQUENCE { -- as per 802.\n locationEncodingDescriptor " \o
    "LocationEncodingDescriptor, locationData LocationData, -- location da\n ...} " \o End,
  Begin \o "LocationEncodingDescriptor ::= ENUMERATED { lci(0),asn1(1), ...} " \o End,
  Begin \o "LocationData ::= SEQUENCE { locationAccuracy INTEGER(0..4294967295) OPTIONAL, locationValue " \o
    "OCTET STRING (SIZE(1..128)), ...} " \o End,
  Begin \o "RepLocation ::= CHOICE { lciLocData LciLocData, -- location da\n ... -- future form\n} " \o End,
  Begin \o "LciLocData ::= SEQUENCE { locationDataLCI LocationDataLCI OPTIONAL, ...} " \o End,
  Begin \o "LocationDataLCI ::= SEQUENCE { latitudeResolution BIT STRING (SIZE (6)), latitude BIT " \o
    "STRING (SIZE (34)), longitudeResolution BIT STRING (SIZE (6)), longitude BIT STRING (SIZE " \o
    "(34)), altitudeType BIT STRING (SIZE (4)), altitudeResolution BIT STRING (SIZE (6)), " \o
    "altitude BIT STRING (SIZE (30)), datum BIT STRING (SIZE (8)), ...} " \o End,
  Begin \o "WimaxBSInformation ::= SEQUENCE { wimaxBsID WimaxBsID, -- WiMax servi\n wimaxRTD WimaxRTD " \o
    "OPTIONAL, -- Round Trip \n wimaxNMRList WimaxNMRList OPTIONAL, -- Network mea\n ...} " \o End,
  Begin \o "WimaxBsID ::= SEQUENCE { bsID-MSB BIT STRING (SIZE(24)) OPTIONAL, bsID-LSB BIT STRING " \o
    "(SIZE(24)), ...} -- if only LSB\n " \o End,
  Begin \o "WimaxRTD ::= SEQUENCE { rtd INTEGER (0..65535), -- Round trip \n rTDstd INTEGER (0..1023) " \o
    "OPTIONAL, -- Standard de\n...} " \o End,
  Begin \o "maxWimaxBSMeas INTEGER ::= 32 WimaxNMRList ::= SEQUENCE (SIZE (1..maxWimaxBSMeas)) OF " \o
    "WimaxNMR " \o End,
  Begin \o "WimaxNMR ::= SEQUENCE { wimaxBsID WimaxBsID, -- WiMax BS ID\n relDelay INTEGER " \o
    "(-32768..32767) OPTIONAL, -- Relative de\n relDelaystd INTEGER (0..1023) OPTIONAL, -- " \o
    "Standard de\n rssi INTEGER (0..255) OPTIONAL, -- RSSI in 0.2\n rSSIstd INTEGER (0..63) " \o
    "OPTIONAL, -- Standard de\n bSTxPower INTEGER (0..255) OPTIONAL, -- BS transmit\n cinr " \o
    "INTEGER (0..255) OPTIONAL, -- in dB\n cINRstd INTEGER (0..63) OPTIONAL, -- Standard de\n " \o
    "bSLocation ReportedLocation OPTIONAL, -- Reported lo\n...} " \o End,
  Begin \o "NRCellInformation ::= SEQUENCE { servingCellInformation ServingCellInformationNR, --Serving " \o
    "cell\n measuredResultsListNR MeasResultListNR OPTIONAL, --Neighbour me\n ... } -- " \o
    "Information\n " \o End,
  Begin \o "maxNRServingCell INTEGER ::= 32 ServingCellInformationNR ::= SEQUENCE (SIZE " \o
    "(1..maxNRServingCell)) OF ServCellNR -- The first l\n " \o End,
  Begin \o "ServCellNR ::= SEQUENCE { physCellId PhysCellIdNR, arfcn-NR ARFCN-NR, cellGlobalId " \o
    "CellGlobalIdNR, trackingAreaCode TrackingAreaCodeNR, ssb-Measurements NR-Measurements " \o
    "OPTIONAL, csi-rs-Measurements NR-Measurements OPTIONAL, ta INTEGER(0..3846) OPTIONAL, " \o
    "--Timing Advan\n ... } -- Measured re\n " \o End,
  Begin \o "maxCellReportNR INTEGER ::= 32 MeasResultListNR ::= SEQUENCE (SIZE (1..maxCellReportNR)) OF " \o
    "MeasResultNR " \o End,
  Begin \o "MeasResultNR ::= SEQUENCE { physCellId PhysCellIdNR, arfcn-NR ARFCN-NR, cellGlobalId " \o
    "CellGlobalIdNR OPTIONAL, trackingAreaCode TrackingAreaCodeNR OPTIONAL, ssb-Measurements " \o
    "NR-Measurements OPTIONAL, csi-rs-Measurements NR-Measurements OPTIONAL, ... } " \o End,
  Begin \o "PhysCellIdNR ::= INTEGER (0..1007) " \o End,
  Begin \o "ARFCN-NR ::= INTEGER (0.. 3279165) " \o End,
  Begin \o "TrackingAreaCodeNR ::= BIT STRING (SIZE (24)) " \o End,
  Begin \o "CellGlobalIdNR ::= SEQUENCE { plmn-Identity PLMN-Identity, cellIdentityNR CellIdentityNR, " \o
    "... } " \o End,
  Begin \o "CellIdentityNR ::= BIT STRING (SIZE (36)) " \o End,
  Begin \o "NR-Measurements ::= SEQUENCE { rsrp-Range INTEGER (0..127) OPTIONAL, rsrq-Range INTEGER " \o
    "(0..127) OPTIONAL, sinr-Range INTEGER (0..127) OPTIONAL, ... } " \o End,
  Begin \o "FrequencyInfo ::= SEQUENCE { modeSpecificInfo CHOICE {fdd FrequencyInfoFDD, tdd " \o
    "FrequencyInfoTDD, ...}, ...} " \o End,
  Begin \o "FrequencyInfoFDD ::= SEQUENCE { uarfcn-UL UARFCN OPTIONAL, uarfcn-DL UARFCN, ...} " \o End,
  Begin \o "FrequencyInfoTDD ::= SEQUENCE {uarfcn-Nt UARFCN, ...} " \o End,
  Begin \o "UARFCN ::= INTEGER(0..16383) " \o End,
  Begin \o "NMR ::= SEQUENCE (SIZE (1..15)) OF NMRelement " \o End,
  Begin \o "NMRelement ::= SEQUENCE { arfcn INTEGER(0..1023), bsic INTEGER(0..63), rxLev " \o
    "INTEGER(0..63), ...} " \o End,
  Begin \o "maxFreq INTEGER ::= 8 MeasuredResultsList ::= SEQUENCE (SIZE (1..maxFreq)) OF " \o
    "MeasuredResults " \o End,
  Begin \o "MeasuredResults ::= SEQUENCE { frequencyInfo FrequencyInfo OPTIONAL, utra-CarrierRSSI " \o
    "UTRA-CarrierRSSI OPTIONAL, cellMeasuredResultsList CellMeasuredResultsList OPTIONAL} " \o End,
  Begin \o "maxCellMeas INTEGER ::= 32 CellMeasuredResultsList ::= SEQUENCE (SIZE (1..maxCellMeas)) OF " \o
    "CellMeasuredResults -- SPARE: UTRA\n-- Values abov\n" \o End,
  Begin \o "UTRA-CarrierRSSI ::= INTEGER(0..127) " \o End,
  Begin \o "CellMeasuredResults ::= SEQUENCE { cellIdentity INTEGER(0..268435455) OPTIONAL, " \o
    "modeSpecificInfo CHOICE {fdd SEQUENCE {primaryCPICH-Info PrimaryCPICH-Info, cpich-Ec-N0 " \o
    "CPICH-Ec-N0 OPTIONAL, cpich-RSCP CPICH-RSCP OPTIONAL, pathloss Pathloss OPTIONAL}, tdd " \o
    "SEQUENCE {cellParametersID CellParametersID, proposedTGSN TGSN OPTIONAL, primaryCCPCH-RSCP " \o
    "PrimaryCCPCH-RSCP OPTIONAL, pathloss Pathloss OPTIONAL, timeslotISCP-List TimeslotISCP-List " \o
    "OPTIONAL -- NOTE: TimeS\n}}} " \o End,
  Begin \o "CellParametersID ::= INTEGER(0..127) " \o End,
  Begin \o "TGSN ::= INTEGER(0..14) " \o End,
  Begin \o "PrimaryCCPCH-RSCP ::= INTEGER(0..127) -- SPARE: Time\n-- Values abov\n" \o End,
  Begin \o "TimeslotISCP ::= INTEGER(0..127) " \o End,
  Begin \o "maxTS INTEGER ::= 14 TimeslotISCP-List ::= SEQUENCE (SIZE (1..maxTS)) OF TimeslotISCP " \o End,
  Begin \o "PrimaryCPICH-Info ::= SEQUENCE {primaryScramblingCode INTEGER(0..511)} -- SPARE: CPIC\n-- " \o
    "Values abov\n" \o End,
  Begin \o "CPICH-Ec-N0 ::= INTEGER(0..63) -- SPARE: CPIC\n-- Values from\n-- the encodin\n-- " \o
    "cpich-RSCP \n-- cpich-RSCP \n-- cpich-RSCP \n-- cpich-RSCP \n-- cpich-RSCP \n-- cpich-RSCP " \o
    "\n-- cpich-RSCP \n-- ... .\n-- cpich-RSCP \n-- cpich-RSCP \n-- cpich-RSCP \n " \o End,
  Begin \o "CPICH-RSCP ::= INTEGER(0..127) -- SPARE: Path\n-- Values abov\n" \o End,
  Begin \o "Pathloss ::= INTEGER(46..173) " \o End,
  Begin \o "UTRAN-GPSReferenceTimeAssistance ::= SEQUENCE { utran-GPSReferenceTime " \o
    "UTRAN-GPSReferenceTime, gpsReferenceTimeUncertainty INTEGER (0..127) OPTIONAL, " \o
    "utranGPSDriftRate UTRANGPSDriftRate OPTIONAL} " \o End,
  Begin \o "UTRAN-GPSReferenceTime ::= SEQUENCE { -- For utran-G\n -- used in thi\n -- Actual valu\n -- " \o
    "used on the\n utran-GPSTimingOfCell SEQUENCE { ms-part INTEGER (0..1023), ls-part INTEGER " \o
    "(0..4294967295) }, modeSpecificInfo CHOICE { fdd SEQUENCE { referenceIdentity " \o
    "PrimaryCPICH-Info}, tdd SEQUENCE { referenceIdentity CellParametersID}} OPTIONAL, sfn " \o
    "INTEGER (0..4095) } " \o End,
  Begin \o "UTRANGPSDriftRate ::= ENUMERATED { utran-GPSDrift0, utran-GPSDrift1, utran-GPSDrift2, " \o
    "utran-GPSDrift5, utran-GPSDrift10, utran-GPSDrift15, utran-GPSDrift25, utran-GPSDrift50, " \o
    "utran-GPSDrift-1, utran-GPSDrift-2, utran-GPSDrift-5, utran-GPSDrift-10, utran-GPSDrift-15, " \o
    "utran-GPSDrift-25, utran-GPSDrift-50 } " \o End,
  Begin \o "UTRAN-GANSSReferenceTimeAssistance ::= SEQUENCE { ganssTimeID INTEGER (0..15), " \o
    "utran-GANSSReferenceTime UTRAN-GANSSReferenceTime, ganssDay INTEGER (0..8191) OPTIONAL, " \o
    "utranGANSSDriftRate UTRANGANSSDriftRate OPTIONAL } " \o End,
  Begin \o "UTRAN-GANSSReferenceTime ::= SEQUENCE { ganssTOD INTEGER (0..86399), " \o
    "utran-GANSSTimingOfCell INTEGER (0..3999999) OPTIONAL, modeSpecificInfo CHOICE { fdd " \o
    "SEQUENCE { referenceIdentity PrimaryCPICH-Info}, tdd SEQUENCE { referenceIdentity " \o
    "CellParametersID}} OPTIONAL, sfn INTEGER (0..4095), ganss-TODUncertainty INTEGER (0..127) " \o
    "OPTIONAL, ...} " \o End,
  Begin \o "UTRANGANSSDriftRate ::= ENUMERATED { utran-GANSSDrift0, utran-GANSSDrift1, " \o
    "utran-GANSSDrift2, utran-GANSSDrift5, utran-GANSSDrift10, utran-GANSSDrift15, " \o
    "utran-GANSSDrift25, utran-GANSSDrift50, utran-GANSSDrift-1, utran-GANSSDrift-2, " \o
    "utran-GANSSDrift-5, utran-GANSSDrift-10, utran-GANSSDrift-15, utran-GANSSDrift-25, " \o
    "utran-GANSSDrift-50} " \o End,
  Begin \o "StatusCode ::= ENUMERATED { unspecified(0), systemFailure(1), unexpectedMessage(2), " \o
    "protocolError(3), dataMissing(4), unexpectedDataValue(5), posMethodFailure(6), " \o
    "posMethodMismatch(7), posProtocolMismatch(8), targetSETnotReachable(9), " \o
    "versionNotSupported(10), resourceShortage(11), invalidSessionId(12), " \o
    "nonProxyModeNotSupported(13), proxyModeNotSupported(14), positioningNotPermitted(15), " \o
    "iLPTimeout(16), ...} " \o End,
  Begin \o "QoP ::= SEQUENCE { horacc INTEGER(0..127), veracc INTEGER(0..127) OPTIONAL, -- as defined \n" \o
    " maxLocAge INTEGER(0..65535) OPTIONAL, delay INTEGER(0..7) OPTIONAL, -- as defined \n..., " \o
    "ver2-responseTime INTEGER (1..128) OPTIONAL} " \o End,
  Begin \o "Velocity ::= CHOICE { -- velocity de\n horvel Horvel, horandvervel Horandvervel, " \o
    "horveluncert Horveluncert, horandveruncert Horandveruncert, ...} " \o End,
  Begin \o "Horvel ::= SEQUENCE { bearing BIT STRING(SIZE (9)), horspeed BIT STRING(SIZE (16)), ...} " \o End,
  Begin \o "Horandvervel ::= SEQUENCE { verdirect BIT STRING(SIZE (1)), bearing BIT STRING(SIZE (9)), " \o
    "horspeed BIT STRING(SIZE (16)), verspeed BIT STRING(SIZE (8)), ...} " \o End,
  Begin \o "Horveluncert ::= SEQUENCE { bearing BIT STRING(SIZE (9)), horspeed BIT STRING(SIZE (16)), " \o
    "uncertspeed BIT STRING(SIZE (8)), ...} " \o End,
  Begin \o "Horandveruncert ::= SEQUENCE { verdirect BIT STRING(SIZE (1)), bearing BIT STRING(SIZE " \o
    "(9)), horspeed BIT STRING(SIZE (16)), verspeed BIT STRING(SIZE (8)), horuncertspeed BIT " \o
    "STRING(SIZE (8)), veruncertspeed BIT STRING(SIZE (8)), ...} " \o End,
  Begin \o "PosMethod ::= ENUMERATED { agpsSETassisted(0), agpsSETbased(1), agpsSETassistedpref(2), " \o
    "agpsSETbasedpref(3), autonomousGPS(4), aflt(5), ecid(6), eotd(7), otdoa(8), " \o
    "agnssSETassisted(9), agnssSETbased(10), agnssSETassistedpref(11), agnssSETbasedpref(12), " \o
    "autonomousGNSS(13), ..., ver2-mbs(14)} " \o End,
  Begin \o "SPCSETKey ::= BIT STRING(SIZE (128)) " \o End,
  Begin \o "SPCTID ::= SEQUENCE { rand BIT STRING(SIZE (128)), slpFQDN FQDN, ...} " \o End,
  Begin \o "SPCSETKeylifetime ::= INTEGER (1..24) -- units in ho\n " \o End,
  Begin \o "PosPayLoad ::= CHOICE { rrcPayload OCTET STRING(SIZE (1..8192)), rrlpPayload OCTET " \o
    "STRING(SIZE (1..8192)), multiPosPayload MultiPosPayLoad, ...} " \o End,
  Begin \o "MultiPosPayLoad ::= SEQUENCE { lPPPayload SEQUENCE (SIZE (1..3)) OF OCTET STRING(SIZE " \o
    "(1..60000)) OPTIONAL, tia801Payload SEQUENCE (SIZE (1..3)) OF OCTET STRING(SIZE (1..60000)) " \o
    "OPTIONAL, ...} " \o End,
  Begin \o "SPCStatusCode ::= ENUMERATED {operational(0), notOperational(1), reducedAvailability(2), " \o
    "...} " \o End,
  Begin \o "ILP-PDU ::= SEQUENCE { length INTEGER(0..65535), version Version, sessionID2 SessionID2, " \o
    "message IlpMessage } " \o End,
  Begin \o "IlpMessage ::= CHOICE { msPREQ PREQ, msPRES PRES, msPRPT PRPT, msPLREQ PLREQ, msPLRES " \o
    "PLRES, msPINIT PINIT, msPAUTH PAUTH, msPALIVE PALIVE, msPEND PEND, msPMESS PMESS, ...} " \o End,
  Begin \o "PREQ ::= SEQUENCE { sLPMode SLPMode, approvedPosMethods PosTechnology OPTIONAL, locationId " \o
    "LocationId OPTIONAL, multipleLocationIds MultipleLocationIds OPTIONAL, position Position " \o
    "OPTIONAL, triggerParams TriggerParams OPTIONAL, sPCSETKey SPCSETKey OPTIONAL, spctid SPCTID " \o
    "OPTIONAL, sPCSETKeylifetime SPCSETKeylifetime OPTIONAL, qoP QoP OPTIONAL, sETCapabilities " \o
    "SETCapabilities OPTIONAL, notificationMode NotificationMode OPTIONAL, ...} " \o End,
  Begin \o "SLPMode ::= ENUMERATED {proxy(0), nonProxy(1)} " \o End,
  Begin \o "TriggerParams ::= SEQUENCE { triggerType TriggerType, periodicTriggerParams " \o
    "PeriodicTriggerParams OPTIONAL, ...} " \o End,
  Begin \o "TriggerType ::= ENUMERATED { periodic(0), areaEvent(1), ...} " \o End,
  Begin \o "PeriodicTriggerParams ::= SEQUENCE{ numberOfFixes INTEGER(1..8639999), intervalBetweenFixes " \o
    "INTEGER(1..8639999), startTime INTEGER(0..2678400) OPTIONAL, ...} -- intervalBet\n-- " \o
    "numberOfFix\n-- (100 days i\n-- startTime i\n-- a value of \n-- seconds fro\n " \o End,
  Begin \o "NotificationMode ::= ENUMERATED {normal(0), basedOnLocation(1), ...} " \o End,
  Begin \o "PRES ::= SEQUENCE { preferredPosMethod PosMethod OPTIONAL, gnssPosTechnology " \o
    "GNSSPosTechnology OPTIONAL, supportedPosMethods PosTechnology OPTIONAL, position Position " \o
    "OPTIONAL, sPCstatusCode SPCStatusCode OPTIONAL, ...} " \o End,
  Begin \o "PRPT ::= SEQUENCE { position Position, fixNumber INTEGER(1.. 8639999) OPTIONAL, statusCode " \o
    "StatusCode OPTIONAL, ...} " \o End,
  Begin \o "PLREQ ::= SEQUENCE { locationId LocationId, multipleLocationIds MultipleLocationIds " \o
    "OPTIONAL, ...} " \o End,
  Begin \o "PLRES ::= SEQUENCE { positionResults PositionResults, ...} " \o End,
  Begin \o "maxPosSize INTEGER ::= 1024 PositionResults ::= SEQUENCE SIZE (1..maxPosSize) OF " \o
    "PositionResult " \o End,
  Begin \o "PositionResult ::= CHOICE { position Position, statusCode StatusCode, ...} " \o End,
  Begin \o "PINIT ::= SEQUENCE { sETCapabilities SETCapabilities, locationId LocationId, posMethod " \o
    "PosMethod OPTIONAL, requestedAssistData RequestedAssistData OPTIONAL, position Position " \o
    "OPTIONAL, posPayLoad PosPayLoad OPTIONAL, multipleLocationIds MultipleLocationIds OPTIONAL, " \o
    "utran-GPSReferenceTimeResult UTRAN-GPSReferenceTimeResult OPTIONAL, " \o
    "utran-GANSSReferenceTimeResult UTRAN-GANSSReferenceTimeResult OPTIONAL, gnssPosTechnology " \o
    "GNSSPosTechnology OPTIONAL, ...} " \o End,
  Begin \o "RequestedAssistData ::= SEQUENCE { almanacRequested BOOLEAN, utcModelRequested BOOLEAN, " \o
    "ionosphericModelRequested BOOLEAN, dgpsCorrectionsRequested BOOLEAN, " \o
    "referenceLocationRequested BOOLEAN, -- Note: Used \n referenceTimeRequested BOOLEAN, " \o
    "acquisitionAssistanceRequested BOOLEAN, realTimeIntegrityRequested BOOLEAN, " \o
    "navigationModelRequested BOOLEAN, navigationModelData NavigationModel OPTIONAL, " \o
    "ganssRequestedCommonAssistanceDataList GanssRequestedCommonAssistanceDataList OPTIONAL, " \o
    "ganssRequestedGenericAssistanceDataList GanssRequestedGenericAssistanceDataList OPTIONAL, " \o
    "extendedEphemeris ExtendedEphemeris OPTIONAL, extendedEphemerisCheck ExtendedEphCheck " \o
    "OPTIONAL, ...} " \o End,
  Begin \o "ExtendedEphemeris ::= SEQUENCE { validity INTEGER (1..256), -- Requested v\n...} " \o End,
  Begin \o "ExtendedEphCheck ::= SEQUENCE { beginTime GPSTime, -- Begin time \n endTime GPSTime, -- End " \o
    "time of\n...} " \o End,
  Begin \o "GPSTime ::= SEQUENCE { gPSWeek INTEGER (0..1023), gPSTOWhour INTEGER (0..167), ...} " \o End,
  Begin \o "GanssRequestedCommonAssistanceDataList ::= SEQUENCE { ganssReferenceTime BOOLEAN, " \o
    "ganssIonosphericModel BOOLEAN, ganssAdditionalIonosphericModelForDataID00 BOOLEAN, " \o
    "ganssAdditionalIonosphericModelForDataID11 BOOLEAN, ganssEarthOrientationParameters " \o
    "BOOLEAN, ..., ganssAdditionalIonosphericModelForDataID01 BOOLEAN OPTIONAL} " \o End,
  Begin \o "maxGANSS INTEGER ::= 16 GanssRequestedGenericAssistanceDataList ::= " \o
    "SEQUENCE(SIZE(1..maxGANSS)) OF GanssReqGenericData " \o End,
  Begin \o "GanssReqGenericData ::= SEQUENCE { ganssId INTEGER(0..15), -- coding acco\n ganssSBASid BIT " \o
    "STRING(SIZE(3)) OPTIONAL, --coding accor\n ganssRealTimeIntegrity BOOLEAN OPTIONAL, " \o
    "ganssDifferentialCorrection DGANSS-Sig-Id-Req OPTIONAL, ganssAlmanac BOOLEAN, " \o
    "ganssNavigationModelData GanssNavigationModelData OPTIONAL, ganssTimeModels BIT " \o
    "STRING(SIZE(16)) OPTIONAL, ganssReferenceMeasurementInfo BOOLEAN, ganssDataBits " \o
    "GanssDataBits OPTIONAL, ganssUTCModel BOOLEAN, ganssAdditionalDataChoices " \o
    "GanssAdditionalDataChoices OPTIONAL, ganssAuxiliaryInformation BOOLEAN, " \o
    "ganssExtendedEphemeris ExtendedEphemeris OPTIONAL, ganssExtendedEphemerisCheck " \o
    "GanssExtendedEphCheck OPTIONAL, ..., bds-DifferentialCorrection BDS-Sig-Id-Req OPTIONAL, " \o
    "bds-GridModelReq BOOLEAN OPTIONAL} " \o End,
  Begin \o "DGANSS-Sig-Id-Req ::= BIT STRING (SIZE(8)) -- coding acco\n " \o End,
  Begin \o "BDS-Sig-Id-Req ::= BIT STRING (SIZE(8)) -- coding acco\n " \o End,
  Begin \o "GanssNavigationModelData ::= SEQUENCE { ganssWeek INTEGER(0..4095), ganssToe " \o
    "INTEGER(0..167), t-toeLimit INTEGER(0..10), satellitesListRelatedDataList " \o
    "SatellitesListRelatedDataList OPTIONAL, ...} " \o End,
  Begin \o "maxGANSSSat INTEGER ::= 32 SatellitesListRelatedDataList ::= SEQUENCE(SIZE(0..maxGANSSSat)) " \o
    "OF SatellitesListRelatedData " \o End,
  Begin \o "SatellitesListRelatedData ::= SEQUENCE { satId INTEGER(0..63), iod INTEGER(0..1023), ...} " \o End,
  Begin \o "GanssDataBits ::= SEQUENCE { ganssTODmin INTEGER (0..59), reqDataBitAssistanceList " \o
    "ReqDataBitAssistanceList, ...} " \o End,
  Begin \o "maxGANSSSat INTEGER ::= 32 ReqDataBitAssistanceList ::= SEQUENCE { gnssSignals " \o
    "GANSSSignals, ganssDataBitInterval INTEGER (0..15), ganssDataBitSatList SEQUENCE " \o
    "(SIZE(1..maxGANSSSat)) OF INTEGER (0..63) OPTIONAL, ...} " \o End,
  Begin \o "GanssAdditionalDataChoices ::= SEQUENCE { orbitModelID INTEGER(0..7) OPTIONAL, clockModelID " \o
    "INTEGER(0..7) OPTIONAL, utcModelID INTEGER(0..7) OPTIONAL, almanacModelID INTEGER(0..7) " \o
    "OPTIONAL, ...} " \o End,
  Begin \o "GanssExtendedEphCheck ::= SEQUENCE { beginTime GANSSextEphTime, -- Begin time \n endTime " \o
    "GANSSextEphTime, -- End time of\n...} " \o End,
  Begin \o "GANSSextEphTime ::= SEQUENCE { gANSSday INTEGER (0..8191), gANSSTODhour INTEGER (0..23), " \o
    "...} " \o End,
  Begin \o "NavigationModel ::= SEQUENCE { gpsWeek INTEGER(0..1023), gpsToe INTEGER(0..167), nsat " \o
    "INTEGER(0..31), toeLimit INTEGER(0..10), satInfo SatelliteInfo OPTIONAL, ...} " \o End,
  Begin \o "SatelliteInfo ::= SEQUENCE (SIZE (1..31)) OF SatelliteInfoElement " \o End,
  Begin \o "SatelliteInfoElement ::= SEQUENCE { satId INTEGER(0..63), iode INTEGER(0..255), ...} " \o End,
  Begin \o "PAUTH ::= SEQUENCE { sPCSETKey SPCSETKey, spctid SPCTID, sPCSETKeylifetime " \o
    "SPCSETKeylifetime OPTIONAL, ...} " \o End,
  Begin \o "PALIVE ::= SEQUENCE { sPCStatusCode SPCStatusCode OPTIONAL, ...} " \o End,
  Begin \o "PEND ::= SEQUENCE { position Position OPTIONAL, statusCode StatusCode OPTIONAL, ...} " \o End,
  Begin \o "PMESS ::= SEQUENCE { posPayLoad PosPayLoad, velocity Velocity OPTIONAL, " \o
    "utran-GPSReferenceTimeAssistance UTRAN-GPSReferenceTimeAssistance OPTIONAL, " \o
    "utran-GPSReferenceTimeResult UTRAN-GPSReferenceTimeResult OPTIONAL, " \o
    "utran-GANSSReferenceTimeAssistance UTRAN-GANSSReferenceTimeAssistance OPTIONAL, " \o
    "utran-GANSSReferenceTimeResult UTRAN-GANSSReferenceTimeResult OPTIONAL, ...} " \o End>>
===============================================================================

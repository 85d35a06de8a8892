---------------------------- MODULE UlpSchema ----------------------------
(***************************************************************************)
(* The schema of the User Plane Location Protocol,                         *)
(* src/example/ulp/*.asn: each of its type assignments as a module of its  *)
(* own, with the numbers it uses, and the heads of its modules. Comments   *)
(* are shortened and blanks collapsed.                                     *)
(***************************************************************************)
LOCAL INSTANCE Sequences

LOCAL Begin == "Unit DEFINITIONS AUTOMATIC TAGS ::= BEGIN "
LOCAL End == "END"

\* The heads, with what they export and import, and no assignments.
Heads == <<
  "SUPL-INIT DEFINITIONS AUTOMATIC TAGS ::= BEGIN EXPORTS SUPLINIT, Notification; IMPORTS " \o
    "SLPAddress, QoP, PosMethod FROM ULP-Components Ver2-SUPL-INIT-extension FROM " \o
    "ULP-Version-2-message-extensions Ver2-Notification-extension FROM " \o
    "ULP-Version-2-parameter-extensions;\n" \o End,
  "SUPL-START DEFINITIONS AUTOMATIC TAGS ::= BEGIN EXPORTS SUPLSTART, SETCapabilities; IMPORTS " \o
    "LocationId, QoP FROM ULP-Components Ver2-SUPL-START-extension FROM " \o
    "ULP-Version-2-message-extensions Ver2-SETCapabilities-extension, " \o
    "Ver2-PosProtocol-extension, Ver2-PosTechnology-extension FROM " \o
    "ULP-Version-2-parameter-extensions;\n" \o End,
  "SUPL-RESPONSE DEFINITIONS AUTOMATIC TAGS ::= BEGIN EXPORTS SUPLRESPONSE; IMPORTS PosMethod, " \o
    "SLPAddress FROM ULP-Components Ver2-SUPL-RESPONSE-extension FROM " \o
    "ULP-Version-2-message-extensions;\n" \o End,
  "SUPL-POS-INIT DEFINITIONS AUTOMATIC TAGS ::= BEGIN EXPORTS SUPLPOSINIT; IMPORTS SUPLPOS " \o
    "FROM SUPL-POS SETCapabilities FROM SUPL-START LocationId, Position, Ver FROM ULP-Components " \o
    "Ver2-SUPL-POS-INIT-extension FROM ULP-Version-2-message-extensions " \o
    "Ver2-RequestedAssistData-extension FROM ULP-Version-2-parameter-extensions;\n" \o End,
  "SUPL-POS DEFINITIONS AUTOMATIC TAGS ::= BEGIN EXPORTS SUPLPOS; IMPORTS Velocity FROM " \o
    "ULP-Components Ver2-SUPL-POS-extension FROM ULP-Version-2-message-extensions " \o
    "Ver2-PosPayLoad-extension FROM ULP-Version-2-parameter-extensions;\n" \o End,
  "SUPL-END DEFINITIONS AUTOMATIC TAGS ::= BEGIN EXPORTS SUPLEND; IMPORTS StatusCode, " \o
    "Position, Ver FROM ULP-Components Ver2-SUPL-END-extension FROM " \o
    "ULP-Version-2-message-extensions;\n" \o End,
  "SUPL-AUTH-REQ DEFINITIONS AUTOMATIC TAGS ::= BEGIN EXPORTS SUPLAUTHREQ; IMPORTS Ver FROM " \o
    "ULP-Components SETCapabilities FROM SUPL-START;\n" \o End,
  "SUPL-AUTH-RESP DEFINITIONS AUTOMATIC TAGS ::= BEGIN EXPORTS SUPLAUTHRESP; IMPORTS " \o
    "SPCSETKey, SPCTID, SPCSETKeylifetime FROM Ver2-ULP-Components;\n" \o End,
  "SUPL-NOTIFY DEFINITIONS AUTOMATIC TAGS ::= BEGIN EXPORTS Ver2-SUPLNOTIFY; IMPORTS " \o
    "Notification FROM SUPL-INIT;\n" \o End,
  "SUPL-NOTIFY-RESPONSE DEFINITIONS AUTOMATIC TAGS ::= BEGIN EXPORTS Ver2-SUPLNOTIFYRESPONSE;\n" \o End,
  "SUPL-SET-INIT DEFINITIONS AUTOMATIC TAGS ::= BEGIN EXPORTS Ver2-SUPLSETINIT; IMPORTS SETId, " \o
    "QoP FROM ULP-Components ApplicationID FROM Ver2-ULP-Components;\n" \o End,
  "SUPL-TRIGGERED-START DEFINITIONS AUTOMATIC TAGS ::= BEGIN EXPORTS Ver2-SUPLTRIGGEREDSTART, " \o
    "TriggerType, TriggerParams, maxNumGeoArea, maxAreaId, maxAreaIdList; IMPORTS LocationId, " \o
    "QoP, Ver, Position FROM ULP-Components MultipleLocationIds, CauseCode, ThirdParty, " \o
    "ApplicationID, ReportingCap, Coordinate, CircularArea, EllipticalArea, PolygonArea FROM " \o
    "Ver2-ULP-Components SETCapabilities FROM SUPL-START;\n" \o End,
  "SUPL-TRIGGERED-RESPONSE DEFINITIONS AUTOMATIC TAGS ::= BEGIN EXPORTS " \o
    "Ver2-SUPLTRIGGEREDRESPONSE; IMPORTS PosMethod, SLPAddress FROM ULP-Components " \o
    "SupportedNetworkInformation, SPCSETKey, SPCTID, SPCSETKeylifetime, GNSSPosTechnology FROM " \o
    "Ver2-ULP-Components TriggerParams FROM SUPL-TRIGGERED-START;\n" \o End,
  "SUPL-REPORT DEFINITIONS AUTOMATIC TAGS ::= BEGIN EXPORTS Ver2-SUPLREPORT; IMPORTS " \o
    "SETCapabilities FROM SUPL-START Position, PosMethod, SessionID, Ver FROM ULP-Components " \o
    "MultipleLocationIds, GNSSPosTechnology, GANSSSignals FROM Ver2-ULP-Components maxGANSS FROM " \o
    "ULP-Version-2-parameter-extensions;\n" \o End,
  "SUPL-TRIGGERED-STOP DEFINITIONS AUTOMATIC TAGS ::= BEGIN EXPORTS Ver2-SUPLTRIGGEREDSTOP; " \o
    "IMPORTS StatusCode FROM ULP-Components;\n" \o End,
  "ULP-Version-2-message-extensions DEFINITIONS AUTOMATIC TAGS ::= BEGIN EXPORTS " \o
    "Ver2-SUPL-INIT-extension, Ver2-SUPL-START-extension, Ver2-SUPL-RESPONSEextension, " \o
    "Ver2-SUPL-POS-INIT-extension, Ver2-SUPL-POS-extension, Ver2-SUPLEND-extension; IMPORTS " \o
    "SLPAddress, Position, Ver FROM ULP-Components SETCapabilities FROM SUPL-START " \o
    "SupportedNetworkInformation, GNSSPosTechnology, MultipleLocationIds, " \o
    "UTRAN-GPSReferenceTimeResult, UTRAN-GANSSReferenceTimeResult, " \o
    "UTRANGPSReferenceTimeAssistance, UTRAN-GANSSReferenceTimeAssistance, SPCSETKey, SPCTID, " \o
    "SPCSETKeylifetime, ThirdParty, ApplicationID FROM Ver2-ULP-Components TriggerType FROM " \o
    "SUPL-TRIGGERED-START;\n" \o End,
  "ULP-Version-2-parameter-extensions DEFINITIONS AUTOMATIC TAGS ::= BEGIN EXPORTS maxGANSS, " \o
    "Ver2-Notification-extension, Ver2-SETCapabilities-extension, Ver2-PosProtocol-extension, " \o
    "Ver2-PosTechnology-extension, Ver2-RequestedAssistDataextension, Ver2-PosPayLoad-extension; " \o
    "IMPORTS GANSSSignals, ReportingCap FROM Ver2-ULP-Components maxNumGeoArea, maxAreaId, " \o
    "maxAreaIdList FROM SUPL-TRIGGERED-START;\n" \o End,
  "ULP-Components DEFINITIONS AUTOMATIC TAGS ::= BEGIN EXPORTS Version, SessionID, IPAddress, " \o
    "SLPAddress, LocationId, Position, StatusCode, Velocity, QoP, PosMethod, Ver, SETId, " \o
    "PrimaryCPICH-Info, CellParametersID, FQDN; IMPORTS Ver2-CellInfo-extension FROM " \o
    "Ver2-ULP-Components; -- protocol ve\n" \o End,
  "Ver2-ULP-Components DEFINITIONS AUTOMATIC TAGS ::= BEGIN EXPORTS Ver2-CellInfo-extension, " \o
    "MultipleLocationIds, SupportedNetworkInformation, CauseCode, " \o
    "UTRAN-GPSReferenceTimeAssistance, UTRAN-GPSReferenceTimeResult, SPCSETKey, SPCTID, " \o
    "SPCSETKeylifetime, UTRANGANSSReferenceTimeAssistance, UTRAN-GANSSReferenceTimeResult, " \o
    "GNSSPosTechnology, GANSSSignals, ThirdParty, ApplicationID, ReportingCap, Coordinate, " \o
    "CircularArea, EllipticalArea, PolygonArea; IMPORTS LocationId, PrimaryCPICH-Info, " \o
    "CellParametersID, FQDN FROM ULP-Components;\n" \o End,
  "ULP DEFINITIONS AUTOMATIC TAGS ::= BEGIN IMPORTS Version, SessionID FROM ULP-Components " \o
    "SUPLINIT FROM SUPL-INIT SUPLSTART FROM SUPL-START SUPLRESPONSE FROM SUPL-RESPONSE " \o
    "SUPLPOSINIT FROM SUPL-POS-INIT SUPLPOS FROM SUPL-POS SUPLEND FROM SUPL-END SUPLAUTHREQ FROM " \o
    "SUPL-AUTH-REQ SUPLAUTHRESP FROM SUPL-AUTH-RESP Ver2-SUPLTRIGGEREDSTART FROM " \o
    "SUPL-TRIGGERED-START Ver2-SUPLTRIGGEREDRESPONSE FROM SUPL-TRIGGERED-RESPONSE " \o
    "Ver2-SUPLREPORT FROM SUPL-REPORT Ver2-SUPLTRIGGEREDSTOP FROM SUPL-TRIGGERED-STOP " \o
    "Ver2-SUPLSETINIT FROM SUPL-SET-INIT Ver2-SUPLNOTIFY FROM SUPL-NOTIFY " \o
    "Ver2-SUPLNOTIFYRESPONSE FROM SUPL-NOTIFY-RESPONSE; -- general ULP--\n" \o End>>

Assignments == <<
  Begin \o "SUPLINIT ::= SEQUENCE { posMethod PosMethod, notification Notification OPTIONAL, sLPAddress " \o
    "SLPAddress OPTIONAL, qoP QoP OPTIONAL, sLPMode SLPMode, mac MAC OPTIONAL, -- included fo\n " \o
    "keyIdentity KeyIdentity OPTIONAL, -- included fo\n ..., -- version 2 e\n " \o
    "ver2-SUPL-INIT-extension Ver2-SUPL-INIT-extension OPTIONAL} " \o End,
  Begin \o "maxClientLength INTEGER ::= 50 maxReqLength INTEGER ::= 50 Notification ::= SEQUENCE { " \o
    "notificationType NotificationType, encodingType EncodingType OPTIONAL, requestorId OCTET " \o
    "STRING(SIZE (1..maxReqLength)) OPTIONAL, requestorIdType FormatIndicator OPTIONAL, " \o
    "clientName OCTET STRING(SIZE (1..maxClientLength)) OPTIONAL, clientNameType FormatIndicator " \o
    "OPTIONAL, ..., ver2-Notification-extension Ver2-Notification-extension OPTIONAL} " \o End,
  Begin \o "NotificationType ::= ENUMERATED { noNotificationNoVerification(0), notificationOnly(1), " \o
    "notificationAndVerficationAllowedNA(2), notificationAndVerficationDeniedNA(3), " \o
    "privacyOverride(4), ...} " \o End,
  Begin \o "EncodingType ::= ENUMERATED {ucs2(0), gsmDefault(1), utf8(2), ...} " \o End,
  Begin \o "FormatIndicator ::= ENUMERATED { logicalName(0), e-mailAddress(1), msisdn(2), url(3), " \o
    "sipUrl(4), min(5), mdn(6), iMSPublicidentity(7), ...} " \o End,
  Begin \o "SLPMode ::= ENUMERATED {proxy(0), nonProxy(1)} " \o End,
  Begin \o "MAC ::= BIT STRING(SIZE (64)) -- empty place\n" \o End,
  Begin \o "KeyIdentity ::= BIT STRING(SIZE (128)) -- empty place\n" \o End,
  Begin \o "SUPLSTART ::= SEQUENCE { sETCapabilities SETCapabilities, locationId LocationId, qoP QoP " \o
    "OPTIONAL, ..., -- version 2 e\n ver2-SUPL-START-extension Ver2-SUPL-START-extension " \o
    "OPTIONAL} " \o End,
  Begin \o "SETCapabilities ::= SEQUENCE { posTechnology PosTechnology, prefMethod PrefMethod, " \o
    "posProtocol PosProtocol, ..., ver2-SETCapabilities-extension Ver2-SETCapabilities-extension " \o
    "OPTIONAL} " \o End,
  Begin \o "PosTechnology ::= SEQUENCE { agpsSETassisted BOOLEAN, agpsSETBased BOOLEAN, autonomousGPS " \o
    "BOOLEAN, aflt BOOLEAN, ecid BOOLEAN, eotd BOOLEAN, otdoa BOOLEAN, ..., " \o
    "ver2-PosTechnology-extension Ver2-PosTechnology-extension OPTIONAL} " \o End,
  Begin \o "PrefMethod ::= ENUMERATED { agpsSETassistedPreferred, agpsSETBasedPreferred, noPreference} " \o
    "-- To achieve \n-- kept the sa\n" \o End,
  Begin \o "PosProtocol ::= SEQUENCE { tia801 BOOLEAN, rrlp BOOLEAN, rrc BOOLEAN, ..., " \o
    "ver2-PosProtocol-extension Ver2-PosProtocol-extension OPTIONAL} " \o End,
  Begin \o "SUPLRESPONSE ::= SEQUENCE { posMethod PosMethod, sLPAddress SLPAddress OPTIONAL, sETAuthKey " \o
    "SETAuthKey OPTIONAL, -- included fo\n keyIdentity4 KeyIdentity4 OPTIONAL, -- included fo\n " \o
    "..., -- version 2 e\n ver2-SUPL-RESPONSE-extension Ver2-SUPL-RESPONSE-extension OPTIONAL} " \o End,
  Begin \o "SETAuthKey ::= CHOICE { shortKey BIT STRING(SIZE (128)), longKey BIT STRING(SIZE (256)), " \o
    "...} " \o End,
  Begin \o "KeyIdentity4 ::= BIT STRING(SIZE (128)) " \o End,
  Begin \o "SUPLPOSINIT ::= SEQUENCE { sETCapabilities SETCapabilities, requestedAssistData " \o
    "RequestedAssistData OPTIONAL, locationId LocationId, position Position OPTIONAL, suplpos " \o
    "SUPLPOS OPTIONAL, ver Ver OPTIONAL, ..., -- version 2 e\n ver2-SUPL-POS-INIT-extension " \o
    "Ver2-SUPL-POS-INIT-extension OPTIONAL} " \o End,
  Begin \o "RequestedAssistData ::= SEQUENCE { almanacRequested BOOLEAN, utcModelRequested BOOLEAN, " \o
    "ionosphericModelRequested BOOLEAN, dgpsCorrectionsRequested BOOLEAN, " \o
    "referenceLocationRequested BOOLEAN, -- Note: Used \n referenceTimeRequested BOOLEAN, " \o
    "acquisitionAssistanceRequested BOOLEAN, realTimeIntegrityRequested BOOLEAN, " \o
    "navigationModelRequested BOOLEAN, navigationModelData NavigationModel OPTIONAL, ..., " \o
    "ver2-RequestedAssistData-extension Ver2-RequestedAssistData-extension OPTIONAL} " \o End,
  Begin \o "NavigationModel ::= SEQUENCE { gpsWeek INTEGER(0..1023), gpsToe INTEGER(0..167), nsat " \o
    "INTEGER(0..31), toeLimit INTEGER(0..10), satInfo SatelliteInfo OPTIONAL, ...} -- Further " \o
    "inf\n-- in [3GPP RR\n" \o End,
  Begin \o "SatelliteInfo ::= SEQUENCE (SIZE (1..31)) OF SatelliteInfoElement " \o End,
  Begin \o "SatelliteInfoElement ::= SEQUENCE { satId INTEGER(0..63), iode INTEGER(0..255), ...} " \o End,
  Begin \o "SUPLPOS ::= SEQUENCE { posPayLoad PosPayLoad, velocity Velocity OPTIONAL, ..., -- version 2 " \o
    "e\n ver2-SUPL-POS-extension Ver2-SUPL-POS-extension OPTIONAL} " \o End,
  Begin \o "PosPayLoad ::= CHOICE { tia801payload OCTET STRING(SIZE (1..8192)), rrcPayload OCTET " \o
    "STRING(SIZE (1..8192)), rrlpPayload OCTET STRING(SIZE (1..8192)), ..., " \o
    "ver2-PosPayLoad-extension Ver2-PosPayLoad-extension} " \o End,
  Begin \o "SUPLEND ::= SEQUENCE { position Position OPTIONAL, statusCode StatusCode OPTIONAL, ver Ver " \o
    "OPTIONAL, ..., -- version 2 e\n ver2-SUPL-END-extension Ver2-SUPL-END-extension OPTIONAL} " \o End,
  Begin \o "SUPLAUTHREQ ::= SEQUENCE { ver Ver OPTIONAL, sETCapabilities SETCapabilities OPTIONAL, ...} " \o End,
  Begin \o "SUPLAUTHRESP ::= SEQUENCE { sPCSETKey SPCSETKey, spctid SPCTID, sPCSETKeylifetime " \o
    "SPCSETKeylifetime OPTIONAL, ...} " \o End,
  Begin \o "Ver2-SUPLNOTIFY ::= SEQUENCE { notification Notification, ...} " \o End,
  Begin \o "Ver2-SUPLNOTIFYRESPONSE ::= SEQUENCE { notificationResponse NotificationResponse OPTIONAL, " \o
    "...} " \o End,
  Begin \o "NotificationResponse ::= ENUMERATED {allowed(0), notAllowed(1), ...} " \o End,
  Begin \o "Ver2-SUPLSETINIT ::= SEQUENCE { targetSETID SETId, --Target SETid\n qoP QoP OPTIONAL, " \o
    "applicationID ApplicationID OPTIONAL, ...} " \o End,
  Begin \o "Ver2-SUPLTRIGGEREDSTART ::= SEQUENCE { sETCapabilities SETCapabilities, locationId " \o
    "LocationId, ver Ver OPTIONAL, qoP QoP OPTIONAL, multipleLocationIds MultipleLocationIds " \o
    "OPTIONAL, thirdParty ThirdParty OPTIONAL, applicationID ApplicationID OPTIONAL, triggerType " \o
    "TriggerType OPTIONAL, triggerParams TriggerParams OPTIONAL, position Position OPTIONAL, " \o
    "reportingCap ReportingCap OPTIONAL, causeCode CauseCode OPTIONAL, ...} " \o End,
  Begin \o "TriggerType ::= ENUMERATED { periodic(0), areaEvent(1), ...} " \o End,
  Begin \o "TriggerParams ::= CHOICE { periodicParams PeriodicParams, areaEventParams AreaEventParams, " \o
    "...} " \o End,
  Begin \o "PeriodicParams ::= SEQUENCE{ numberOfFixes INTEGER(1.. 8639999), intervalBetweenFixes " \o
    "INTEGER(1.. 8639999), startTime INTEGER(0..2678400) OPTIONAL, ...} -- intervalBet\n-- " \o
    "numberOfFix\n-- (100 days i\n-- startTime i\n-- a value of \n-- seconds fro\n" \o End,
  Begin \o "maxAreaIdList INTEGER ::= 32 AreaEventParams ::= SEQUENCE { areaEventType AreaEventType, " \o
    "locationEstimate BOOLEAN, repeatedReportingParams RepeatedReportingParams OPTIONAL, " \o
    "startTime INTEGER(0..2678400) OPTIONAL, stopTime INTEGER(0..11318399) OPTIONAL, " \o
    "geographicTargetAreaList GeographicTargetAreaList OPTIONAL, areaIdLists SEQUENCE (SIZE " \o
    "(1..maxAreaIdList)) OF AreaIdList OPTIONAL, ...} -- startTime a\n-- startTime a\n-- from " \o
    "\"now\"\n-- a value of \n-- stopTime mu\n-- stopTime - \n-- (100 days i\n" \o End,
  Begin \o "AreaEventType ::= ENUMERATED {enteringArea(0), insideArea(1), outsideArea(2), " \o
    "leavingArea(3), ...} " \o End,
  Begin \o "RepeatedReportingParams ::= SEQUENCE { minimumIntervalTime INTEGER (1..604800), -- time in " \o
    "sec\nmaximumNumberOfReports INTEGER (1..1024), ...} " \o End,
  Begin \o "maxNumGeoArea INTEGER ::= 32 GeographicTargetAreaList ::= SEQUENCE (SIZE " \o
    "(1..maxNumGeoArea)) OF GeographicTargetArea " \o End,
  Begin \o "GeographicTargetArea ::= CHOICE { circularArea CircularArea, ellipticalArea EllipticalArea, " \o
    "polygonArea PolygonArea, ...} " \o End,
  Begin \o "AreaIdList ::= SEQUENCE { areaIdSet AreaIdSet, areaIdSetType AreaIdSetType OPTIONAL, " \o
    "geoAreaMappingList GeoAreaMappingList OPTIONAL} " \o End,
  Begin \o "maxAreaId INTEGER ::= 256 AreaIdSet ::= SEQUENCE SIZE (1..maxAreaId) OF AreaId " \o End,
  Begin \o "AreaId ::= CHOICE { gSMAreaId GSMAreaId, wCDMAAreaId WCDMAAreaId, -- For TD-SCDM\n" \o
    "cDMAAreaId CDMAAreaId, hRPDAreaId HRPDAreaId, uMBAreaId UMBAreaId, lTEAreaId LTEAreaId, " \o
    "wLANAreaId WLANAreaId, wiMAXAreaId WimaxAreaId, ..., nRAreaId NRAreaId } " \o End,
  Begin \o "GSMAreaId ::= SEQUENCE { refMCC INTEGER(0..999) OPTIONAL, -- Mobile Coun\nrefMNC " \o
    "INTEGER(0..999) OPTIONAL, -- Mobile Netw\nrefLAC INTEGER(0..65535) OPTIONAL, -- Location " \o
    "Ar\nrefCI INTEGER(0..65535) OPTIONAL, -- Cell Id\n...} -- only one of\n" \o End,
  Begin \o "WCDMAAreaId ::= SEQUENCE { refMCC INTEGER(0..999) OPTIONAL, -- Mobile Coun\nrefMNC " \o
    "INTEGER(0..999) OPTIONAL, -- Mobile Netw\n refLAC INTEGER(0..65535) OPTIONAL, -- Location " \o
    "Ar\nrefUC INTEGER(0..268435455) OPTIONAL, -- Cell identi\n...} -- only one of\n" \o End,
  Begin \o "CDMAAreaId::= SEQUENCE { refSID INTEGER(0..65535) OPTIONAL, -- System Id\n refNID " \o
    "INTEGER(0..32767) OPTIONAL, -- Network Id\n refBASEID INTEGER(0..65535) OPTIONAL, -- Base " \o
    "Statio\n...} -- only one of\n" \o End,
  Begin \o "HRPDAreaId::= SEQUENCE { refSECTORID BIT STRING(SIZE (128)), -- HRPD Sector\n...} " \o End,
  Begin \o "UMBAreaId::= SEQUENCE { refMCC INTEGER(0..999) OPTIONAL, -- Mobile Coun\n refMNC " \o
    "INTEGER(0..999) OPTIONAL, -- Mobile Netw\nrefSECTORID BIT STRING(SIZE (128)) OPTIONAL, -- " \o
    "UMB Sector \n...} " \o End,
  Begin \o "LTEAreaId::= SEQUENCE { refMCC INTEGER(0..999) OPTIONAL, -- Mobile Coun\n refMNC " \o
    "INTEGER(0..999) OPTIONAL, -- Mobile Netw\nrefCI BIT STRING(SIZE (29)) OPTIONAL, -- LTE " \o
    "Cell-Id\n...} -- only one of\n-- The LTE Cel\n-- The Most Si\n" \o End,
  Begin \o "WLANAreaId::= SEQUENCE { apMACAddress BIT STRING(SIZE (48)), -- AP MAC Addr\n...} " \o End,
  Begin \o "WimaxAreaId ::= SEQUENCE { bsID-MSB BIT STRING (SIZE(24)) OPTIONAL, bsID-LSB BIT STRING " \o
    "(SIZE(24)) } -- if only LSB\n" \o End,
  Begin \o "NRAreaId ::= SEQUENCE { refMCC INTEGER(0..999) OPTIONAL, -- Mobile Coun\n refMNC " \o
    "INTEGER(0..999) OPTIONAL, -- Mobile Netw\nrefCI BIT STRING(SIZE (36)) OPTIONAL, -- NR " \o
    "Cell-Id\n...} -- only one of\n-- refMCC+refM\n" \o End,
  Begin \o "AreaIdSetType ::= ENUMERATED {border(0), within(1), ...} " \o End,
  Begin \o "maxNumGeoArea INTEGER ::= 32 GeoAreaMappingList ::= SEQUENCE (SIZE (1..maxNumGeoArea)) OF " \o
    "GeoAreaIndex " \o End,
  Begin \o "maxNumGeoArea INTEGER ::= 32 GeoAreaIndex ::= INTEGER (1..maxNumGeoArea) " \o End,
  Begin \o "Ver2-SUPLTRIGGEREDRESPONSE::= SEQUENCE{ posMethod PosMethod, triggerParams TriggerParams " \o
    "OPTIONAL, sLPAddress SLPAddress OPTIONAL, supportedNetworkInformation " \o
    "SupportedNetworkInformation OPTIONAL, reportingMode ReportingMode OPTIONAL, sPCSETKey " \o
    "SPCSETKey OPTIONAL, spctid SPCTID OPTIONAL, sPCSETKeylifetime SPCSETKeylifetime OPTIONAL, " \o
    "gnssPosTechnology GNSSPosTechnology OPTIONAL, ...} " \o End,
  Begin \o "ReportingMode ::= SEQUENCE { repMode RepModee, batchRepConditions BatchRepConditions " \o
    "OPTIONAL, -- only used f\nbatchRepType BatchRepType OPTIONAL, -- only used f\n...} " \o End,
  Begin \o "RepModee ::= ENUMERATED {realtime(1), quasirealtime(2), batch(3), ...} " \o End,
  Begin \o "BatchRepConditions ::= CHOICE { num-interval INTEGER (1..1024), -- number of p\nnum-minutes " \o
    "INTEGER (1..2048), -- number of m\nendofsession NULL, -- if selected\n...} " \o End,
  Begin \o "BatchRepType ::= SEQUENCE { reportPosition BOOLEAN, -- set to \"tru\nreportMeasurements " \o
    "BOOLEAN, -- set to \"tru\nintermediateReports BOOLEAN, -- set to \"tru\ndiscardOldest " \o
    "BOOLEAN OPTIONAL, -- set to \"tru\n...} " \o End,
  Begin \o "Ver2-SUPLREPORT ::= SEQUENCE { sessionList SessionList OPTIONAL, sETCapabilities " \o
    "SETCapabilities OPTIONAL, reportDataList ReportDataList OPTIONAL, ver Ver OPTIONAL, " \o
    "moreComponents NULL OPTIONAL, ...} " \o End,
  Begin \o "maxnumSessions INTEGER ::= 64 SessionList ::= SEQUENCE SIZE (1..maxnumSessions) OF " \o
    "SessionInformation " \o End,
  Begin \o "SessionInformation ::= SEQUENCE { sessionID SessionID, ...} " \o End,
  Begin \o "ReportDataList ::= SEQUENCE SIZE (1.. 1024) OF ReportData " \o End,
  Begin \o "ReportData ::= SEQUENCE { positionData PositionData OPTIONAL, multipleLocationIds " \o
    "MultipleLocationIds OPTIONAL, resultCode ResultCode OPTIONAL, timestamp TimeStamp OPTIONAL, " \o
    "...} " \o End,
  Begin \o "PositionData ::= SEQUENCE { position Position, posMethod PosMethod OPTIONAL, " \o
    "gnssPosTechnology GNSSPosTechnology OPTIONAL, ganssSignalsInfo GANSSsignalsInfo OPTIONAL, " \o
    "...} " \o End,
  Begin \o "maxGANSS INTEGER ::= 16 GANSSsignalsInfo ::= SEQUENCE SIZE (1..maxGANSS) OF " \o
    "GANSSSignalsDescription " \o End,
  Begin \o "GANSSSignalsDescription ::= SEQUENCE { ganssId INTEGER(0..15), -- coding acco\ngANSSSignals " \o
    "GANSSSignals, ...} " \o End,
  Begin \o "ResultCode ::= ENUMERATED {outofradiocoverage(1), noposition(2), nomeasurement(3), " \o
    "nopositionnomeasurement(4), outofmemory(5), outofmemoryintermediatereporting(6), other(7), " \o
    "...} " \o End,
  Begin \o "TimeStamp ::= CHOICE { absoluteTime UTCTime, relativeTime INTEGER (0..31536000)} -- " \o
    "relative ti\n" \o End,
  Begin \o "Ver2-SUPLTRIGGEREDSTOP::= SEQUENCE{ statusCode StatusCode OPTIONAL, ...} " \o End,
  Begin \o "Ver2-SUPL-INIT-extension ::= SEQUENCE { notificationMode NotificationMode OPTIONAL, " \o
    "supportedNetworkInformation SupportedNetworkInformation OPTIONAL, triggerType TriggerType " \o
    "OPTIONAL, e-SLPAddress SLPAddress OPTIONAL, historicReporting HistoricReporting OPTIONAL, " \o
    "protectionLevel ProtectionLevel OPTIONAL, gnssPosTechnology GNSSPosTechnology OPTIONAL, " \o
    "minimumMajorVersion INTEGER (0..255) OPTIONAL, ...} " \o End,
  Begin \o "NotificationMode ::= ENUMERATED {normal(0), basedOnLocation(1), ...} " \o End,
  Begin \o "HistoricReporting ::= SEQUENCE { allowedReportingType AllowedReportingType, " \o
    "reportingCriteria ReportingCriteria OPTIONAL, ...} " \o End,
  Begin \o "AllowedReportingType ::= ENUMERATED { positionsOnly(0), measurementsOnly(1), " \o
    "positionsAndMeasurements(2), ...} " \o End,
  Begin \o "ReportingCriteria ::= SEQUENCE { timeWindow TimeWindow OPTIONAL, maxNumberofReports " \o
    "INTEGER(1..65536) OPTIONAL, minTimeInterval INTEGER(1..86400) OPTIONAL, ...} " \o End,
  Begin \o "TimeWindow ::= SEQUENCE { startTime INTEGER(-525600..-1), -- Time in min\n stopTime " \o
    "INTEGER(-525599..0)} -- Time in min\n" \o End,
  Begin \o "ProtectionLevel ::= SEQUENCE { protlevel ProtLevel, basicProtectionParams " \o
    "BasicProtectionParams OPTIONAL, ...} " \o End,
  Begin \o "ProtLevel ::= ENUMERATED { nullProtection(0), basicProtection(1), ...} " \o End,
  Begin \o "BasicProtectionParams ::= SEQUENCE { keyIdentifier OCTET STRING(SIZE (8)), " \o
    "basicReplayCounter INTEGER(0..65535), basicMAC BIT STRING(SIZE (32)), ...} " \o End,
  Begin \o "Ver2-SUPL-START-extension ::= SEQUENCE { multipleLocationIds MultipleLocationIds OPTIONAL, " \o
    "thirdParty ThirdParty OPTIONAL, applicationID ApplicationID OPTIONAL, position Position " \o
    "OPTIONAL, ...} " \o End,
  Begin \o "Ver2-SUPL-RESPONSE-extension ::= SEQUENCE { supportedNetworkInformation " \o
    "SupportedNetworkInformation OPTIONAL, sPCSETKey SPCSETKey OPTIONAL, spctid SPCTID OPTIONAL, " \o
    "sPCSETKeylifetime SPCSETKeylifetime OPTIONAL, initialApproximateposition Position OPTIONAL, " \o
    "gnssPosTechnology GNSSPosTechnology OPTIONAL, ...} " \o End,
  Begin \o "Ver2-SUPL-POS-INIT-extension ::= SEQUENCE { multipleLocationIds MultipleLocationIds " \o
    "OPTIONAL, utran-GPSReferenceTimeResult UTRAN-GPSReferenceTimeResult OPTIONAL, " \o
    "utran-GANSSReferenceTimeResult UTRAN-GANSSReferenceTimeResult OPTIONAL, ...} " \o End,
  Begin \o "Ver2-SUPL-POS-extension ::= SEQUENCE { utran-GPSReferenceTimeAssistance " \o
    "UTRAN-GPSReferenceTimeAssistance OPTIONAL, utran-GPSReferenceTimeResult " \o
    "UTRAN-GPSReferenceTimeResult OPTIONAL, utran-GANSSReferenceTimeAssistance " \o
    "UTRAN-GANSSReferenceTimeAssistance OPTIONAL, utran-GANSSReferenceTimeResult " \o
    "UTRAN-GANSSReferenceTimeResult OPTIONAL, ...} " \o End,
  Begin \o "Ver2-SUPL-END-extension ::= SEQUENCE { sETCapabilities SETCapabilities OPTIONAL, ...} " \o End,
  Begin \o "Ver2-Notification-extension ::= SEQUENCE { emergencyCallLocation NULL OPTIONAL, ...} " \o End,
  Begin \o "Ver2-SETCapabilities-extension ::= SEQUENCE { serviceCapabilities ServiceCapabilities " \o
    "OPTIONAL, ..., supportedBearers SupportedBearers OPTIONAL} " \o End,
  Begin \o "ServiceCapabilities ::= SEQUENCE { servicesSupported ServicesSupported, " \o
    "reportingCapabilities ReportingCap OPTIONAL, eventTriggerCapabilities " \o
    "EventTriggerCapabilities OPTIONAL, sessionCapabilities SessionCapabilities, ...} " \o End,
  Begin \o "ServicesSupported ::= SEQUENCE { periodicTrigger BOOLEAN, areaEventTrigger BOOLEAN, ...} " \o End,
  Begin \o "maxAreaId INTEGER ::= 256 maxAreaIdList INTEGER ::= 32 maxNumGeoArea INTEGER ::= 32 " \o
    "EventTriggerCapabilities ::= SEQUENCE { geoAreaShapesSupported GeoAreaShapesSupported, " \o
    "maxNumGeoAreaSupported INTEGER (0..maxNumGeoArea) OPTIONAL, maxAreaIdListSupported INTEGER " \o
    "(0..maxAreaIdList) OPTIONAL, maxAreaIdSupportedPerList INTEGER (0..maxAreaId) OPTIONAL, " \o
    "...} " \o End,
  Begin \o "GeoAreaShapesSupported ::= SEQUENCE { ellipticalArea BOOLEAN, polygonArea BOOLEAN, ...} " \o End,
  Begin \o "SessionCapabilities ::= SEQUENCE { maxNumberTotalSessions INTEGER (1..128), " \o
    "maxNumberPeriodicSessions INTEGER (1..32), maxNumberTriggeredSessions INTEGER (1..32), ...} " \o End,
  Begin \o "SupportedBearers ::= SEQUENCE { gsm BOOLEAN, wcdma BOOLEAN, lte BOOLEAN, cdma BOOLEAN, hprd " \o
    "BOOLEAN, umb BOOLEAN, wlan BOOLEAN, wiMAX BOOLEAN, ..., nr BOOLEAN OPTIONAL} " \o End,
  Begin \o "Ver2-PosProtocol-extension ::= SEQUENCE { lpp BOOLEAN, posProtocolVersionRRLP " \o
    "PosProtocolVersion3GPP OPTIONAL, posProtocolVersionRRC PosProtocolVersion3GPP OPTIONAL, " \o
    "posProtocolVersionTIA801 PosProtocolVersion3GPP2 OPTIONAL, posProtocolVersionLPP " \o
    "PosProtocolVersion3GPP OPTIONAL, ..., lppe BOOLEAN OPTIONAL, posProtocolVersionLPPe " \o
    "PosProtocolVersionOMA OPTIONAL} " \o End,
  Begin \o "PosProtocolVersion3GPP ::= SEQUENCE { majorVersionField INTEGER(0..255), " \o
    "technicalVersionField INTEGER(0..255), editorialVersionField INTEGER(0..255), ...} " \o End,
  Begin \o "PosProtocolVersion3GPP2 ::= SEQUENCE (SIZE(1..8)) OF Supported3GPP2PosProtocolVersion " \o End,
  Begin \o "Supported3GPP2PosProtocolVersion ::= SEQUENCE { revisionNumber BIT STRING(SIZE (6)), -- the " \o
    "locatio\n pointReleaseNumber INTEGER(0..255), internalEditLevel INTEGER(0..255), ...} " \o End,
  Begin \o "PosProtocolVersionOMA ::= SEQUENCE { majorVersionField INTEGER(0..255), minorVersionField " \o
    "INTEGER(0..255), ...} " \o End,
  Begin \o "Ver2-PosTechnology-extension ::= SEQUENCE { gANSSPositionMethods GANSSPositionMethods " \o
    "OPTIONAL, ..., additionalPositioningMethods AdditionalPositioningMethods OPTIONAL} " \o End,
  Begin \o "GANSSPositionMethods ::= SEQUENCE (SIZE(1..16)) OF GANSSPositionMethod " \o End,
  Begin \o "GANSSPositionMethod ::= SEQUENCE { ganssId INTEGER(0..15), -- coding acco\nganssSBASid BIT " \o
    "STRING(SIZE(3)) OPTIONAL, --coding accor\ngANSSPositioningMethodTypes " \o
    "GANSSPositioningMethodTypes, gANSSSignals GANSSSignals, ...} " \o End,
  Begin \o "GANSSPositioningMethodTypes ::= SEQUENCE { setAssisted BOOLEAN, setBased BOOLEAN, " \o
    "autonomous BOOLEAN, ...} " \o End,
  Begin \o "AdditionalPositioningMethods ::= SEQUENCE (SIZE(1..8)) OF AddPosSupport-Element " \o End,
  Begin \o "AddPosSupport-Element ::= SEQUENCE { addPosID ENUMERATED { mBS, ... }, addPosMode BIT " \o
    "STRING { standalone (0), setBased (1), setAssisted (2)} (SIZE (1..8)) OPTIONAL, ...} " \o End,
  Begin \o "Ver2-RequestedAssistData-extension ::= SEQUENCE { ganssRequestedCommonAssistanceDataList " \o
    "GanssRequestedCommonAssistanceDataList OPTIONAL, ganssRequestedGenericAssistanceDataList " \o
    "GanssRequestedGenericAssistanceDataList OPTIONAL, extendedEphemeris ExtendedEphemeris " \o
    "OPTIONAL, extendedEphemerisCheck ExtendedEphCheck OPTIONAL, ...} " \o End,
  Begin \o "GanssRequestedCommonAssistanceDataList ::= SEQUENCE { ganssReferenceTime BOOLEAN, " \o
    "ganssIonosphericModel BOOLEAN, ganssAdditionalIonosphericModelForDataID00 BOOLEAN, " \o
    "ganssAdditionalIonosphericModelForDataID11 BOOLEAN, ganssEarthOrientationParameters " \o
    "BOOLEAN, ..., ganssAdditionalIonosphericModelForDataID01 BOOLEAN OPTIONAL} " \o End,
  Begin \o "maxGANSS INTEGER ::= 16 GanssRequestedGenericAssistanceDataList ::= " \o
    "SEQUENCE(SIZE(1..maxGANSS)) OF GanssReqGenericData " \o End,
  Begin \o "GanssReqGenericData ::= SEQUENCE { ganssId INTEGER(0..15), -- coding acco\n ganssSBASid BIT " \o
    "STRING(SIZE(3)) OPTIONAL, --coding accor\n ganssRealTimeIntegrity BOOLEAN, " \o
    "ganssDifferentialCorrection DGANSS-Sig-Id-Req OPTIONAL, ganssAlmanac BOOLEAN, " \o
    "ganssNavigationModelData GanssNavigationModelData OPTIONAL, ganssTimeModels BIT " \o
    "STRING(SIZE(16)) OPTIONAL, ganssReferenceMeasurementInfo BOOLEAN, ganssDataBits " \o
    "GanssDataBits OPTIONAL, ganssUTCModel BOOLEAN, ganssAdditionalDataChoices " \o
    "GanssAdditionalDataChoices OPTIONAL, ganssAuxiliaryInformation BOOLEAN, " \o
    "ganssExtendedEphemeris ExtendedEphemeris OPTIONAL, ganssExtendedEphemerisCheck " \o
    "GanssExtendedEphCheck OPTIONAL, ..., bds-DifferentialCorrection BDS-Sig-Id-Req OPTIONAL, " \o
    "bds-GridModelReq BOOLEAN OPTIONAL} " \o End,
  Begin \o "DGANSS-Sig-Id-Req ::= BIT STRING (SIZE(8)) -- coding acco\n" \o End,
  Begin \o "BDS-Sig-Id-Req ::= BIT STRING (SIZE(8)) -- coding acco\n" \o End,
  Begin \o "GanssNavigationModelData ::= SEQUENCE { ganssWeek INTEGER(0..4095), ganssToe " \o
    "INTEGER(0..167), t-toeLimit INTEGER(0..15), satellitesListRelatedDataList " \o
    "SatellitesListRelatedDataList OPTIONAL, ...} " \o End,
  Begin \o "maxGANSSSat INTEGER ::= 32 SatellitesListRelatedDataList ::= SEQUENCE(SIZE(0..maxGANSSSat)) " \o
    "OF SatellitesListRelatedData " \o End,
  Begin \o "SatellitesListRelatedData ::= SEQUENCE { satId INTEGER(0..63), iod INTEGER(0..1023), ...} " \o End,
  Begin \o "GanssDataBits ::= SEQUENCE { ganssTODmin INTEGER (0..59), reqDataBitAssistanceList " \o
    "ReqDataBitAssistanceList, ...} " \o End,
  Begin \o "maxGANSSSat INTEGER ::= 32 ReqDataBitAssistanceList ::= SEQUENCE { gnssSignals " \o
    "GANSSSignals, ganssDataBitInterval INTEGER (0..15), ganssDataBitSatList SEQUENCE " \o
    "(SIZE(1..maxGANSSSat)) OF INTEGER (0..63) OPTIONAL, ...} " \o End,
  Begin \o "GanssAdditionalDataChoices ::= SEQUENCE { orbitModelID INTEGER(0..7) OPTIONAL, clockModelID " \o
    "INTEGER(0..7) OPTIONAL, utcModelID INTEGER(0..7) OPTIONAL, almanacModelID INTEGER(0..7) " \o
    "OPTIONAL, ...} " \o End,
  Begin \o "ExtendedEphemeris ::= SEQUENCE { validity INTEGER (1..256), -- Requested v\n ...} " \o End,
  Begin \o "ExtendedEphCheck ::= SEQUENCE { beginTime GPSTime, -- Begin time \n endTime GPSTime, -- End " \o
    "time of\n ...} " \o End,
  Begin \o "GanssExtendedEphCheck ::= SEQUENCE { beginTime GANSSextEphTime, -- Begin time \n endTime " \o
    "GANSSextEphTime, -- End time of\n ...} " \o End,
  Begin \o "GPSTime ::= SEQUENCE { gPSWeek INTEGER (0..1023), gPSTOWhour INTEGER (0..167), ...} " \o End,
  Begin \o "GANSSextEphTime ::= SEQUENCE { gANSSday INTEGER (0..8191), gANSSTODhour INTEGER (0..23), " \o
    "...} " \o End,
  Begin \o "Ver2-PosPayLoad-extension ::= SEQUENCE { lPPPayload SEQUENCE (SIZE (1..3)) OF OCTET " \o
    "STRING(SIZE (1..60000)) OPTIONAL, tia801Payload SEQUENCE (SIZE(1..3)) OF OCTET STRING(SIZE " \o
    "(1..60000)) OPTIONAL, ...} " \o End,
  Begin \o "Version ::= SEQUENCE { maj INTEGER(0..255), min INTEGER(0..255), servind INTEGER(0..255)} " \o End,
  Begin \o "SessionID ::= SEQUENCE { setSessionID SetSessionID OPTIONAL, -- the semanti\n--INIT " \o
    "message\n slpSessionID SlpSessionID OPTIONAL -- the semanti\n} " \o End,
  Begin \o "SetSessionID ::= SEQUENCE {sessionId INTEGER(0..65535), setId SETId} " \o End,
  Begin \o "SETId ::= CHOICE { msisdn OCTET STRING(SIZE (8)), mdn OCTET STRING(SIZE (8)), min BIT " \o
    "STRING(SIZE (34)), -- coded accor\n imsi OCTET STRING(SIZE (8)), nai IA5String(SIZE " \o
    "(1..1000)), iPAddress IPAddress, ..., ver2-imei OCTET STRING(SIZE(8))} -- msisdn, mnd\n-- " \o
    "represent d\n-- two digits \n-- bits 8765 o\n-- bits 4321 o\n-- not used di\n-- imei SHALL " \o
    "\n-- or greater\n" \o End,
  Begin \o "SlpSessionID ::= SEQUENCE { sessionID OCTET STRING(SIZE (4)), slpId SLPAddress} " \o End,
  Begin \o "IPAddress ::= CHOICE { ipv4Address OCTET STRING(SIZE (4)), ipv6Address OCTET STRING(SIZE " \o
    "(16))} " \o End,
  Begin \o "SLPAddress ::= CHOICE {iPAddress IPAddress, fqdn FQDN, ...} " \o End,
  Begin \o "FQDN ::= VisibleString(FROM (\"a\"..\"z\" | \"A\"..\"Z\" | \"0\"..\"9\" |\".-\"))(SIZE " \o
    "(1..255)) " \o End,
  Begin \o "Ver ::= BIT STRING(SIZE (64)) " \o End,
  Begin \o "LocationId ::= SEQUENCE {cellInfo CellInfo, status Status, ...} " \o End,
  Begin \o "Status ::= ENUMERATED {stale(0), current(1), unknown(2), ...} " \o End,
  Begin \o "CellInfo ::= CHOICE { gsmCell GsmCellInformation, wcdmaCell WcdmaCellInformation, --WCDMA " \o
    "Cell I\n--Information\n cdmaCell CdmaCellInformation, ..., ver2-CellInfo-extension " \o
    "Ver2-CellInfo-extension} " \o End,
  Begin \o "Position ::= SEQUENCE { timestamp UTCTime, -- shall inclu\n positionEstimate " \o
    "PositionEstimate, velocity Velocity OPTIONAL, ...} " \o End,
  Begin \o "PositionEstimate ::= SEQUENCE { latitudeSign ENUMERATED {north, south}, latitude " \o
    "INTEGER(0..8388607), longitude INTEGER(-8388608..8388607), uncertainty SEQUENCE " \o
    "{uncertaintySemiMajor INTEGER(0..127), uncertaintySemiMinor INTEGER(0..127), " \o
    "orientationMajorAxis INTEGER(0..180)} OPTIONAL, -- angle in de\n confidence INTEGER(0..100) " \o
    "OPTIONAL, altitudeInfo AltitudeInfo OPTIONAL, ...} -- Coding as i\n" \o End,
  Begin \o "AltitudeInfo ::= SEQUENCE { altitudeDirection ENUMERATED {height, depth}, altitude " \o
    "INTEGER(0..32767), altUncertainty INTEGER(0..127), ... } -- based on [3\n " \o End,
  Begin \o "CdmaCellInformation ::= SEQUENCE { refNID INTEGER(0..65535), -- Network Id\n refSID " \o
    "INTEGER(0..32767), -- System Id\n refBASEID INTEGER(0..65535), -- Base Statio\n refBASELAT " \o
    "INTEGER(0..4194303), -- Base Statio\n reBASELONG INTEGER(0..8388607), -- Base Statio\n " \o
    "refREFPN INTEGER(0..511), -- Base Statio\n refWeekNumber INTEGER(0..65535), -- GPS Week Nu\n" \o
    " refSeconds INTEGER(0..4194303), -- GPS Seconds\n ...} " \o End,
  Begin \o "GsmCellInformation ::= SEQUENCE { refMCC INTEGER(0..999), -- Mobile Coun\n refMNC " \o
    "INTEGER(0..999), -- Mobile Netw\n refLAC INTEGER(0..65535), -- Location ar\n refCI " \o
    "INTEGER(0..65535), -- Cell identi\n nmr NMR OPTIONAL, ta INTEGER(0..255) OPTIONAL, --Timing " \o
    "Advan\n ...} " \o End,
  Begin \o "WcdmaCellInformation ::= SEQUENCE { refMCC INTEGER(0..999), -- Mobile Coun\n refMNC " \o
    "INTEGER(0..999), -- Mobile Netw\n refUC INTEGER(0..268435455), -- Cell identi\n " \o
    "frequencyInfo FrequencyInfo OPTIONAL, primaryScramblingCode INTEGER(0..511) OPTIONAL, -- " \o
    "Not applica\n measuredResultsList MeasuredResultsList OPTIONAL, ..., cellParametersId " \o
    "INTEGER(0..127) OPTIONAL, -- Not applica\n timingAdvance TimingAdvance OPTIONAL -- Not " \o
    "applica\n} " \o End,
  Begin \o "TimingAdvance ::= SEQUENCE { ta INTEGER (0..8191), tAResolution TAResolution OPTIONAL, --If " \o
    "missing, \nchipRate ChipRate OPTIONAL, --If missing, \n...} " \o End,
  Begin \o "TAResolution ::= ENUMERATED {res10chip(0),res05chip(1),res0125chip(2), ...} --\n" \o
    "--Correspondin\n" \o End,
  Begin \o "ChipRate ::= ENUMERATED {tdd128(0),tdd384(1), tdd768(2), ...} --Correspondin\n--to " \o
    "1.28-Mchi\n" \o End,
  Begin \o "FrequencyInfo ::= SEQUENCE { modeSpecificInfo CHOICE {fdd FrequencyInfoFDD, tdd " \o
    "FrequencyInfoTDD, ...}, ...} " \o End,
  Begin \o "FrequencyInfoFDD ::= SEQUENCE { uarfcn-UL UARFCN OPTIONAL, uarfcn-DL UARFCN, ...} " \o End,
  Begin \o "FrequencyInfoTDD ::= SEQUENCE {uarfcn-Nt UARFCN, ...} " \o End,
  Begin \o "UARFCN ::= INTEGER(0..16383) " \o End,
  Begin \o "NMR ::= SEQUENCE (SIZE (1..15)) OF NMRelement " \o End,
  Begin \o "NMRelement ::= SEQUENCE { arfcn INTEGER(0..1023), bsic INTEGER(0..63), rxLev " \o
    "INTEGER(0..63), ...} " \o End,
  Begin \o "maxFreq INTEGER ::= 8 MeasuredResultsList ::= SEQUENCE (SIZE (1..maxFreq)) OF " \o
    "MeasuredResults " \o End,
  Begin \o "MeasuredResults ::= SEQUENCE { frequencyInfo FrequencyInfo OPTIONAL, utra-CarrierRSSI " \o
    "UTRA-CarrierRSSI OPTIONAL, cellMeasuredResultsList CellMeasuredResultsList OPTIONAL} " \o End,
  Begin \o "maxCellMeas INTEGER ::= 32 CellMeasuredResultsList ::= SEQUENCE (SIZE (1..maxCellMeas)) OF " \o
    "CellMeasuredResults -- SPARE: UTRA\n-- Values abov\n" \o End,
  Begin \o "UTRA-CarrierRSSI ::= INTEGER(0..127) " \o End,
  Begin \o "CellMeasuredResults ::= SEQUENCE { cellIdentity INTEGER(0..268435455) OPTIONAL, " \o
    "modeSpecificInfo CHOICE {fdd SEQUENCE {primaryCPICH-Info PrimaryCPICH-Info, cpich-Ec-N0 " \o
    "CPICH-Ec-N0 OPTIONAL, cpich-RSCP CPICH-RSCP OPTIONAL, pathloss Pathloss OPTIONAL}, tdd " \o
    "SEQUENCE {cellParametersID CellParametersID, proposedTGSN TGSN OPTIONAL, primaryCCPCH-RSCP " \o
    "PrimaryCCPCH-RSCP OPTIONAL, pathloss Pathloss OPTIONAL, timeslotISCP-List TimeslotISCP-List " \o
    "OPTIONAL --NOTE:\n--TimeSlotISCP\n--Cell Info as\n}}} " \o End,
  Begin \o "CellParametersID ::= INTEGER(0..127) " \o End,
  Begin \o "TGSN ::= INTEGER(0..14) " \o End,
  Begin \o "PrimaryCCPCH-RSCP ::= INTEGER(0..127) -- SPARE: Time\n-- Values abov\n" \o End,
  Begin \o "TimeslotISCP ::= INTEGER(0..127) " \o End,
  Begin \o "maxTS INTEGER ::= 14 TimeslotISCP-List ::= SEQUENCE (SIZE (1..maxTS)) OF TimeslotISCP " \o End,
  Begin \o "PrimaryCPICH-Info ::= SEQUENCE {primaryScramblingCode INTEGER(0..511)} -- SPARE: CPIC\n-- " \o
    "Values abov\n" \o End,
  Begin \o "CPICH-Ec-N0 ::= INTEGER(0..63) -- SPARE: CPIC\n-- Values from\n-- the encodin\n-- " \o
    "cpich-RSCP \n-- cpich-RSCP \n-- cpich-RSCP \n-- cpich-RSCP \n-- cpich-RSCP \n-- cpich-RSCP " \o
    "\n-- cpich-RSCP \n-- ... ... ...\n-- cpich-RSCP \n-- cpich-RSCP \n-- cpich-RSCP \n" \o End,
  Begin \o "CPICH-RSCP ::= INTEGER(0..127) -- SPARE: Path\n-- Values abov\n" \o End,
  Begin \o "Pathloss ::= INTEGER(46..173) " \o End,
  Begin \o "StatusCode ::= ENUMERATED { unspecified(0), systemFailure(1), unexpectedMessage(2), " \o
    "protocolError(3), dataMissing(4), unexpectedDataValue(5), posMethodFailure(6), " \o
    "posMethodMismatch(7), posProtocolMismatch(8), targetSETnotReachable(9), " \o
    "versionNotSupported(10), resourceShortage(11), invalidSessionId(12), " \o
    "nonProxyModeNotSupported(13), proxyModeNotSupported(14), positioningNotPermitted(15), " \o
    "authNetFailure(16), authSuplinitFailure(17), consentDeniedByUser(100), " \o
    "consentGrantedByUser(101), ..., ver2-incompatibleProtectionLevel(18), " \o
    "ver2-serviceNotSupported(19), ver2-insufficientInterval(20), ver2-noSUPLCoverage(21), " \o
    "ver2-sessionStopped(102),ver2-appIdDenied(103)} " \o End,
  Begin \o "QoP ::= SEQUENCE { horacc INTEGER(0..127), veracc INTEGER(0..127) OPTIONAL, -- as defined \n" \o
    "--altitude\"\n maxLocAge INTEGER(0..65535) OPTIONAL, delay INTEGER(0..7) OPTIONAL, -- as " \o
    "defined \n ..., ver2-responseTime INTEGER (1..128) OPTIONAL} " \o End,
  Begin \o "Velocity ::= CHOICE { -- velocity de\nhorvel Horvel, horandvervel Horandvervel, " \o
    "horveluncert Horveluncert, horandveruncert Horandveruncert, ...} " \o End,
  Begin \o "Horvel ::= SEQUENCE { bearing BIT STRING(SIZE (9)), horspeed BIT STRING(SIZE (16)), ...} " \o End,
  Begin \o "Horandvervel ::= SEQUENCE { verdirect BIT STRING(SIZE (1)), bearing BIT STRING(SIZE (9)), " \o
    "horspeed BIT STRING(SIZE (16)), verspeed BIT STRING(SIZE (8)), ...} " \o End,
  Begin \o "Horveluncert ::= SEQUENCE { bearing BIT STRING(SIZE (9)), horspeed BIT STRING(SIZE (16)), " \o
    "uncertspeed BIT STRING(SIZE (8)), ...} " \o End,
  Begin \o "Horandveruncert ::= SEQUENCE { verdirect BIT STRING(SIZE (1)), bearing BIT STRING(SIZE " \o
    "(9)), horspeed BIT STRING(SIZE (16)), verspeed BIT STRING(SIZE (8)), horuncertspeed BIT " \o
    "STRING(SIZE (8)), veruncertspeed BIT STRING(SIZE (8)), ...} " \o End,
  Begin \o "PosMethod ::= ENUMERATED { agpsSETassisted(0), agpsSETbased(1), agpsSETassistedpref(2), " \o
    "agpsSETbasedpref(3), autonomousGPS(4), aflt(5), ecid(6), eotd(7), otdoa(8), noPosition(9), " \o
    "..., ver2-historicalDataRetrieval(10), ver2-agnssSETassisted(11), ver2-agnssSETbased(12), " \o
    "ver2-agnssSETassistedpref(13), ver2-agnssSETbasedpref(14), ver2-autonomousGNSS(15), " \o
    "ver2-sessioninfoquery(16), ver2-mbs(17)} " \o End,
  Begin \o "maxLidSize INTEGER ::= 64 MultipleLocationIds ::= SEQUENCE SIZE (1..maxLidSize) OF " \o
    "LocationIdData " \o End,
  Begin \o "LocationIdData ::= SEQUENCE { locationId LocationId, relativetimestamp RelativeTime " \o
    "OPTIONAL, -- if relative\n--present, the\n--represents c\nservingFlag BOOLEAN, -- if " \o
    "\"true\" m\n...} " \o End,
  Begin \o "RelativeTime ::= INTEGER (0..65535) -- relative ti\n--in multiples\n" \o End,
  Begin \o "SupportedNetworkInformation ::= SEQUENCE { wlan BOOLEAN, supportedWLANInfo " \o
    "SupportedWLANInfo OPTIONAL, supportedWLANApsList SupportedWLANApsList OPTIONAL, gsm " \o
    "BOOLEAN, wcdma BOOLEAN, supportedWCDMAInfo SupportedWCDMAInfo OPTIONAL, cdma BOOLEAN, hrdp " \o
    "BOOLEAN, umb BOOLEAN, lte BOOLEAN, wimax BOOLEAN, historic BOOLEAN, nonServing BOOLEAN, " \o
    "uTRANGPSReferenceTime BOOLEAN, uTRANGANSSReferenceTime BOOLEAN, ..., nr BOOLEAN OPTIONAL} " \o End,
  Begin \o "SupportedWLANInfo ::= SEQUENCE { apTP BOOLEAN, -- AP transmit\n apAG BOOLEAN, -- AP antenna " \o
    "\n apSN BOOLEAN, -- AP S/N rece\n apDevType BOOLEAN, -- Device type\n apRSSI BOOLEAN, -- AP " \o
    "signal s\n apChanFreq BOOLEAN, -- AP channel/\n apRTD BOOLEAN, -- Round Trip \n setTP " \o
    "BOOLEAN, -- SET transmi\n setAG BOOLEAN, -- SET antenna\n setSN BOOLEAN, -- SET S/N rec\n " \o
    "setRSSI BOOLEAN, -- SET signal \n apRepLoc BOOLEAN, -- AP Location\n ..., apRL BOOLEAN " \o
    "OPTIONAL, -- AP Location\n--IEEE802.11)\n opClass BOOLEAN OPTIONAL, -- operating c\n apSSID " \o
    "BOOLEAN OPTIONAL, -- SSID of the\n apPHYType BOOLEAN OPTIONAL, -- AP PHY Type\n " \o
    "setMACAddress BOOLEAN OPTIONAL -- SET MAC Add\n} " \o End,
  Begin \o "maxWLANApDataSize INTEGER ::= 128 SupportedWLANApsList ::= SEQUENCE { " \o
    "supportedWLANApDataList SEQUENCE (SIZE (1..maxWLANApDataSize)) OF SupportedWLANApData, " \o
    "supportedWLANapsChannel11a SupportedWLANApsChannel11a OPTIONAL, supportedWLANapsChannel11bg " \o
    "SupportedWLANApsChannel11bg OPTIONAL, ... } " \o End,
  Begin \o "SupportedWLANApsChannel11a ::= SEQUENCE { ch34 BOOLEAN, ch36 BOOLEAN, ch38 BOOLEAN, ch40 " \o
    "BOOLEAN, ch42 BOOLEAN, ch44 BOOLEAN, ch46 BOOLEAN, ch48 BOOLEAN, ch52 BOOLEAN, ch56 " \o
    "BOOLEAN, ch60 BOOLEAN, ch64 BOOLEAN, ch149 BOOLEAN, ch153 BOOLEAN, ch157 BOOLEAN, ch161 " \o
    "BOOLEAN } " \o End,
  Begin \o "SupportedWLANApsChannel11bg ::= SEQUENCE { ch1 BOOLEAN, ch2 BOOLEAN, ch3 BOOLEAN, ch4 " \o
    "BOOLEAN, ch5 BOOLEAN, ch6 BOOLEAN, ch7 BOOLEAN, ch8 BOOLEAN, ch9 BOOLEAN, ch10 BOOLEAN, " \o
    "ch11 BOOLEAN, ch12 BOOLEAN, ch13 BOOLEAN, ch14 BOOLEAN } " \o End,
  Begin \o "SupportedWLANApData ::= SEQUENCE { apMACAddress BIT STRING (SIZE (48)), apDevType " \o
    "ENUMERATED {wlan802-11a(0), wlan802-11b(1), wlan802-11g(2), ...}, ...} " \o End,
  Begin \o "SupportedWCDMAInfo ::= SEQUENCE { mrl BOOLEAN, -- Measured Re\n ...} " \o End,
  Begin \o "Ver2-CellInfo-extension ::= CHOICE { hrpdCell HrpdCellInformation, umbCell " \o
    "UmbCellInformation, lteCell LteCellInformation, wlanAP WlanAPInformation, wimaxBS " \o
    "WimaxBSInformation, ..., nrCell NRCellInformation} " \o End,
  Begin \o "HrpdCellInformation ::= SEQUENCE { refSECTORID BIT STRING(SIZE (128)) OPTIONAL, -- HRPD " \o
    "Sector\n refBASELAT INTEGER(0..4194303), -- Base Statio\n reBASELONG INTEGER(0..8388607), " \o
    "-- Base Statio\n refWeekNumber INTEGER(0..65535), -- GPS Week Nu\n refSeconds " \o
    "INTEGER(0..4194303), -- GPS Seconds\n ...} " \o End,
  Begin \o "UmbCellInformation ::= SEQUENCE { refSECTORID BIT STRING(SIZE (128)), -- UMB Sector \n " \o
    "refMCC INTEGER(0..999), -- Mobile Coun\n refMNC INTEGER(0..999), -- Mobile Netw\n " \o
    "refBASELAT INTEGER(0..4194303), -- Base Statio\n reBASELONG INTEGER(0..8388607), -- Base " \o
    "Statio\n refWeekNumber INTEGER(0..65535), -- GPS Week Nu\n refSeconds INTEGER(0..4194303), " \o
    "-- GPS Seconds\n ...} -- LTE Cell in\n-- If not othe\n" \o End,
  Begin \o "LteCellInformation ::= SEQUENCE { cellGlobalIdEUTRA CellGlobalIdEUTRA, physCellId " \o
    "PhysCellId, trackingAreaCode TrackingAreaCode, rsrpResult RSRP-Range OPTIONAL, rsrqResult " \o
    "RSRQ-Range OPTIONAL, ta INTEGER(0..1282) OPTIONAL, -- Currently u\n--(N_TA/16 as \n " \o
    "measResultListEUTRA MeasResultListEUTRA OPTIONAL, --Neighbour me\n ..., earfcn " \o
    "INTEGER(0..65535) OPTIONAL, -- see Table 3\n earfcn-ext INTEGER (65536..262143) OPTIONAL, " \o
    "-- see Table 3\n rsrpResult-ext RSRP-Range-Ext OPTIONAL, rsrqResult-ext RSRQ-Range-Ext " \o
    "OPTIONAL, rs-sinrResult RS-SINR-Range OPTIONAL, servingInformation5G ServingInformation5G " \o
    "OPTIONAL } -- If rsrpResu\n-- If rsrqResu\n-- be included\n-- If rsrqResu\n--shall\n-- be " \o
    "excluded\n-- rsrqResult\n-- servingInfo\n-- Measured re\n" \o End,
  Begin \o "maxCellReport INTEGER ::= 8 MeasResultListEUTRA ::= SEQUENCE (SIZE (1..maxCellReport)) OF " \o
    "MeasResultEUTRA " \o End,
  Begin \o "MeasResultEUTRA ::= SEQUENCE { physCellId PhysCellId, cgi-Info SEQUENCE { cellGlobalId " \o
    "CellGlobalIdEUTRA, trackingAreaCode TrackingAreaCode } OPTIONAL, measResult SEQUENCE { " \o
    "rsrpResult RSRP-Range OPTIONAL, -- Mapping to \nrsrqResult RSRQ-Range OPTIONAL, -- in 3GPP " \o
    "TS \n..., earfcn INTEGER(0..65535) OPTIONAL, -- see Table 3\nearfcn-ext INTEGER " \o
    "(65536..262143) OPTIONAL, -- see Table 3\n rsrpResult-ext RSRP-Range-Ext OPTIONAL, " \o
    "rsrqResult-ext RSRQ-Range-Ext OPTIONAL, rs-sinrResult RS-SINR-Range OPTIONAL, " \o
    "neighbourInformation5G NeighbourInformation5G OPTIONAL } } -- If rsrpResu\n-- If rsrqResu\n" \o
    "-- be included\n-- If rsrqResu\n--shall\n-- be excluded\n-- rsrqResult\n-- neighbourIn\n" \o End,
  Begin \o "PhysCellId ::= INTEGER (0..503) " \o End,
  Begin \o "TrackingAreaCode ::= BIT STRING (SIZE (16)) " \o End,
  Begin \o "CellGlobalIdEUTRA ::= SEQUENCE { plmn-Identity PLMN-Identity, cellIdentity CellIdentity, " \o
    "... } " \o End,
  Begin \o "PLMN-Identity ::= SEQUENCE { mcc MCC OPTIONAL, mnc MNC } " \o End,
  Begin \o "CellIdentity ::= BIT STRING (SIZE (28)) " \o End,
  Begin \o "MCC ::= SEQUENCE (SIZE (3)) OF MCC-MNC-Digit " \o End,
  Begin \o "MNC ::= SEQUENCE (SIZE (2..3)) OF MCC-MNC-Digit " \o End,
  Begin \o "MCC-MNC-Digit ::= INTEGER (0..9) " \o End,
  Begin \o "RSRP-Range ::= INTEGER(0..97) " \o End,
  Begin \o "RSRQ-Range ::= INTEGER(0..34) " \o End,
  Begin \o "RSRP-Range-Ext ::= INTEGER(-17..-1) " \o End,
  Begin \o "RSRQ-Range-Ext ::= INTEGER(-30..46) " \o End,
  Begin \o "RS-SINR-Range ::= INTEGER(0..127) " \o End,
  Begin \o "ServingInformation5G ::= SEQUENCE { trackingAreaCode TrackingAreaCodeNR, ... } " \o End,
  Begin \o "NeighbourInformation5G ::= SEQUENCE { trackingAreaCode TrackingAreaCodeNR OPTIONAL, ... } " \o End,
  Begin \o "WlanAPInformation ::= SEQUENCE { -- as per [IEE\n apMACAddress BIT STRING(SIZE (48)), -- AP " \o
    "MAC Addr\n apTransmitPower INTEGER(-127..128) OPTIONAL, -- AP transmit\n apAntennaGain " \o
    "INTEGER(-127..128) OPTIONAL, -- AP antenna \n apSignaltoNoise INTEGER(-127..128) OPTIONAL, " \o
    "-- AP S/N rece\n apDeviceType ENUMERATED {wlan802-11a(0), wlan802-11b(1), wlan802-11g(2), " \o
    "..., wlan802-11n(3), wlan802-11ac(4), wlan802-11ad(5)} OPTIONAL, apSignalStrength " \o
    "INTEGER(-127..128) OPTIONAL, -- AP signal s\n apChannelFrequency INTEGER(0..256) OPTIONAL, " \o
    "-- AP channel/\n apRoundTripDelay RTD OPTIONAL, -- Round Trip \n setTransmitPower " \o
    "INTEGER(-127..128) OPTIONAL, -- SET transmi\n setAntennaGain INTEGER (-127..128) OPTIONAL, " \o
    "-- SET antenna\n setSignaltoNoise INTEGER (-127..128) OPTIONAL, -- SET S/N rec\n " \o
    "setSignalStrength INTEGER(-127..128) OPTIONAL, -- SET signal \n apReportedLocation " \o
    "ReportedLocation OPTIONAL, -- AP Location\n--(legacy enco\n ..., apRepLocation RepLocation " \o
    "OPTIONAL, -- AP Location\n apSignalStrengthDelta INTEGER (0..1) OPTIONAL, -- see Table 4\n " \o
    "apSignaltoNoiseDelta INTEGER (0..1) OPTIONAL, -- see Table 4\n setSignalStrengthDelta " \o
    "INTEGER (0..1) OPTIONAL, -- see Table 4\n setSignaltoNoiseDelta INTEGER (0..1) OPTIONAL, -- " \o
    "see Table 4\n operatingClass INTEGER (0..255) OPTIONAL, apSSID OCTET STRING (SIZE (1..32)) " \o
    "OPTIONAL, apPHYType ENUMERATED {unknown(0), any(1), fhss(2), dsss(3), irbaseband(4), " \o
    "ofdm(5), hrdsss(6), erp(7), ht(8), ihv(9), ...} OPTIONAL, setMACAddress BIT STRING(SIZE " \o
    "(48)) OPTIONAL -- MAC Address\n--SET to conne\n} " \o End,
  Begin \o "RTD ::= SEQUENCE { -- as per [IEE\n rTDValue INTEGER(0..16777216), -- measured RT\n-- about " \o
    "500km\n rTDUnits RTDUnits, -- units of RT\n rTDAccuracy INTEGER(0..255) OPTIONAL, -- RTD " \o
    "accurac\n ...} " \o End,
  Begin \o "RTDUnits ::= ENUMERATED { microseconds(0), hundredsofnanoseconds(1), tensofnanoseconds(2), " \o
    "nanoseconds(3), tenthsofnanoseconds(4), ...} " \o End,
  Begin \o "ReportedLocation ::= SEQUENCE { -- as per [IEE\n locationEncodingDescriptor " \o
    "LocationEncodingDescriptor, locationData LocationData, -- location da\n ...} " \o End,
  Begin \o "LocationEncodingDescriptor ::= ENUMERATED { lci(0), asn1(1), ...} " \o End,
  Begin \o "LocationData ::= SEQUENCE { locationAccuracy INTEGER(0..4294967295) OPTIONAL, locationValue " \o
    "OCTET STRING (SIZE(1..128)), ...} " \o End,
  Begin \o "RepLocation ::= CHOICE { lciLocData LciLocData, -- location da\n--[IEEE 802.11\n ... -- " \o
    "future form\n} " \o End,
  Begin \o "LciLocData ::= SEQUENCE { locationDataLCI LocationDataLCI OPTIONAL, ...} " \o End,
  Begin \o "LocationDataLCI ::= SEQUENCE { latitudeResolution BIT STRING (SIZE (6)), latitude BIT " \o
    "STRING (SIZE (34)), longitudeResolution BIT STRING (SIZE (6)), longitude BIT STRING (SIZE " \o
    "(34)), altitudeType BIT STRING (SIZE (4)), altitudeResolution BIT STRING (SIZE (6)), " \o
    "altitude BIT STRING (SIZE (30)), datum BIT STRING (SIZE (8)), ...} " \o End,
  Begin \o "WimaxBSInformation ::= SEQUENCE { wimaxBsID WimaxBsID, -- WiMax servi\n wimaxRTD WimaxRTD " \o
    "OPTIONAL, -- Round Trip \n wimaxNMRList WimaxNMRList OPTIONAL, -- Network mea\n ...} " \o End,
  Begin \o "WimaxBsID ::= SEQUENCE { bsID-MSB BIT STRING (SIZE(24)) OPTIONAL, bsID-LSB BIT STRING " \o
    "(SIZE(24)), ...} -- if only LSB\n--serving BS o\n" \o End,
  Begin \o "WimaxRTD ::= SEQUENCE { rtd INTEGER (0..65535), -- Round trip \n--ns\n rTDstd INTEGER " \o
    "(0..1023) OPTIONAL, -- Standard de\n--in units of \n...} " \o End,
  Begin \o "maxWimaxBSMeas INTEGER ::= 32 WimaxNMRList ::= SEQUENCE (SIZE (1..maxWimaxBSMeas)) OF " \o
    "WimaxNMR " \o End,
  Begin \o "WimaxNMR ::= SEQUENCE { wimaxBsID WimaxBsID, -- WiMax BS ID\n relDelay INTEGER " \o
    "(-32768..32767) OPTIONAL, -- Relative de\n--neighbouring\n relDelaystd INTEGER (0..1023) " \o
    "OPTIONAL, -- Standard de\n--delay in uni\n rssi INTEGER (0..255) OPTIONAL, -- RSSI in 0.2\n" \o
    "--from -103.75\n rSSIstd INTEGER (0..63) OPTIONAL, -- Standard de\n bSTxPower INTEGER " \o
    "(0..255) OPTIONAL, -- BS transmit\n--steps, start\n cinr INTEGER (0..255) OPTIONAL, -- in " \o
    "dB\n cINRstd INTEGER (0..63) OPTIONAL, -- Standard de\n bSLocation ReportedLocation " \o
    "OPTIONAL, -- Reported lo\n...} " \o End,
  Begin \o "NRCellInformation ::= SEQUENCE { servingCellInformation ServingCellInformationNR, --Serving " \o
    "cell\n--information\n measuredResultsListNR MeasResultListNR OPTIONAL, --Neighbour\n" \o
    "--measurements\n ... } -- Information\n" \o End,
  Begin \o "maxNRServingCell INTEGER ::= 32 ServingCellInformationNR ::= SEQUENCE (SIZE " \o
    "(1..maxNRServingCell)) OF ServCellNR -- The first l\n" \o End,
  Begin \o "ServCellNR ::= SEQUENCE { physCellId PhysCellIdNR, arfcn-NR ARFCN-NR, cellGlobalId " \o
    "CellGlobalIdNR, trackingAreaCode TrackingAreaCodeNR, ssb-Measurements NR-Measurements " \o
    "OPTIONAL, csi-rs-Measurements NR-Measurements OPTIONAL, ta INTEGER(0..3846) OPTIONAL, " \o
    "--Timing Advan\n--value\n ... } -- Measured re\n" \o End,
  Begin \o "maxCellReportNR INTEGER ::= 32 MeasResultListNR ::= SEQUENCE (SIZE (1..maxCellReportNR)) OF " \o
    "MeasResultNR " \o End,
  Begin \o "MeasResultNR ::= SEQUENCE { physCellId PhysCellIdNR, arfcn-NR ARFCN-NR, cellGlobalId " \o
    "CellGlobalIdNR OPTIONAL, trackingAreaCode TrackingAreaCodeNR OPTIONAL, ssb-Measurements " \o
    "NR-Measurements OPTIONAL, csi-rs-Measurements NR-Measurements OPTIONAL, ... } " \o End,
  Begin \o "PhysCellIdNR ::= INTEGER (0..1007) " \o End,
  Begin \o "ARFCN-NR ::= INTEGER (0.. 3279165) " \o End,
  Begin \o "TrackingAreaCodeNR ::= BIT STRING (SIZE (24)) " \o End,
  Begin \o "CellGlobalIdNR ::= SEQUENCE { plmn-Identity PLMN-Identity, cellIdentityNR CellIdentityNR, " \o
    "... } " \o End,
  Begin \o "CellIdentityNR ::= BIT STRING (SIZE (36)) " \o End,
  Begin \o "NR-Measurements ::= SEQUENCE { rsrp-Range INTEGER (0..127) OPTIONAL, rsrq-Range INTEGER " \o
    "(0..127) OPTIONAL, sinr-Range INTEGER (0..127) OPTIONAL, ... } " \o End,
  Begin \o "UTRAN-GPSReferenceTimeAssistance ::= SEQUENCE { utran-GPSReferenceTime " \o
    "UTRAN-GPSReferenceTime, gpsReferenceTimeUncertainty INTEGER (0..127) OPTIONAL, " \o
    "utranGPSDriftRate UTRANGPSDriftRate OPTIONAL} " \o End,
  Begin \o "UTRAN-GPSReferenceTime ::= SEQUENCE { -- For utran-G\n--version of t\n--4294967296) \n " \o
    "utran-GPSTimingOfCell SEQUENCE { ms-part INTEGER (0..1023), ls-part INTEGER " \o
    "(0..4294967295)}, modeSpecificInfo CHOICE { fdd SEQUENCE { referenceIdentity " \o
    "PrimaryCPICH-Info}, tdd SEQUENCE { referenceIdentity CellParametersID}} OPTIONAL, sfn " \o
    "INTEGER (0..4095)} " \o End,
  Begin \o "UTRANGPSDriftRate ::= ENUMERATED { utran-GPSDrift0, utran-GPSDrift1, utran-GPSDrift2, " \o
    "utran-GPSDrift5, utran-GPSDrift10, utran-GPSDrift15, utran-GPSDrift25, utran-GPSDrift50, " \o
    "utran-GPSDrift-1, utran-GPSDrift-2, utran-GPSDrift-5, utran-GPSDrift-10, utran-GPSDrift-15, " \o
    "utran-GPSDrift-25, utran-GPSDrift-50} " \o End,
  Begin \o "UTRAN-GPSReferenceTimeResult ::= SEQUENCE { -- For ue-GPST\n--version of t\n--4294967296) \n" \o
    " set-GPSTimingOfCell SEQUENCE { ms-part INTEGER (0.. 16383), ls-part INTEGER " \o
    "(0..4294967295)}, modeSpecificInfo CHOICE { fdd SEQUENCE { referenceIdentity " \o
    "PrimaryCPICH-Info}, tdd SEQUENCE { referenceIdentity CellParametersID}} OPTIONAL, sfn " \o
    "INTEGER (0..4095), gpsReferenceTimeUncertainty INTEGER (0..127) OPTIONAL, ...} " \o End,
  Begin \o "UTRAN-GANSSReferenceTimeAssistance ::= SEQUENCE { ganssDay INTEGER (0..8191) OPTIONAL, " \o
    "ganssTimeID INTEGER (0..15), utran-GANSSReferenceTime UTRAN-GANSSReferenceTime, " \o
    "utranGANSSDriftRate UTRANGANSSDriftRate OPTIONAL} " \o End,
  Begin \o "UTRAN-GANSSReferenceTime ::= SEQUENCE { ganssTOD INTEGER (0..86399), " \o
    "utran-GANSSTimingOfCell INTEGER (0..3999999)OPTIONAL, modeSpecificInfo CHOICE { fdd " \o
    "SEQUENCE { referenceIdentity PrimaryCPICH-Info}, tdd SEQUENCE { referenceIdentity " \o
    "CellParametersID}} OPTIONAL, sfn INTEGER (0..4095), ganss-TODUncertainty INTEGER (0..127) " \o
    "OPTIONAL, ...} " \o End,
  Begin \o "UTRANGANSSDriftRate ::= ENUMERATED { utran-GANSSDrift0, utran-GANSSDrift1, " \o
    "utran-GANSSDrift2, utran-GANSSDrift5, utran-GANSSDrift10, utran-GANSSDrift15, " \o
    "utran-GANSSDrift25, utran-GANSSDrift50, utran-GANSSDrift-1, utran-GANSSDrift-2, " \o
    "utran-GANSSDrift-5, utran-GANSSDrift-10, utran-GANSSDrift-15, utran-GANSSDrift-25, " \o
    "utran-GANSSDrift-50} " \o End,
  Begin \o "UTRAN-GANSSReferenceTimeResult ::= SEQUENCE { ganssTimeID INTEGER (0..15), " \o
    "set-GANSSReferenceTime SET-GANSSReferenceTime, ...} " \o End,
  Begin \o "SET-GANSSReferenceTime ::= SEQUENCE { -- Actual valu\n-- Actual valu\n-- protocol er\n " \o
    "set-GANSSTimingOfCell SEQUENCE { ms-part INTEGER (0..80), ls-part INTEGER (0..4294967295)} " \o
    "OPTIONAL, modeSpecificInfo CHOICE { fdd SEQUENCE { referenceIdentity PrimaryCPICH-Info}, " \o
    "tdd SEQUENCE { referenceIdentity CellParametersID}} OPTIONAL, sfn INTEGER (0..4095), " \o
    "ganss-TODUncertainty INTEGER (0..127) OPTIONAL, ...} " \o End,
  Begin \o "GNSSPosTechnology ::= SEQUENCE { gps BOOLEAN, galileo BOOLEAN, sbas BOOLEAN, modernized-gps " \o
    "BOOLEAN, qzss BOOLEAN, glonass BOOLEAN, ..., bds BOOLEAN OPTIONAL} -- indicates M\n" \o
    "--according to\n" \o End,
  Begin \o "GANSSSignals ::= BIT STRING { signal1 (0), signal2 (1), signal3 (2), signal4 (3), signal5 " \o
    "(4), signal6 (5), signal7 (6), signal8 (7)} (SIZE (1..8)) " \o End,
  Begin \o "SPCSETKey ::= BIT STRING(SIZE (128)) " \o End,
  Begin \o "SPCTID ::= SEQUENCE { rand BIT STRING(SIZE (128)), slpFQDN FQDN, ...} " \o End,
  Begin \o "SPCSETKeylifetime ::= INTEGER (1..24) -- units in ho\n" \o End,
  Begin \o "CauseCode ::= ENUMERATED { servingNetWorkNotInAreaIdList(0), sETCapabilitiesChanged(1), " \o
    "noSUPLCoverage(2), ...} " \o End,
  Begin \o "ThirdParty ::= SEQUENCE (SIZE (1..64)) OF ThirdPartyID " \o End,
  Begin \o "ThirdPartyID ::= CHOICE { logicalName IA5String(SIZE (1..1000)), msisdn OCTET STRING(SIZE " \o
    "(8)), emailaddr IA5String(SIZE (1..1000)), sip-uri VisibleString(FROM (\"a\"..\"z\" | " \o
    "\"A\"..\"Z\" | \"0\"..\"9\" | \":./-_~%#@?\")) (SIZE (1..255)), ims-public-identity " \o
    "VisibleString(FROM (\"a\"..\"z\" | \"A\"..\"Z\" | \"0\"..\"9\" | \":./-_~%#@?\")) (SIZE " \o
    "(1..255)), min BIT STRING(SIZE (34)), -- coded accor\nmdn OCTET STRING(SIZE (8)), uri " \o
    "VisibleString(FROM (\"a\"..\"z\" | \"A\"..\"Z\" | \"0\"..\"9\" | \"./-\n_~%#\")) (SIZE " \o
    "(1..255)), ...} " \o End,
  Begin \o "ApplicationID ::= SEQUENCE { appProvider IA5String(SIZE (1..24)), -- The applica\nappName " \o
    "IA5String(SIZE (1..32)), -- The applica\nappVersion IA5String(SIZE (1..8)) OPTIONAL, -- The " \o
    "applica\n--version\n...} " \o End,
  Begin \o "ReportingCap ::= SEQUENCE { minInt INTEGER (1..3600), -- units in se\n maxInt INTEGER " \o
    "(1..1440) OPTIONAL, -- units in mi\nrepMode RepMode, batchRepCap BatchRepCap OPTIONAL, -- " \o
    "only used f\n--real time re\n...} " \o End,
  Begin \o "RepMode ::= SEQUENCE { realtime BOOLEAN, quasirealtime BOOLEAN, batch BOOLEAN, ...} " \o End,
  Begin \o "BatchRepCap ::= SEQUENCE { report-position BOOLEAN, -- set to \"tru\n--supported\n" \o
    "report-measurements BOOLEAN, -- set to \"tru\n--supported\nmax-num-positions INTEGER " \o
    "(1..1024) OPTIONAL, max-num-measurements INTEGER (1..1024) OPTIONAL, ...} " \o End,
  Begin \o "Coordinate::= SEQUENCE { latitudeSign ENUMERATED {north(0), south(1)}, latitude " \o
    "INTEGER(0..8388607), longitude INTEGER(-8388608..8388607)} -- Coding as i\n" \o End,
  Begin \o "CircularArea ::= SEQUENCE { coordinate Coordinate, radius INTEGER(1..1000000), -- radius in " \o
    "m\nradius-min INTEGER(1..1000000) OPTIONAL, -- hysteresis \n--radius\nradius-max " \o
    "INTEGER(1..1500000) OPTIONAL} -- hysteresis \n--radius\n" \o End,
  Begin \o "EllipticalArea ::= SEQUENCE { coordinate Coordinate, semiMajor INTEGER(1..1000000), -- " \o
    "units in me\nsemiMajor-min INTEGER(1..1000000) OPTIONAL, -- hysteresis \n--semiMajor\n" \o
    "semiMajor-max INTEGER(1..1500000) OPTIONAL, -- hysteresis \n--semiMajor\nsemiMinor " \o
    "INTEGER(1..1000000), -- units in me\nsemiMinor-min INTEGER(1..1000000) OPTIONAL, -- " \o
    "hysteresis \n--semiMinor\nsemiMinor-max INTEGER(1..1500000) OPTIONAL, -- hysteresis \n" \o
    "--semiMinor\nangle INTEGER(0.. 179)} -- units in de\n--defined as t\n--clockwise di\n--axis " \o
    "pointin\n--semi-major a\n" \o End,
  Begin \o "PolygonArea ::= SEQUENCE { polygonDescription PolygonDescription, polygonHysteresis " \o
    "INTEGER(1..100000) OPTIONAL} --units in met\n" \o End,
  Begin \o "PolygonDescription ::= SEQUENCE (SIZE (3..15)) OF Coordinate " \o End,
  Begin \o "ULP-PDU ::= SEQUENCE { length INTEGER(0..65535), version Version, sessionID SessionID, " \o
    "message UlpMessage} " \o End,
  Begin \o "UlpMessage ::= CHOICE { msSUPLINIT SUPLINIT, msSUPLSTART SUPLSTART, msSUPLRESPONSE " \o
    "SUPLRESPONSE, msSUPLPOSINIT SUPLPOSINIT, msSUPLPOS SUPLPOS, msSUPLEND SUPLEND, " \o
    "msSUPLAUTHREQ SUPLAUTHREQ, msSUPLAUTHRESP SUPLAUTHRESP, ..., msSUPLTRIGGEREDSTART " \o
    "Ver2-SUPLTRIGGEREDSTART, msSUPLTRIGGEREDRESPONSE Ver2-SUPLTRIGGEREDRESPONSE, " \o
    "msSUPLTRIGGEREDSTOP Ver2-SUPLTRIGGEREDSTOP, msSUPLNOTIFY Ver2-SUPLNOTIFY, " \o
    "msSUPLNOTIFYRESPONSE Ver2-SUPLNOTIFYRESPONSE, msSUPLSETINIT Ver2-SUPLSETINIT, msSUPLREPORT " \o
    "Ver2-SUPLREPORT} " \o End>>
===============================================================================

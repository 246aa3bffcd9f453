-------------------------------- MODULE Manifest --------------------------------
(***************************************************************************)
(* What a device manifest means: the validator of                          *)
(* core/device-engine/src/validate.ts, the designer's form and its two     *)
(* conversions (core/studio/src/designer.ts), what is generated from a     *)
(* manifest, and its conformance to a Matter device type                   *)
(* (core/conformance/src).  Operators only.                                *)
(*                                                                         *)
(* A manifest is what the YAML parser returns: a record in which an absent *)
(* text is "", an absent range or battery {}, and broken names the         *)
(* sections that are missing or not of their kind.  Warnings change        *)
(* nothing and are left out.                                               *)
(***************************************************************************)
EXTENDS Integers, Sequences, SequencesExt, TLC

CONSTANT LowerSnake   \* the strings in use that match NAME_PATTERN

KNOWN_PROTOCOLS == {"matter", "thread", "bluetooth", "wifi", "zigbee", "zwave", "mqtt", "rest"}

Known(protocols) ==
    FoldLeft(LAMBDA known, p : IF p \in KNOWN_PROTOCOLS THEN Append(known, p) ELSE known,
             <<>>, protocols)
Unknown(protocols) ==
    FoldLeft(LAMBDA unknown, p : IF p \in KNOWN_PROTOCOLS THEN unknown ELSE Append(unknown, p),
             <<>>, protocols)

(* A range has both its ends, a mapping each key once. *)
IsEntry(c) ==
    c.kind = "sensor" =>
        /\ c = [key |-> c.key, kind |-> "sensor", unit |-> c.unit, range |-> c.range]
        /\ c.range = {} \/ \E r \in c.range : r = [min |-> r.min, max |-> r.max] /\ c.range = {r}

IsMapping(entries) ==
    /\ entries \in Seq(ToSet(entries))
    /\ \A i \in 1..Len(entries) : IsEntry(entries[i])
    /\ \A i, j \in 1..Len(entries) : entries[i].key = entries[j].key => i = j

IsManifest(m) ==
    /\ IsMapping(m.capabilities)
    /\ m.protocols \in Seq(ToSet(m.protocols))
    /\ m.battery \in {{}, {TRUE}, {FALSE}}
    /\ m.encryption \in BOOLEAN

--------------------------------------------------------------------------------
(* validate.ts: the paths of the errors. *)
DeviceErrors(m) ==
    IF "device" \in m.broken THEN {"device"}
    ELSE IF m.name \notin LowerSnake THEN {"device.name"}
    ELSE IF m.category = "" THEN {"device.category"} ELSE {}

SensorErrors(c) == IF \E r \in c.range : r.min >= r.max THEN {<<c.key, "range">>} ELSE {}

ActuatorErrors(c) ==
    IF c.modes = <<>> THEN {<<c.key, "modes">>}
    ELSE {<<c.key, "modes", i>> : i \in {j \in 1..Len(c.modes) : c.modes[j] \notin LowerSnake}}

CapabilityErrors(c) ==
    IF c.key \notin LowerSnake THEN {<<c.key>>}
    ELSE CASE c.kind = "sensor" -> SensorErrors(c)
           [] c.kind = "actuator" -> ActuatorErrors(c)
           [] OTHER -> {<<c.key, "type">>}

CapabilitiesErrors(m) ==
    IF "capabilities" \in m.broken THEN {<<"capabilities">>}
    ELSE UNION {CapabilityErrors(m.capabilities[i]) : i \in 1..Len(m.capabilities)}

ConnectivityErrors(m) ==
    IF "connectivity" \in m.broken THEN {"connectivity"}
    ELSE IF m.protocols = <<>> THEN {"connectivity.protocols"} ELSE {}

(* parseManifest returns no IR when there is any error. *)
Valid(m) ==
    /\ m.yaml
    /\ DeviceErrors(m) = {}
    /\ CapabilitiesErrors(m) = {}
    /\ ConnectivityErrors(m) = {}

(* Of a section that is not a mapping nothing is taken. *)
Power(m) == IF "power" \in m.broken THEN {} ELSE m.battery
Security(m) == "security" \notin m.broken /\ m.encryption

(* The DeviceIR of a valid manifest. *)
DeviceIR(m) ==
    [device |-> [name |-> m.name, category |-> m.category, manufacturer |-> m.manufacturer],
     capabilities |-> m.capabilities,
     protocols |-> Known(m.protocols),
     unknownProtocols |-> Unknown(m.protocols),
     battery |-> Power(m),
     encryption |-> Security(m)]

--------------------------------------------------------------------------------
(* designer.ts: the form. *)
emptyForm ==
    [name |-> "", category |-> "", manufacturer |-> "", capabilities |-> <<>>,
     protocols |-> <<>>, battery |-> [enabled |-> FALSE, rechargeable |-> FALSE],
     encryption |-> FALSE]

FormCapability(c) ==
    IF c.kind = "sensor"
    THEN [key |-> c.key, kind |-> "sensor", unit |-> c.unit,
          min |-> {r.min : r \in c.range}, max |-> {r.max : r \in c.range}]
    ELSE c

(* Unknown protocols are not carried into the form. *)
manifestToForm(m) ==
    IF ~Valid(m) THEN emptyForm
    ELSE LET ir == DeviceIR(m) IN
         [name |-> ir.device.name, category |-> ir.device.category,
          manufacturer |-> ir.device.manufacturer,
          capabilities |-> [i \in 1..Len(ir.capabilities) |-> FormCapability(ir.capabilities[i])],
          protocols |-> ir.protocols,
          battery |-> [enabled |-> ir.battery # {}, rechargeable |-> ir.battery = {TRUE}],
          encryption |-> ir.encryption]

(* The fields of a sensor hold a number each, or nothing. *)
IsField(c) ==
    c.kind = "sensor" =>
        /\ c.min = {} \/ \E a \in c.min : c.min = {a}
        /\ c.max = {} \/ \E b \in c.max : c.max = {b}

IsForm(f) ==
    /\ f.capabilities \in Seq(ToSet(f.capabilities))
    /\ \A i \in 1..Len(f.capabilities) : IsField(f.capabilities[i])
    /\ f.protocols \in Seq(ToSet(f.protocols))
    /\ {f.battery.enabled, f.battery.rechargeable, f.encryption} \subseteq BOOLEAN

(* A range needs both ends. *)
ManifestCapability(c) ==
    IF c.kind = "sensor"
    THEN [key |-> c.key, kind |-> "sensor", unit |-> c.unit,
          range |-> {[min |-> a, max |-> b] : a \in c.min, b \in c.max}]
    ELSE c

(* capabilities[cap.key] = entry: the same key again replaces its entry. *)
SetProperty(entries, c) ==
    IF \E i \in 1..Len(entries) : entries[i].key = c.key
    THEN [i \in 1..Len(entries) |-> IF entries[i].key = c.key THEN c ELSE entries[i]]
    ELSE Append(entries, c)

formToManifest(form) ==
    [yaml |-> TRUE, broken |-> {}, name |-> form.name, category |-> form.category,
     manufacturer |-> form.manufacturer,
     capabilities |-> FoldLeft(LAMBDA entries, c : SetProperty(entries, ManifestCapability(c)),
                               <<>>, form.capabilities),
     protocols |-> form.protocols,
     battery |-> IF form.battery.enabled THEN {form.battery.rechargeable} ELSE {},
     encryption |-> form.encryption]

--------------------------------------------------------------------------------
Sensor(key, unit, min, max) ==
    [key |-> key, kind |-> "sensor", unit |-> unit, min |-> {min}, max |-> {max}]
Actuator(key, modes) == [key |-> key, kind |-> "actuator", modes |-> modes]

Template(name, category, capabilities, protocols, battery) ==
    [name |-> name, category |-> category, manufacturer |-> "", capabilities |-> capabilities,
     protocols |-> protocols, battery |-> [enabled |-> battery, rechargeable |-> FALSE],
     encryption |-> TRUE]

DEVICE_TEMPLATES ==
    [thermostat |->
        Template("smart_thermostat", "thermostat",
                 <<Sensor("temperature_sensor", "celsius", -20, 50),
                   Actuator("hvac", <<"heating", "cooling", "off">>)>>,
                 <<"matter", "thread">>, FALSE),
     environment_sensor |->
        Template("environment_sensor", "sensor",
                 <<Sensor("temperature_sensor", "celsius", -40, 85),
                   Sensor("humidity_sensor", "percent", 0, 100)>>,
                 <<"matter", "thread">>, TRUE),
     smart_plug |->
        Template("smart_plug", "plug",
                 <<Actuator("power_switch", <<"on", "off">>),
                   Sensor("power_meter", "watt", 0, 3680)>>,
                 <<"matter", "wifi">>, FALSE),
     smart_light |->
        Template("smart_light", "light",
                 <<Actuator("power_switch", <<"on", "off">>),
                   Actuator("scene", <<"warm_white", "cool_white", "color">>)>>,
                 <<"matter", "thread">>, FALSE),
     motion_sensor |->
        Template("motion_sensor", "sensor",
                 <<Sensor("occupancy_sensor", "state", 0, 1)>>,
                 <<"matter", "thread">>, TRUE)]

--------------------------------------------------------------------------------
(* conformance: the two profiles, with the entries of the generated Matter *)
(* Device Library they refer to.                                           *)
PLATFORM_CLUSTERS == {\h0003, \h0004, \h0062, \h001d, \h001e}

MATTER_DEVICE_TYPES ==
    (\h0301 :> [mandatory |-> {\h0003, \h0201}, optional |-> {\h0004, \h009b, \h0204}])
    @@ (\h010a :> [mandatory |-> {\h0003, \h0004, \h0006, \h0062}, optional |-> {\h0008}])

PROFILES ==
    [thermostat |-> [matterDeviceType |-> \h0301, capabilityClusters |-> [hvac |-> \h0201]],
     smart_plug |-> [matterDeviceType |-> \h010a, capabilityClusters |-> [outlet |-> \h0006]]]

Capabilities(ir) == {ir.capabilities[i] : i \in 1..Len(ir.capabilities)}

HasModes(ir, key, modes) ==
    \A c \in Capabilities(ir) :
        c.key = key /\ c.kind = "actuator" => modes \subseteq ToSet(c.modes)

(* The constraints of a profile that are errors, and those that warn. *)
ConstraintErrors(ir, class) ==
    CASE class = "thermostat" -> IF HasModes(ir, "hvac", {"off"}) THEN {} ELSE {"hvac.modes"}
      [] class = "smart_plug" -> IF HasModes(ir, "outlet", {"on", "off"}) THEN {} ELSE {"outlet.modes"}

ConstraintWarnings(ir, class) ==
    IF class = "thermostat"
       /\ ~\E c \in Capabilities(ir) :
              c.key = "temperature_sensor" /\ (c.kind = "sensor" => c.range # {})
    THEN {"temperature_sensor"} ELSE {}

(* The clusters a profile's capabilities provide on this device. *)
Provided(ir, profile) ==
    {profile.capabilityClusters[key] :
        key \in DOMAIN profile.capabilityClusters \intersect {c.key : c \in Capabilities(ir)}}

MissingClusters(ir, profile) ==
    MATTER_DEVICE_TYPES[profile.matterDeviceType].mandatory
        \ (Provided(ir, profile) \union PLATFORM_CLUSTERS)

(* conform(), with the device's category for class. *)
Verdict(ir) ==
    LET class == ir.device.category IN
    IF class \notin DOMAIN PROFILES THEN "nonconformant"
    ELSE IF MissingClusters(ir, PROFILES[class]) # {} \/ ConstraintErrors(ir, class) # {}
         THEN "nonconformant"
    ELSE IF ConstraintWarnings(ir, class) # {} THEN "conformant_with_gaps" ELSE "conformant"

conformManifest(m) == IF Valid(m) THEN Verdict(DeviceIR(m)) ELSE "nonconformant"
================================================================================

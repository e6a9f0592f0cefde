SPECIFICATION Spec

CONSTANTS
    verb = verb
    sysl = sysl
    charger = charger
    red = red
    file = file
    ival = ival
    tty = tty
    Unset = Unset
    NoFile = NoFile
    BadArgument = BadArgument
    NoTelegram = NoTelegram
    Telegram = {t1, t2}
    t1 = t1
    t2 = t2
    STDOUT_FILENO = 1
    Descriptor = {3, 4}
    Param <- MCParam
    ParamName <- MCNames
    NameOf <- MCNameOf
    Default <- MCDefault
    Text <- MCText
    Parses <- MCParses
    verbosity = verb
    use_syslog = sysl
    Configurations <- MCConfigurations
    Statics <- MCStatics
    MainParams <- MCMainParams
    interval = ival
    filename = file
    MaxLate = 2
    ClockSteps <- MCClockSteps
    MaxClockSteps = 1

INVARIANTS
    TypeOK
    Precedence
    NoLeak
    LossNoticed

PROPERTIES
    Starts
    Recovers
    NoBurst
    Terminates

CHECK_DEADLOCK FALSE
